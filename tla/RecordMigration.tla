--------------------------- MODULE RecordMigration ---------------------------
(***************************************************************************)
(* What a rotation does to the stored values, field by field:              *)
(* _migrateRecordFields of encryption.rotation.worker.js and the batch     *)
(* loop around it, over aes-gcm.js and envelope.js, for the targets the    *)
(* repository has: a table of the application, the rows test.js makes in   *)
(* in-memory.target.js, and the rows /test/records/seed makes there.       *)
(*                                                                         *)
(* RotationPipeline has the same loop with a record as one value and its   *)
(* batch as one step, and the rotation's row, lock and cancellation around *)
(* it.  Here a record has fields, an envelope has its AAD, each record is  *)
(* a step, and the rotation is a job that is queued until it is done.      *)
(***************************************************************************)
EXTENDS Naturals, FiniteSets

CONSTANTS
  Fields,       \* the encrypted fields of a table
  OldRows,      \* rows of the table from before the rotation
  BatchSize,    \* config.rotation.batchSize
  MaxId,        \* bound: primary keys
  MaxFaults     \* bound: faults in a behaviour

ASSUME BoundsAssumption == /\ BatchSize \in Nat \ {0}
                           /\ MaxId \in Nat
                           /\ OldRows \in 0..MaxId
                           /\ MaxFaults \in Nat

Ids == 1..MaxId
From == 1       \* from_version: the ACTIVE DEK when the rotation is created
To == 2         \* to_version, minted for it

VARIABLES
  target,     \* the kind of target; it does not change
  rows,       \* rows[i][f]: the value in field f of row i
  nextId,     \* the primary key of the next row
  active,     \* the newest DEK version that has been ACTIVE
  run,        \* the rotation's job, and the frame of _processJob
  ckpt,       \* last_processed_id, processed_records and failed_records
  faults,     \* bound: the faults still to come
  present     \* history: the cells that held a value when the rotation was
              \* created, and whose rows are still there

vars == <<target, rows, nextId, active, run, ckpt, faults, present>>

Targets == {"table", "tests", "seeded"}
InMemory == target # "table"
EncryptedFields == IF InMemory THEN {"value_encrypted"} ELSE Fields

-----------------------------------------------------------------------------
(* Values.  An envelope is the DEK version in its tag, the AAD it was made *)
(* with and the plaintext, which is named for the cell it was written to.  *)
(* Null is an empty field; what was stored before there were envelopes, or *)
(* in their first format, has version 0 and a plaintext.                   *)

Places == EncryptedFields \X Ids
NoAad == <<>>
Values == [ver : {0, From, To}, aad : Places \cup {NoAad},
           plain : Places \cup {<<>>}]
Rows == [EncryptedFields -> Values]
AreRows(part) == DOMAIN part \subseteq Ids /\ part \in [DOMAIN part -> Rows]

Null == [ver |-> 0, aad |-> NoAad, plain |-> <<>>]
Old(f, i) == [ver |-> 0, aad |-> NoAad, plain |-> <<f, i>>]

\* encrypt and serializeEnvelope; and what deserializeEnvelope and decrypt, with
\* the DEK of the version in the tag, do not throw at.
Encrypt(v, plain, aad) == [ver |-> v, aad |-> aad, plain |-> plain]
Opens(value, aad) == value.ver # 0 /\ value.aad = aad

\* "Model:field:primaryKey", as the worker has it and every writer but
\* seedRecords, which passes no AAD.
Aad(f, i) == <<f, i>>
AppAad(f, i) == IF target = "seeded" THEN NoAad ELSE Aad(f, i)

\* What a table may hold before the rotation.
OldValues(f, i) == [null     |-> Null,
                    old      |-> Old(f, i),
                    envelope |-> Encrypt(From, <<f, i>>, Aad(f, i))]

Cells == {<<f, i>> : f \in EncryptedFields, i \in DOMAIN rows}
At(cell) == rows[cell[2]][cell[1]]

-----------------------------------------------------------------------------
(* Where _processJob is suspended:                                         *)
(*   none      the rotation has not been created                           *)
(*   queued    its job waits, for the first time or for a retry            *)
(*   fetch     findAll of the next batch                                   *)
(*   records   the transaction of the batch                                *)
(*   activate  after the last batch, before activateDek has committed      *)
(*   done      the rotation is COMPLETED and its version ACTIVE            *)
PCs == {"none", "queued", "fetch", "records", "activate", "done"}
Checkpoints == [last : 0..MaxId, done : Nat, failed : Nat]
Frames(batches) ==
  [pc : PCs, at : Checkpoints,  \* lastId, processed and failed
   batch : batches,             \* the records, as findAll returned them
   tx : SUBSET Ids,             \* those the transaction has updated
   aborted : BOOLEAN]           \* a statement of it has failed

NoRows == [i \in {} |-> Null]
NoCheckpoint == [last |-> 0, done |-> 0, failed |-> 0]
Between(pc, at) ==
  [pc |-> pc, at |-> at, batch |-> NoRows, tx |-> {}, aborted |-> FALSE]

TypeOK ==
  /\ target \in Targets
  /\ AreRows(rows)
  /\ nextId \in 1..MaxId + 1
  /\ active \in {From, To}
  /\ AreRows(run.batch) /\ run \in Frames({run.batch})
  /\ ckpt \in Checkpoints
  /\ faults \in 0..MaxFaults
  /\ present \subseteq Cells

\* A table has rows already: each field is empty, not an envelope, or one.
Init ==
  /\ target \in Targets
  /\ IF InMemory THEN rows = NoRows
     ELSE \E kind \in [1..OldRows -> [Fields -> {"null", "old", "envelope"}]] :
            rows = [i \in 1..OldRows |->
                      [f \in Fields |-> OldValues(f, i)[kind[i][f]]]]
  /\ nextId = IF InMemory THEN 1 ELSE OldRows + 1
  /\ active = From
  /\ run = Between("none", NoCheckpoint)
  /\ ckpt = NoCheckpoint
  /\ faults = MaxFaults
  /\ present = {}

Fault == faults > 0 /\ faults' = faults - 1

-----------------------------------------------------------------------------
(* The application, or the tests.  The AAD has the primary key, so a row   *)
(* is inserted first and gets its values later, each encrypted under a     *)
(* version that has been ACTIVE by then; seedRecords encrypts first.       *)

SeedVersions == IF target = "seeded" THEN From..active ELSE {0}
Insert ==
  /\ nextId \in Ids
  /\ \E v \in SeedVersions :
       rows' = [i \in DOMAIN rows \cup {nextId} |->
                  IF i # nextId THEN rows[i]
                  ELSE [f \in EncryptedFields |->
                          IF v = 0 THEN Null ELSE Encrypt(v, <<f, i>>, AppAad(f, i))]]
  /\ nextId' = nextId + 1
  /\ UNCHANGED <<target, active, run, ckpt, faults, present>>

\* An UPDATE waits while the batch's transaction has the row locked.
Store(f, i) ==
  /\ rows[i][f] = Null
  /\ InMemory \/ i \notin run.tx
  /\ \E v \in From..active :
       rows' = [rows EXCEPT ![i] =
                  [rows[i] EXCEPT ![f] = Encrypt(v, <<f, i>>, AppAad(f, i))]]
  /\ UNCHANGED <<target, nextId, active, run, ckpt, faults, present>>

\* POST /test/records/reset
Reset ==
  /\ target = "seeded"
  /\ rows' = NoRows
  /\ nextId' = 1
  /\ present' = {}
  /\ UNCHANGED <<target, active, run, ckpt, faults>>

-----------------------------------------------------------------------------
(* The rotation.                                                           *)

CreateRotation ==
  /\ run.pc = "none"
  /\ run' = Between("queued", NoCheckpoint)
  /\ present' = {c \in Cells : At(c) # Null}
  /\ UNCHANGED <<target, rows, nextId, active, ckpt, faults>>

\* An attempt begins, at the checkpoint.
Start ==
  /\ run.pc = "queued"
  /\ run' = Between("fetch", ckpt)
  /\ UNCHANGED <<target, rows, nextId, active, ckpt, faults, present>>

Behind == {i \in DOMAIN rows : i > run.at.last}
NextIds == {i \in Behind : Cardinality({j \in Behind : j < i}) < BatchSize}

Fetch ==
  /\ run.pc = "fetch"
  /\ NextIds # {}
  /\ run' = [Between("records", run.at) EXCEPT !.batch = [i \in NextIds |-> rows[i]]]
  /\ UNCHANGED <<target, rows, nextId, active, ckpt, faults, present>>

FetchNone ==
  /\ run.pc = "fetch"
  /\ NextIds = {}
  /\ run' = Between("activate", run.at)
  /\ UNCHANGED <<target, rows, nextId, active, ckpt, faults, present>>

-----------------------------------------------------------------------------
(* _migrateRecordFields.  A Slip* definition is the one after it as a      *)
(* plausible mistake would have it; the properties are seen to fail with   *)
(* it, and nothing else refers to it.                                      *)

Left == {i \in DOMAIN run.batch : i > run.at.last}
IsNext(i) == i \in Left /\ \A j \in Left : i <= j

\* The fields that are neither empty nor of the new version already.
Due(i) == {f \in EncryptedFields : run.batch[i][f] # Null /\ run.batch[i][f].ver # To}

\* Every one of them opens: the first that does not throws, before the update.
SlipMigrates(i) ==
  Due(i) = {} \/ \E f \in Due(i) : Opens(run.batch[i][f], Aad(f, i))
Migrates(i) == \A f \in Due(i) : Opens(run.batch[i][f], Aad(f, i))

SlipRewrapped(i, f) == Encrypt(To, run.batch[i][f].plain, NoAad)
Rewrapped(i, f) == Encrypt(To, run.batch[i][f].plain, Aad(f, i))

\* A row with the fields that were due replaced.
Updated(row, i) ==
  [f \in EncryptedFields |-> IF f \in Due(i) THEN Rewrapped(i, f) ELSE row[f]]

SlipPassed(i) == [run.at EXCEPT !.last = i + 1, !.done = run.at.done + 1]
Passed(i) == [run.at EXCEPT !.last = i, !.done = run.at.done + 1]
SlipFailed(i) == [run.at EXCEPT !.last = i]
Failed(i) == [run.at EXCEPT !.last = i, !.failed = run.at.failed + 1]

Skip(i) ==
  /\ Due(i) = {}
  /\ run' = [run EXCEPT !.at = Passed(i)]
  /\ UNCHANGED <<target, rows, nextId, active, ckpt, faults, present>>

\* The UPDATE of a table, seen by nobody before the commit.
UpdateTable(i) ==
  /\ ~InMemory /\ Due(i) # {} /\ Migrates(i) /\ ~run.aborted
  /\ run' = [run EXCEPT !.at = Passed(i), !.tx = run.tx \cup {i}]
  /\ UNCHANGED <<target, rows, nextId, active, ckpt, faults, present>>

\* The record in memory knows no transaction: it puts its own data into the
\* store, at once, whether the row is still there or not.
UpdateMemory(i) ==
  /\ InMemory /\ Due(i) # {} /\ Migrates(i)
  /\ run' = [run EXCEPT !.at = Passed(i)]
  /\ rows' = [j \in DOMAIN rows \cup {i} |->
                 IF j = i THEN Updated(run.batch[i], i) ELSE rows[j]]
  /\ UNCHANGED <<target, nextId, active, ckpt, faults, present>>

\* Not an envelope, another AAD, or a key that cannot be had for the moment.
RecordFails(i) ==
  /\ \/ ~Migrates(i) /\ UNCHANGED faults
     \/ Migrates(i) /\ Due(i) # {} /\ Fault
  /\ run' = [run EXCEPT !.at = Failed(i)]
  /\ UNCHANGED <<target, rows, nextId, active, ckpt, present>>

\* The UPDATE is refused.  The loop counts it and goes on, but PostgreSQL takes
\* no further statement in this transaction.
UpdateFails(i) ==
  /\ ~InMemory /\ Due(i) # {} /\ Migrates(i)
  /\ IF run.aborted THEN UNCHANGED faults ELSE Fault
  /\ run' = [run EXCEPT !.at = Failed(i), !.aborted = TRUE]
  /\ UNCHANGED <<target, rows, nextId, active, ckpt, present>>

MigrateRecord ==
  \E i \in Ids :
    /\ run.pc = "records"
    /\ IsNext(i)
    /\ \/ Skip(i) \/ UpdateTable(i) \/ UpdateMemory(i)
       \/ RecordFails(i) \/ UpdateFails(i)

\* persistCheckpoint, and the end of the transaction.
Commit ==
  /\ run.pc = "records" /\ Left = {} /\ ~run.aborted
  /\ rows' = [i \in DOMAIN rows |->
                 IF i \in run.tx THEN Updated(rows[i], i) ELSE rows[i]]
  /\ ckpt' = run.at
  /\ run' = Between("fetch", run.at)
  /\ UNCHANGED <<target, nextId, active, faults, present>>

-----------------------------------------------------------------------------
(* The end of an attempt.                                                  *)

\* persistCheckpoint throws in an aborted transaction: the job is retried.
RollBack ==
  /\ run.pc = "records" /\ Left = {} /\ run.aborted
  /\ run' = Between("queued", ckpt)
  /\ UNCHANGED <<target, rows, nextId, active, ckpt, faults, present>>

\* An await outside the loop over the records rejects, or the process dies,
\* which would be the end of the rows it has in memory as well.
Interrupt ==
  /\ \/ run.pc \in {"fetch", "activate"}
     \/ run.pc = "records" /\ (Left = {} \/ ~InMemory)
  /\ Fault
  /\ run' = Between("queued", ckpt)
  /\ UNCHANGED <<target, rows, nextId, active, ckpt, present>>

Activate ==
  /\ run.pc = "activate"
  /\ active' = To
  /\ run' = Between("done", run.at)
  /\ UNCHANGED <<target, rows, nextId, ckpt, faults, present>>

-----------------------------------------------------------------------------
Outside == \/ Insert
           \/ \E i \in DOMAIN rows, f \in EncryptedFields : Store(f, i)
           \/ Reset
           \/ CreateRotation
Work == Fetch \/ FetchNone \/ MigrateRecord \/ Commit
End == RollBack \/ Interrupt \/ Activate

\* Once the rotation is over nobody has to do any more.
Quiet == run.pc = "done" /\ UNCHANGED vars

Next == Outside \/ Start \/ Work \/ End \/ Quiet

Spec == Init /\ [][Next]_vars

-----------------------------------------------------------------------------
(* Properties.                                                             *)

\* Whatever the rotation has done to it or has still to do, the application
\* reads every value with the AAD it wrote it with, and gets what it wrote.
ReadersReadBack ==
  \A c \in Cells :
    At(c).ver # 0 => /\ Opens(At(c), AppAad(c[1], c[2]))
                     /\ At(c).plain = c

\* A rotation that is over and counts no failure has moved every value there
\* was at its creation: however its attempts were cut off, its transactions
\* aborted, its records skipped or its keys out of reach.
NoFailuresMeansMigrated ==
  run.pc = "done" /\ ckpt.failed = 0 => \A c \in present : At(c).ver = To

\* The rotation does to the values what EncryptedStore allows, and nothing
\* else: no row is half migrated, and none with a field that does not open.
Stored(i, f) == [ver   |-> rows[i][f].ver,
                 plain |-> rows[i][f].plain,
                 opens |-> Opens(rows[i][f], Aad(f, i))]
StoredCells == [i \in DOMAIN rows |-> [f \in EncryptedFields |-> Stored(i, f)]]
Abstract == INSTANCE EncryptedStore WITH
  Ids        <- Ids,
  NewVersion <- To,
  cells      <- StoredCells
Implements == Abstract!Spec

=============================================================================
