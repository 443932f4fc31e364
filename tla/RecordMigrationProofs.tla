------------------------ MODULE RecordMigrationProofs ------------------------
(***************************************************************************)
(* Proofs about RecordMigration, for every set of fields, every number of  *)
(* rows, every batch size and every number of faults.                      *)
(*                                                                         *)
(* Inv is inductive.  It says that a value is what its writer made of the  *)
(* cell it is in (Honest), and how a value may have changed since it was   *)
(* read into a batch (BatchKept), so that what the loop computes from a    *)
(* batch is right for the table it is written to later.  Progress adds     *)
(* where the values stand that were there when the rotation was created:   *)
(* behind the checkpoint, behind the loop, or ahead of it.                 *)
(***************************************************************************)
EXTENDS RecordMigration, TLAPS, FiniteSetTheorems, WellFoundedInduction

\* Every envelope is one of its cell, with the writer's AAD.
Honest(part) ==
  \A i \in DOMAIN part : \A f \in EncryptedFields :
    part[i][f].ver # 0 =>
      part[i][f] = Encrypt(part[i][f].ver, <<f, i>>, AppAad(f, i))

\* A seeded row has a value from the beginning.
Filled == target = "seeded" =>
            \A i \in DOMAIN rows : \A f \in EncryptedFields : rows[i][f].ver # 0
Numbered == \A i \in DOMAIN rows : i < nextId

\* How the value of a cell may have changed since it was read.
Since(old, new) ==
  IF old = Null THEN new = Null \/ new.ver # 0
  ELSE /\ new.plain = old.plain /\ new.aad = old.aad
       /\ \/ new.ver = old.ver
          \/ old.ver # 0 /\ new.ver = To

\* Rows may have come, and none has gone.
Later(old, new) ==
  \A i \in DOMAIN old :
    /\ i \in DOMAIN new
    /\ \A f \in EncryptedFields : Since(old[i][f], new[i][f])

\* A reset may have dropped rows that are in the batch still.
Forgotten == target = "seeded" /\ present = {}
Resting == run.pc # "records" => run = Between(run.pc, run.at)
BatchKept == Forgotten \/ Later(run.batch, rows)
TxMigrates == \A i \in run.tx : i \in DOMAIN run.batch /\ Migrates(i)

Inv ==
  /\ TypeOK
  /\ Honest(rows)
  /\ Filled
  /\ Numbered
  /\ Resting
  /\ Honest(run.batch)
  /\ BatchKept
  /\ TxMigrates

-----------------------------------------------------------------------------
(* Types, and values over time.                                            *)

LEMMA TargetStays ==
  ASSUME [Next]_vars
  PROVE  /\ target' = target
         /\ EncryptedFields' = EncryptedFields
         /\ InMemory' = InMemory
         /\ Rows' = Rows
         /\ \A f, i : AppAad(f, i)' = AppAad(f, i)
<1>1. target' = target
  BY DEF Next, vars, Outside, Work, End, Insert, Store, Reset, CreateRotation,
         Start, Fetch, FetchNone, MigrateRecord, Skip, UpdateTable, UpdateMemory,
         RecordFails, UpdateFails, Commit, RollBack, Interrupt, Activate, Quiet
<1>2. EncryptedFields' = EncryptedFields /\ InMemory' = InMemory
  BY <1>1 DEF EncryptedFields, InMemory
<1>3. Rows' = Rows
  BY <1>2 DEF Rows, Values, Places
<1> QED
  BY <1>1, <1>2, <1>3 DEF AppAad, Aad

LEMMA NullValue == Null \in Values
BY DEF Null, Values, NoAad

LEMMA BetweenType ==
  ASSUME NEW pc \in PCs, NEW at \in Checkpoints
  PROVE  /\ Between(pc, at).batch = NoRows
         /\ AreRows(NoRows)
         /\ Between(pc, at) \in Frames({NoRows})
BY DEF Between, AreRows, NoRows, Frames

LEMMA EncryptType ==
  ASSUME NEW v \in {0, From, To}, NEW f \in EncryptedFields, NEW i \in Ids
  PROVE  /\ Encrypt(v, <<f, i>>, AppAad(f, i)) \in Values
         /\ Encrypt(v, <<f, i>>, Aad(f, i)) \in Values
BY DEF Encrypt, Values, Places, AppAad, Aad, NoAad

LEMMA InitInv == Init => Inv
<1> SUFFICES ASSUME Init PROVE Inv
  OBVIOUS
<1>1. NoCheckpoint \in Checkpoints
  BY BoundsAssumption DEF NoCheckpoint, Checkpoints
<1>2. /\ run = Between("none", NoCheckpoint) /\ run.batch = NoRows
      /\ AreRows(run.batch) /\ run \in Frames({run.batch})
  BY <1>1, BetweenType DEF Init, PCs
<1>3. AreRows(rows) /\ Honest(rows) /\ Filled /\ Numbered
  <2>1. CASE InMemory
    BY <2>1 DEF Init, InMemory, AreRows, NoRows, Honest, Filled, Numbered
  <2>2. CASE ~InMemory
    <3>1. EncryptedFields = Fields /\ target = "table"
      BY <2>2 DEF EncryptedFields, InMemory
    <3>2. PICK kind \in [1..OldRows -> [Fields -> {"null", "old", "envelope"}]] :
            rows = [i \in 1..OldRows |->
                      [f \in Fields |-> OldValues(f, i)[kind[i][f]]]]
      BY <2>2 DEF Init
    <3>3. DOMAIN rows = 1..OldRows /\ 1..OldRows \subseteq Ids
      BY <3>2, BoundsAssumption DEF Ids
    <3>4. \A i \in 1..OldRows : \A f \in Fields :
            \/ rows[i][f] = Null
            \/ rows[i][f] = Old(f, i)
            \/ rows[i][f] = Encrypt(From, <<f, i>>, Aad(f, i))
      <4> SUFFICES ASSUME NEW i \in 1..OldRows, NEW f \in Fields
                   PROVE  \/ rows[i][f] = Null
                          \/ rows[i][f] = Old(f, i)
                          \/ rows[i][f] = Encrypt(From, <<f, i>>, Aad(f, i))
        OBVIOUS
      <4>1. kind[i][f] \in {"null", "old", "envelope"}
        OBVIOUS
      <4> QED
        BY <3>2, <4>1 DEF OldValues
    <3>5. \A i \in 1..OldRows : \A f \in Fields : rows[i][f] \in Values
      <4>1. \A i \in 1..OldRows : \A f \in Fields :
              Old(f, i) \in Values /\ Encrypt(From, <<f, i>>, Aad(f, i)) \in Values
        BY <3>1, <3>3 DEF Old, Encrypt, Aad, Values, Places, NoAad, From
      <4> QED
        BY <3>4, <4>1, NullValue
    <3>6. rows \in [DOMAIN rows -> Rows]
      BY <3>1, <3>2, <3>3, <3>5 DEF Rows
    <3>7. Honest(rows)
      <4> SUFFICES ASSUME NEW i \in 1..OldRows, NEW f \in Fields,
                          rows[i][f].ver # 0
                   PROVE  rows[i][f] = Encrypt(rows[i][f].ver, <<f, i>>, AppAad(f, i))
        BY <3>1, <3>3 DEF Honest
      <4>0. Null.ver = 0 /\ Old(f, i).ver = 0
        BY DEF Null, Old
      <4>1. rows[i][f] = Encrypt(From, <<f, i>>, Aad(f, i))
        BY <3>4, <4>0
      <4> QED
        BY <3>1, <4>1 DEF Encrypt, AppAad
    <3>8. Numbered
      BY <2>2, <3>3, BoundsAssumption DEF Init, Numbered
    <3> QED
      BY <3>1, <3>3, <3>6, <3>7, <3>8 DEF AreRows, Filled
  <2> QED
    BY <2>1, <2>2
<1>4. TypeOK
  BY <1>1, <1>2, <1>3, BoundsAssumption DEF Init, TypeOK, From, To, Cells
<1> QED
  BY <1>2, <1>3, <1>4
     DEF Inv, Init, Resting, BatchKept, Later, TxMigrates, Honest, NoRows, Between


LEMMA SinceItself ==
  ASSUME NEW a \in Values
  PROVE  Since(a, a)
BY DEF Since

LEMMA SinceSince ==
  ASSUME NEW a \in Values, NEW b \in Values, NEW c \in Values,
         Since(a, b), Since(b, c)
  PROVE  Since(a, c)
<1>1. CASE b = Null
  <2>1. a = Null
    BY <1>1 DEF Since, Null, Values, To
  <2> QED
    BY <1>1, <2>1 DEF Since
<1>2. CASE b # Null
  BY <1>2 DEF Since, To, From, Values
<1> QED
  BY <1>1, <1>2

LEMMA CellType ==
  ASSUME NEW part, AreRows(part), NEW i \in DOMAIN part, NEW f \in EncryptedFields
  PROVE  i \in Ids /\ part[i] \in Rows /\ part[i][f] \in Values
BY DEF AreRows, Rows

LEMMA LaterLater ==
  ASSUME NEW p, NEW q, NEW r, AreRows(p), AreRows(q), AreRows(r),
         Later(p, q), Later(q, r)
  PROVE  Later(p, r)
BY SinceSince, CellType DEF Later

LEMMA LaterItself ==
  ASSUME NEW p, AreRows(p)
  PROVE  Later(p, p)
BY SinceItself, CellType DEF Later

\* What the rotation writes in place of a value that was due.
LEMMA AadNotEmpty == \A f, i : Aad(f, i) # NoAad
BY DEF Aad, NoAad

LEMMA Rewraps ==
  ASSUME Inv, NEW i \in DOMAIN run.batch, Migrates(i), NEW f \in Due(i)
  PROVE  /\ target # "seeded"
         /\ i \in DOMAIN rows
         /\ Rewrapped(i, f) = Encrypt(To, <<f, i>>, AppAad(f, i))
         /\ Rewrapped(i, f) \in Values
         /\ rows[i][f].plain = <<f, i>>
         /\ Opens(rows[i][f], Aad(f, i))
         /\ Since(rows[i][f], Rewrapped(i, f))
<1>1. f \in EncryptedFields /\ run.batch[i][f] # Null
  BY DEF Due
<1>2. run.batch[i][f].ver # 0 /\ run.batch[i][f].aad = Aad(f, i)
  BY DEF Migrates, Opens
<1>3. run.batch[i][f] = Encrypt(run.batch[i][f].ver, <<f, i>>, AppAad(f, i))
  BY <1>1, <1>2 DEF Inv, Honest
<1>4. /\ run.batch[i][f].plain = <<f, i>>
      /\ run.batch[i][f].aad = AppAad(f, i)
  BY <1>3 DEF Encrypt
<1>5. target # "seeded"
  BY <1>2, <1>4, AadNotEmpty DEF AppAad
<1>6. i \in DOMAIN rows /\ Since(run.batch[i][f], rows[i][f])
  BY <1>1, <1>5 DEF Inv, BatchKept, Forgotten, Later
<1>7. i \in Ids /\ rows[i][f] \in Values
  BY <1>1, <1>6, CellType DEF Inv, TypeOK
<1>8. Rewrapped(i, f) = Encrypt(To, <<f, i>>, AppAad(f, i))
  BY <1>2, <1>4 DEF Rewrapped
<1>9. Rewrapped(i, f) \in Values
  BY <1>1, <1>7, <1>8, EncryptType
<1>10. /\ rows[i][f].plain = <<f, i>>
       /\ rows[i][f].aad = Aad(f, i)
       /\ rows[i][f].ver # 0
  BY <1>1, <1>2, <1>4, <1>6 DEF Since, To
<1>11. Since(rows[i][f], Rewrapped(i, f))
  <2>1. /\ Rewrapped(i, f).ver = To
        /\ Rewrapped(i, f).plain = <<f, i>>
        /\ Rewrapped(i, f).aad = AppAad(f, i)
    BY <1>8 DEF Encrypt
  <2>2. rows[i][f] # Null
    BY <1>10 DEF Null
  <2> QED
    BY <1>2, <1>4, <1>10, <2>1, <2>2 DEF Since
<1> QED
  BY <1>5, <1>6, <1>8, <1>9, <1>10, <1>11 DEF Opens


\* A row in which they have been replaced.
LEMMA UpdatedRow ==
  ASSUME Inv, NEW i \in DOMAIN run.batch \cap DOMAIN rows, Migrates(i)
  PROVE  /\ Updated(rows[i], i) \in Rows
         /\ \A f \in EncryptedFields :
              /\ Updated(rows[i], i)[f] =
                   IF f \in Due(i) THEN Rewrapped(i, f) ELSE rows[i][f]
              /\ Since(rows[i][f], Updated(rows[i], i)[f])
              /\ Updated(rows[i], i)[f].ver # 0 =>
                   Updated(rows[i], i)[f] =
                     Encrypt(Updated(rows[i], i)[f].ver, <<f, i>>, AppAad(f, i))
<1>1. \A f \in EncryptedFields : rows[i][f] \in Values
  BY CellType DEF Inv, TypeOK
<1>2. \A f \in EncryptedFields :
        Updated(rows[i], i)[f] = IF f \in Due(i) THEN Rewrapped(i, f) ELSE rows[i][f]
  BY DEF Updated
<1>3. \A f \in EncryptedFields : Updated(rows[i], i)[f] \in Values
  BY <1>1, <1>2, Rewraps
<1>4. Updated(rows[i], i) \in Rows
  BY <1>3 DEF Updated, Rows
<1>5. \A f \in EncryptedFields : Since(rows[i][f], Updated(rows[i], i)[f])
  BY <1>1, <1>2, Rewraps, SinceItself
<1>6. ASSUME NEW f \in EncryptedFields, Updated(rows[i], i)[f].ver # 0
      PROVE  Updated(rows[i], i)[f] =
               Encrypt(Updated(rows[i], i)[f].ver, <<f, i>>, AppAad(f, i))
  <2>1. CASE f \in Due(i)
    <3>1. Updated(rows[i], i)[f] = Encrypt(To, <<f, i>>, AppAad(f, i))
      BY <1>2, <2>1, Rewraps
    <3> QED
      BY <3>1 DEF Encrypt
  <2>2. CASE f \notin Due(i)
    BY <1>2, <1>6, <2>2 DEF Inv, Honest
  <2> QED
    BY <2>1, <2>2
<1> QED
  BY <1>2, <1>4, <1>5, <1>6

\* A record in memory has one field: if it is due, all of it is replaced.
LEMMA UpdatedRecord ==
  ASSUME Inv, InMemory, NEW i \in DOMAIN run.batch, Migrates(i), Due(i) # {}
  PROVE  /\ i \in DOMAIN rows
         /\ Updated(run.batch[i], i) = Updated(rows[i], i)
<1>1. Due(i) = EncryptedFields
  BY DEF Due, EncryptedFields
<1> QED
  BY <1>1, Rewraps DEF Updated

-----------------------------------------------------------------------------
(* What a step may do to the rows.                                         *)

\* One that is no Reset lets rows come and values change as Since allows.
RowsGrow ==
  /\ AreRows(rows')
  /\ Honest(rows)'
  /\ Filled'
  /\ Numbered'
  /\ nextId' \in 1..MaxId + 1
  /\ Later(rows, rows')

LEMMA SameRows ==
  ASSUME Inv, [Next]_vars, UNCHANGED <<rows, nextId>>
  PROVE  RowsGrow
BY TargetStays, LaterItself
   DEF Inv, TypeOK, RowsGrow, Honest, Filled, Numbered

LEMMA InsertRows ==
  ASSUME Inv, [Next]_vars, Insert
  PROVE  RowsGrow
<1>1. nextId \in Ids /\ nextId' = nextId + 1 /\ nextId \notin DOMAIN rows
  BY DEF Insert, Inv, TypeOK, Numbered
<1>2. PICK v \in SeedVersions :
        rows' = [i \in DOMAIN rows \cup {nextId} |->
                  IF i # nextId THEN rows[i]
                  ELSE [f \in EncryptedFields |->
                          IF v = 0 THEN Null ELSE Encrypt(v, <<f, i>>, AppAad(f, i))]]
  BY DEF Insert
<1>3. v \in {0, From, To} /\ (target = "seeded" => v # 0)
  BY DEF SeedVersions, Inv, TypeOK, From, To
<1>4. /\ DOMAIN rows' = DOMAIN rows \cup {nextId}
      /\ \A i \in DOMAIN rows : rows'[i] = rows[i]
      /\ rows'[nextId] = [f \in EncryptedFields |->
             IF v = 0 THEN Null ELSE Encrypt(v, <<f, nextId>>, AppAad(f, nextId))]
  BY <1>1, <1>2
<1>5. rows'[nextId] \in Rows
  BY <1>1, <1>3, <1>4, EncryptType, NullValue DEF Rows
<1>6. AreRows(rows')
  <2>1. AreRows(rows)
    BY DEF Inv, TypeOK
  <2>2. \A i \in DOMAIN rows' : i \in Ids /\ rows'[i] \in Rows
    BY <1>1, <1>4, <1>5, <2>1 DEF AreRows
  <2> QED
    BY <1>2, <2>2, TargetStays DEF AreRows
<1>7. ASSUME NEW i \in DOMAIN rows', NEW f \in EncryptedFields
      PROVE  /\ rows'[i][f].ver # 0 =>
                  rows'[i][f] = Encrypt(rows'[i][f].ver, <<f, i>>, AppAad(f, i))
             /\ target = "seeded" => rows'[i][f].ver # 0
  <2>1. CASE i \in DOMAIN rows
    BY <1>4, <2>1 DEF Inv, Honest, Filled
  <2>2. CASE i = nextId /\ v = 0
    BY <1>3, <1>4, <2>2 DEF Null
  <2>3. CASE i = nextId /\ v # 0
    <3>1. rows'[i][f] = Encrypt(v, <<f, i>>, AppAad(f, i))
      BY <1>4, <2>3
    <3> QED
      BY <2>3, <3>1 DEF Encrypt
  <2> QED
    BY <1>4, <2>1, <2>2, <2>3
<1>8. Honest(rows)' /\ Filled'
  BY <1>7, TargetStays DEF Honest, Filled
<1>9. Numbered' /\ nextId' \in 1..MaxId + 1
  BY <1>1, <1>4, BoundsAssumption DEF Inv, TypeOK, Numbered, AreRows, Ids
<1>10. Later(rows, rows')
  BY <1>4, SinceItself, CellType DEF Later, Inv, TypeOK
<1> QED
  BY <1>6, <1>8, <1>9, <1>10 DEF RowsGrow


\* It fills an empty field, and a seeded row has none.
LEMMA StoreRows ==
  ASSUME Inv, [Next]_vars, NEW i \in DOMAIN rows, NEW f \in EncryptedFields, Store(f, i)
  PROVE  RowsGrow
<1>1. rows[i][f] = Null /\ nextId' = nextId
  BY DEF Store
<1>2. PICK v \in From..active :
        rows' = [rows EXCEPT ![i] =
                  [rows[i] EXCEPT ![f] = Encrypt(v, <<f, i>>, AppAad(f, i))]]
  BY DEF Store
<1>3. v \in {From, To} /\ v # 0
  BY DEF Inv, TypeOK, From, To
<1>4. i \in Ids /\ rows[i] \in Rows /\ AreRows(rows)
  BY DEF Inv, TypeOK, AreRows
<1>5. /\ DOMAIN rows' = DOMAIN rows
      /\ \A j \in DOMAIN rows : j # i => rows'[j] = rows[j]
      /\ rows'[i] = [rows[i] EXCEPT ![f] = Encrypt(v, <<f, i>>, AppAad(f, i))]
  BY <1>2
<1>6. /\ rows'[i][f] = Encrypt(v, <<f, i>>, AppAad(f, i))
      /\ \A g \in EncryptedFields : g # f => rows'[i][g] = rows[i][g]
  BY <1>4, <1>5 DEF Rows
<1>7. rows'[i][f] \in Values /\ rows'[i][f].ver = v
  <2>1. Encrypt(v, <<f, i>>, AppAad(f, i)) \in Values
    BY <1>3, <1>4, EncryptType
  <2>2. Encrypt(v, <<f, i>>, AppAad(f, i)).ver = v
    BY DEF Encrypt
  <2> QED
    BY <1>6, <2>1, <2>2
<1>8. AreRows(rows')
  <2>1. rows'[i] \in Rows
    BY <1>4, <1>5, <1>6, <1>7 DEF Rows
  <2> QED
    BY <1>2, <1>4, <1>5, <2>1, TargetStays DEF AreRows
<1>9. ASSUME NEW j \in DOMAIN rows, NEW g \in EncryptedFields
      PROVE  /\ Since(rows[j][g], rows'[j][g])
             /\ rows'[j][g].ver # 0 =>
                  rows'[j][g] = Encrypt(rows'[j][g].ver, <<g, j>>, AppAad(g, j))
  <2>1. CASE j = i /\ g = f
    BY <1>1, <1>3, <1>6, <1>7, <2>1 DEF Since
  <2>2. CASE j # i \/ g # f
    <3>1. rows'[j][g] = rows[j][g]
      BY <1>5, <1>6, <2>2
    <3> QED
      BY <1>4, <3>1, SinceItself, CellType DEF Inv, Honest
  <2> QED
    BY <2>1, <2>2
<1>10. Later(rows, rows')
  BY <1>5, <1>9 DEF Later
<1>11. Honest(rows)'
  BY <1>5, <1>9, TargetStays DEF Honest
<1>12. Filled'
  BY <1>5, <1>10, TargetStays DEF Inv, Filled, Later, Since, Null, To
<1>13. Numbered' /\ nextId' \in 1..MaxId + 1
  BY <1>1, <1>5 DEF Inv, TypeOK, Numbered
<1> QED
  BY <1>8, <1>10, <1>11, <1>12, <1>13 DEF RowsGrow

LEMMA CommitRows ==
  ASSUME Inv, [Next]_vars, Commit
  PROVE  RowsGrow
<1>1. /\ nextId' = nextId
      /\ rows' = [i \in DOMAIN rows |->
                    IF i \in run.tx THEN Updated(rows[i], i) ELSE rows[i]]
  BY DEF Commit
<1>2. DOMAIN rows' = DOMAIN rows
  BY <1>1
<1>3. ASSUME NEW i \in DOMAIN rows
      PROVE  /\ i \in Ids /\ rows'[i] \in Rows
             /\ \A f \in EncryptedFields :
                  /\ Since(rows[i][f], rows'[i][f])
                  /\ rows'[i][f].ver # 0 =>
                       rows'[i][f] = Encrypt(rows'[i][f].ver, <<f, i>>, AppAad(f, i))
  <2>1. i \in Ids /\ rows[i] \in Rows
    BY DEF Inv, TypeOK, AreRows
  <2>2. CASE i \in run.tx
    <3>1. i \in DOMAIN run.batch /\ Migrates(i)
      BY <2>2 DEF Inv, TxMigrates
    <3>2. rows'[i] = Updated(rows[i], i)
      BY <1>1, <2>2
    <3> QED
      BY <2>1, <3>1, <3>2, UpdatedRow
  <2>3. CASE i \notin run.tx
    <3>1. rows'[i] = rows[i]
      BY <1>1, <2>3
    <3> QED
      BY <2>1, <3>1, SinceItself, CellType DEF Inv, TypeOK, Honest
  <2> QED
    BY <2>2, <2>3
<1>4. AreRows(rows')
  BY <1>1, <1>2, <1>3, TargetStays DEF AreRows
<1>5. Later(rows, rows')
  BY <1>2, <1>3 DEF Later
<1>6. Honest(rows)'
  BY <1>2, <1>3, TargetStays DEF Honest
<1>7. Filled'
  BY <1>2, <1>5, TargetStays DEF Inv, Filled, Later, Since, Null, To
<1>8. Numbered' /\ nextId' \in 1..MaxId + 1
  BY <1>1, <1>2 DEF Inv, TypeOK, Numbered
<1> QED
  BY <1>4, <1>5, <1>6, <1>7, <1>8 DEF RowsGrow

LEMMA MemoryRows ==
  ASSUME Inv, [Next]_vars, NEW i \in DOMAIN run.batch, UpdateMemory(i)
  PROVE  RowsGrow
<1>1. InMemory /\ Migrates(i) /\ Due(i) # {} /\ nextId' = nextId
  BY DEF UpdateMemory
<1>2. i \in DOMAIN rows /\ Updated(run.batch[i], i) = Updated(rows[i], i)
  BY <1>1, UpdatedRecord
<1>3. rows' = [j \in DOMAIN rows |-> IF j = i THEN Updated(rows[i], i) ELSE rows[j]]
  <2>1. DOMAIN rows \cup {i} = DOMAIN rows
    BY <1>2
  <2> QED
    BY <1>2, <2>1 DEF UpdateMemory
<1>4. DOMAIN rows' = DOMAIN rows
  BY <1>3
<1>5. ASSUME NEW j \in DOMAIN rows
      PROVE  /\ j \in Ids /\ rows'[j] \in Rows
             /\ \A f \in EncryptedFields :
                  /\ Since(rows[j][f], rows'[j][f])
                  /\ rows'[j][f].ver # 0 =>
                       rows'[j][f] = Encrypt(rows'[j][f].ver, <<f, j>>, AppAad(f, j))
  <2>1. j \in Ids /\ rows[j] \in Rows
    BY DEF Inv, TypeOK, AreRows
  <2>2. CASE j = i
    BY <1>1, <1>2, <1>3, <2>1, <2>2, UpdatedRow
  <2>3. CASE j # i
    <3>1. rows'[j] = rows[j]
      BY <1>3, <2>3
    <3> QED
      BY <2>1, <3>1, SinceItself, CellType DEF Inv, TypeOK, Honest
  <2> QED
    BY <2>2, <2>3
<1>6. AreRows(rows')
  BY <1>3, <1>4, <1>5, TargetStays DEF AreRows
<1>7. Later(rows, rows')
  BY <1>4, <1>5 DEF Later
<1>8. Honest(rows)'
  BY <1>4, <1>5, TargetStays DEF Honest
<1>9. Filled'
  BY <1>4, <1>7, TargetStays DEF Inv, Filled, Later, Since, Null, To
<1>10. Numbered' /\ nextId' \in 1..MaxId + 1
  BY <1>1, <1>4 DEF Inv, TypeOK, Numbered
<1> QED
  BY <1>6, <1>7, <1>8, <1>9, <1>10 DEF RowsGrow


-----------------------------------------------------------------------------
(* What a step may do to the frame.                                        *)

FrameInv == /\ AreRows(run.batch)
            /\ run \in Frames({run.batch})
            /\ Resting
            /\ Honest(run.batch)
            /\ BatchKept
            /\ TxMigrates

\* It goes on to where it has no batch, ...
LEMMA FrameBetween ==
  ASSUME Inv, [Next]_vars, NEW pc \in PCs, NEW at \in Checkpoints,
         run' = Between(pc, at)
  PROVE  FrameInv'
<1>1. /\ run'.batch = NoRows /\ run'.tx = {} /\ DOMAIN NoRows = {}
      /\ run'.pc = pc /\ run'.at = at
  BY DEF Between, NoRows
<1>2. AreRows(run'.batch) /\ run' \in Frames({run'.batch})
  BY <1>1, BetweenType
<1>3. AreRows(run.batch)' /\ (run \in Frames({run.batch}))'
  BY <1>2, TargetStays DEF AreRows, Frames, Checkpoints
<1> QED
  BY <1>1, <1>3 DEF FrameInv, Resting, Honest, BatchKept, Later, TxMigrates

\* ... or it stays with its batch.
LEMMA FrameKept ==
  ASSUME Inv, [Next]_vars, Later(rows, rows'), AreRows(rows'),
         Forgotten => Forgotten',
         run'.batch = run.batch, AreRows(run.batch),
         run' \in Frames({run.batch}),
         run'.pc # "records" => run' = Between(run'.pc, run'.at),
         \A i \in run'.tx : i \in DOMAIN run.batch /\ Migrates(i)
  PROVE  FrameInv'
<1>1. AreRows(run.batch)' /\ (run \in Frames({run.batch}))'
  BY TargetStays DEF AreRows, Frames, Checkpoints
<1>2. Resting'
  BY DEF Resting, Between
<1>3. Honest(run.batch)'
  BY TargetStays DEF Inv, Honest
<1>4. BatchKept'
  <2>1. CASE Forgotten
    BY <2>1 DEF BatchKept
  <2>2. CASE Later(run.batch, rows)
    <3>1. Later(run.batch, rows')
      BY <2>2, LaterLater DEF Inv, TypeOK
    <3> QED
      BY <3>1, TargetStays DEF BatchKept, Later
  <2> QED
    BY <2>1, <2>2 DEF Inv, BatchKept
<1>5. TxMigrates'
  <2>1. \A i : Due(i)' = Due(i)
    BY TargetStays DEF Due
  <2>2. \A i : Migrates(i)' = Migrates(i)
    BY <2>1 DEF Migrates, Opens, Aad
  <2> QED
    BY <2>2 DEF TxMigrates
<1> QED
  BY <1>1, <1>2, <1>3, <1>4, <1>5 DEF FrameInv


-----------------------------------------------------------------------------
(* The invariant.                                                          *)

LEMMA RestTypes ==
  ASSUME Inv, [Next]_vars, RowsGrow, FrameInv',
         active' \in {From, To}, ckpt' \in Checkpoints, faults' \in 0..MaxFaults,
         present' \subseteq Cells'
  PROVE  Inv'
BY TargetStays DEF Inv, TypeOK, RowsGrow, FrameInv, AreRows, Checkpoints

LEMMA CellsGrow ==
  ASSUME Inv, [Next]_vars, RowsGrow
  PROVE  Cells \subseteq Cells'
BY TargetStays DEF RowsGrow, Later, Cells

LEMMA ResetInv ==
  ASSUME Inv, [Next]_vars, Reset
  PROVE  Inv'
<1>1. rows' = NoRows /\ DOMAIN rows' = {} /\ nextId' = 1
  BY DEF Reset, NoRows
<1>2. AreRows(rows)'
  BY <1>1, TargetStays DEF AreRows, NoRows
<1>3. Forgotten'
  BY DEF Reset, Forgotten
<1>4. AreRows(run.batch)' /\ (run \in Frames({run.batch}))'
  BY TargetStays DEF Reset, Inv, TypeOK, AreRows, Frames, Checkpoints
<1>5. Resting'
  BY DEF Reset, Inv, Resting, Between
<1>6. Honest(run.batch)' /\ Honest(rows)' /\ Filled' /\ Numbered'
  BY <1>1, TargetStays DEF Reset, Inv, Honest, Filled, Numbered
<1>7. TxMigrates'
  <2>1. \A i : Migrates(i)' = Migrates(i)
    BY TargetStays DEF Reset, Migrates, Due, Opens, Aad
  <2> QED
    BY <2>1 DEF Reset, Inv, TxMigrates
<1>8. TypeOK'
  BY <1>1, <1>2, <1>4, BoundsAssumption
     DEF Reset, Inv, TypeOK, Checkpoints
<1> QED
  BY <1>3, <1>5, <1>6, <1>7, <1>8 DEF Inv, BatchKept

LEMMA OutsideInv ==
  ASSUME Inv, [Next]_vars, Outside
  PROVE  Inv'
<1>1. ASSUME UNCHANGED <<run, active, ckpt, faults, present>>, RowsGrow
      PROVE  Inv'
  <2>1. FrameInv'
    BY <1>1, FrameKept, TargetStays
       DEF Inv, TypeOK, RowsGrow, Forgotten, Resting, TxMigrates
  <2>2. present' \subseteq Cells'
    BY <1>1, CellsGrow DEF Inv, TypeOK
  <2> QED
    BY <1>1, <2>1, <2>2, RestTypes DEF Inv, TypeOK
<1>2. CASE Insert
  BY <1>1, <1>2, InsertRows DEF Insert
<1>3. ASSUME NEW i \in DOMAIN rows, NEW f \in EncryptedFields, Store(f, i)
      PROVE  Inv'
  BY <1>1, <1>3, StoreRows DEF Store
<1>4. CASE Reset
  BY <1>4, ResetInv
<1>5. CASE CreateRotation
  <2>1. RowsGrow
    BY <1>5, SameRows DEF CreateRotation
  <2>2. run' = Between("queued", NoCheckpoint) /\ NoCheckpoint \in Checkpoints
    BY <1>5, BoundsAssumption DEF CreateRotation, NoCheckpoint, Checkpoints
  <2>3. FrameInv'
    BY <2>2, FrameBetween DEF PCs
  <2>4. present' \subseteq Cells'
    BY <1>5, <2>1, CellsGrow DEF CreateRotation
  <2> QED
    BY <1>5, <2>1, <2>3, <2>4, RestTypes DEF CreateRotation, Inv, TypeOK
<1> QED
  BY <1>2, <1>3, <1>4, <1>5 DEF Outside

LEMMA NextIdsType ==
  ASSUME Inv
  PROVE  NextIds \subseteq DOMAIN rows /\ NextIds \subseteq Ids
BY DEF NextIds, Behind, Inv, TypeOK, AreRows

LEMMA FrameType ==
  ASSUME Inv
  PROVE  /\ run.pc \in PCs
         /\ run.at \in Checkpoints
         /\ run.at.last \in 0..MaxId
         /\ run.at.done \in Nat
         /\ run.at.failed \in Nat
         /\ run.tx \subseteq Ids
         /\ run.aborted \in BOOLEAN
BY DEF Inv, TypeOK, Frames, Checkpoints


LEMMA CountedType ==
  ASSUME Inv, NEW i \in Ids
  PROVE  Passed(i) \in Checkpoints /\ Failed(i) \in Checkpoints
<1>1. /\ run.at \in [last : 0..MaxId, done : Nat, failed : Nat]
      /\ i \in 0..MaxId /\ run.at.done + 1 \in Nat /\ run.at.failed + 1 \in Nat
  BY FrameType, BoundsAssumption DEF Checkpoints, Ids
<1> QED
  BY <1>1 DEF Passed, Failed, Checkpoints

\* An attempt begins, looks for the next batch, or ends.
LEMMA TurnInv ==
  ASSUME Inv, [Next]_vars, NEW pc \in PCs, NEW at \in Checkpoints,
         run' = Between(pc, at), RowsGrow, UNCHANGED present,
         active' \in {From, To}, ckpt' \in Checkpoints, faults' \in 0..MaxFaults
  PROVE  Inv'
<1>1. FrameInv'
  BY FrameBetween
<1>2. present' \subseteq Cells'
  BY CellsGrow DEF Inv, TypeOK
<1> QED
  BY <1>1, <1>2, RestTypes

LEMMA FaultType ==
  ASSUME Inv, Fault \/ UNCHANGED faults
  PROVE  faults' \in 0..MaxFaults
BY BoundsAssumption DEF Fault, Inv, TypeOK

LEMMA FetchInv ==
  ASSUME Inv, [Next]_vars, Fetch
  PROVE  Inv'
<1> DEFINE batch == [i \in NextIds |-> rows[i]]
<1>1. run' = [Between("records", run.at) EXCEPT !.batch = batch]
  BY DEF Fetch
<1>2. /\ run'.batch = batch /\ run'.tx = {} /\ run'.pc = "records"
      /\ run' \in Frames({batch})
  BY <1>1, FrameType DEF Between, Frames, PCs
<1>3. RowsGrow
  BY SameRows DEF Fetch
<1>4. DOMAIN batch = NextIds /\ \A i \in NextIds : batch[i] = rows[i]
  OBVIOUS
<1>5. AreRows(batch)
  BY <1>4, NextIdsType DEF AreRows, Inv, TypeOK
<1>6. Later(batch, rows)
  BY <1>4, NextIdsType, SinceItself, CellType DEF Later, Inv, TypeOK
<1>7. FrameInv'
  <2>1. AreRows(run.batch)' /\ (run \in Frames({run.batch}))'
    BY <1>2, <1>5, TargetStays DEF AreRows, Frames, Checkpoints
  <2>2. Honest(run.batch)'
    BY <1>2, <1>4, NextIdsType, TargetStays DEF Inv, Honest
  <2>3. BatchKept'
    BY <1>2, <1>6, TargetStays DEF Fetch, BatchKept, Later
  <2> QED
    BY <1>2, <2>1, <2>2, <2>3 DEF FrameInv, Resting, TxMigrates
<1>8. present' \subseteq Cells'
  BY <1>3, CellsGrow DEF Fetch, Inv, TypeOK
<1> QED
  BY <1>3, <1>7, <1>8, RestTypes DEF Fetch, Inv, TypeOK

LEMMA RecordRows ==
  ASSUME Inv, [Next]_vars, MigrateRecord
  PROVE  RowsGrow
<1>1. PICK i \in Ids :
        /\ IsNext(i)
        /\ \/ Skip(i) \/ UpdateTable(i) \/ UpdateMemory(i)
           \/ RecordFails(i) \/ UpdateFails(i)
  BY DEF MigrateRecord
<1>2. i \in DOMAIN run.batch
  BY <1>1 DEF IsNext, Left
<1>3. CASE UpdateMemory(i)
  BY <1>2, <1>3, MemoryRows
<1>4. CASE ~UpdateMemory(i)
  BY <1>1, <1>4, SameRows DEF Skip, UpdateTable, RecordFails, UpdateFails
<1> QED
  BY <1>3, <1>4

LEMMA RecordInv ==
  ASSUME Inv, [Next]_vars, MigrateRecord
  PROVE  Inv'
<1>1. PICK i \in Ids :
        /\ run.pc = "records"
        /\ IsNext(i)
        /\ \/ Skip(i) \/ UpdateTable(i) \/ UpdateMemory(i)
           \/ RecordFails(i) \/ UpdateFails(i)
  BY DEF MigrateRecord
<1>2. i \in DOMAIN run.batch
  BY <1>1 DEF IsNext, Left
<1>3. Passed(i) \in Checkpoints /\ Failed(i) \in Checkpoints
  BY CountedType
<1>4. /\ run' \in Frames({run.batch}) /\ run'.batch = run.batch
      /\ run'.pc = "records"
      /\ run'.tx \subseteq run.tx \cup {i}
      /\ i \in run'.tx => i \in run.tx \/ Migrates(i)
  <2>1. run \in Frames({run.batch})
    BY DEF Inv, TypeOK
  <2>2. CASE Skip(i) \/ UpdateMemory(i) \/ RecordFails(i)
    <3>1. PICK at \in Checkpoints : run' = [run EXCEPT !.at = at]
      BY <1>3, <2>2 DEF Skip, UpdateMemory, RecordFails
    <3> QED
      BY <1>1, <2>1, <3>1 DEF Frames
  <2>3. CASE UpdateTable(i)
    BY <1>1, <1>3, <2>1, <2>3 DEF UpdateTable, Frames
  <2>4. CASE UpdateFails(i)
    BY <1>1, <1>3, <2>1, <2>4 DEF UpdateFails, Frames
  <2> QED
    BY <1>1, <2>2, <2>3, <2>4
<1>5. /\ UNCHANGED <<target, active, ckpt, present>>
      /\ faults' \in 0..MaxFaults
  BY <1>1, FaultType
     DEF Skip, UpdateTable, UpdateMemory, RecordFails, UpdateFails
<1>6. RowsGrow
  BY RecordRows
<1>7. FrameInv'
  BY <1>2, <1>4, <1>5, <1>6, FrameKept
     DEF RowsGrow, Forgotten, Inv, TypeOK, TxMigrates
<1>8. present' \subseteq Cells'
  BY <1>5, <1>6, CellsGrow DEF Inv, TypeOK
<1> QED
  BY <1>5, <1>6, <1>7, <1>8, RestTypes DEF Inv, TypeOK

LEMMA NextInv ==
  ASSUME Inv, [Next]_vars
  PROVE  Inv'
<1>1. CASE Outside
  BY <1>1, OutsideInv
<1>2. CASE Fetch
  BY <1>2, FetchInv
<1>3. CASE MigrateRecord
  BY <1>3, RecordInv
<1>4. CASE Start
  BY <1>4, TurnInv, SameRows DEF Start, Inv, TypeOK, PCs
<1>5. CASE FetchNone
  BY <1>5, TurnInv, SameRows, FrameType DEF FetchNone, Inv, TypeOK, PCs
<1>6. CASE Commit
  BY <1>6, TurnInv, CommitRows, FrameType DEF Commit, Inv, TypeOK, PCs
<1>7. CASE RollBack
  BY <1>7, TurnInv, SameRows DEF RollBack, Inv, TypeOK, PCs
<1>8. CASE Interrupt
  BY <1>8, TurnInv, SameRows, FaultType DEF Interrupt, Inv, TypeOK, PCs
<1>9. CASE Activate
  BY <1>9, TurnInv, SameRows, FrameType DEF Activate, Inv, TypeOK, PCs
<1>10. CASE UNCHANGED vars
  <2>1. RowsGrow
    BY <1>10, SameRows DEF vars
  <2>2. FrameInv'
    BY <1>10, <2>1, FrameKept, TargetStays
       DEF vars, Inv, TypeOK, RowsGrow, Forgotten, Resting, TxMigrates
  <2> QED
    BY <1>10, <2>1, <2>2, CellsGrow, RestTypes DEF vars, Inv, TypeOK
<1> QED
  BY <1>1, <1>2, <1>3, <1>4, <1>5, <1>6, <1>7, <1>8, <1>9, <1>10
     DEF Next, Work, End, Quiet

LEMMA Invariance == Spec => []Inv
BY InitInv, NextInv, PTL DEF Spec

-----------------------------------------------------------------------------
(* Theorems.                                                               *)

\* Nothing is ever stored where it does not belong: in particular a counter
\* never passes the last row, and a batch holds rows of the target.
THEOREM TypeCorrect == Spec => []TypeOK
BY Invariance, PTL DEF Inv

\* Every value can be read back by its writer, with the AAD it was written with,
\* at every moment of a rotation and whatever has failed in it.
THEOREM WritersReadBack == Spec => []ReadersReadBack
<1>1. Inv => ReadersReadBack
  <2> SUFFICES ASSUME Inv, NEW f \in EncryptedFields, NEW i \in DOMAIN rows,
                      rows[i][f].ver # 0
               PROVE  Opens(rows[i][f], AppAad(f, i)) /\ rows[i][f].plain = <<f, i>>
    BY DEF ReadersReadBack, Cells, At
  <2>1. rows[i][f] = Encrypt(rows[i][f].ver, <<f, i>>, AppAad(f, i))
    BY DEF Inv, Honest
  <2> QED
    BY <2>1 DEF Encrypt, Opens
<1> QED
  BY <1>1, Invariance, PTL


-----------------------------------------------------------------------------
(* The refinement: every step is one of EncryptedStore on the cells, or    *)
(* leaves the cells alone.                                                 *)

LEMMA CellsAre ==
  /\ DOMAIN StoredCells = DOMAIN rows
  /\ \A i \in DOMAIN rows :
       /\ StoredCells[i] = [f \in EncryptedFields |-> Stored(i, f)]
       /\ DOMAIN StoredCells[i] = EncryptedFields
       /\ \A f \in EncryptedFields :
            /\ StoredCells[i][f] = Stored(i, f)
            /\ StoredCells[i][f].ver = rows[i][f].ver
            /\ StoredCells[i][f].plain = rows[i][f].plain
            /\ StoredCells[i][f].opens = Opens(rows[i][f], Aad(f, i))
BY DEF StoredCells, Stored

LEMMA CellsAreNext ==
  ASSUME [Next]_vars
  PROVE  /\ DOMAIN StoredCells' = DOMAIN rows'
         /\ \A i \in DOMAIN rows' :
              /\ StoredCells'[i] =
                   [f \in EncryptedFields |->
                     [ver   |-> rows'[i][f].ver,
                      plain |-> rows'[i][f].plain,
                      opens |-> Opens(rows'[i][f], Aad(f, i))]]
              /\ DOMAIN StoredCells'[i] = EncryptedFields
              /\ \A f \in EncryptedFields :
                   /\ StoredCells'[i][f] =
                         [ver   |-> rows'[i][f].ver,
                          plain |-> rows'[i][f].plain,
                          opens |-> Opens(rows'[i][f], Aad(f, i))]
                   /\ StoredCells'[i][f].opens = Opens(rows'[i][f], Aad(f, i))
<1>1. DOMAIN StoredCells' = DOMAIN rows'
  BY DEF StoredCells
<1>2. ASSUME NEW i \in DOMAIN rows'
      PROVE  StoredCells'[i] =
               [f \in EncryptedFields |->
                 [ver   |-> rows'[i][f].ver,
                  plain |-> rows'[i][f].plain,
                  opens |-> Opens(rows'[i][f], Aad(f, i))]]
  BY TargetStays DEF StoredCells, Stored, Opens, Aad
<1> QED
  BY <1>1, <1>2

LEMMA SameRowSameCells ==
  ASSUME [Next]_vars, NEW i \in DOMAIN rows, i \in DOMAIN rows', rows'[i] = rows[i]
  PROVE  StoredCells'[i] = StoredCells[i]
BY CellsAre, CellsAreNext DEF Stored

LEMMA SameCell ==
  ASSUME [Next]_vars, NEW i \in DOMAIN rows, i \in DOMAIN rows',
         NEW f \in EncryptedFields, rows'[i][f] = rows[i][f]
  PROVE  StoredCells'[i][f] = StoredCells[i][f]
<1>1. StoredCells[i][f] = [ver   |-> rows[i][f].ver,
                           plain |-> rows[i][f].plain,
                           opens |-> Opens(rows[i][f], Aad(f, i))]
  BY CellsAre DEF Stored
<1> QED
  BY <1>1, CellsAreNext

LEMMA OpenCell ==
  ASSUME NEW i \in DOMAIN rows, NEW f \in EncryptedFields,
         Opens(rows[i][f], Aad(f, i))
  PROVE  /\ StoredCells[i][f] = [ver   |-> rows[i][f].ver,
                                 plain |-> rows[i][f].plain,
                                 opens |-> TRUE]
         /\ StoredCells[i][f].opens
<1>1. StoredCells[i][f] = Stored(i, f)
  BY CellsAre
<1>2. Opens(rows[i][f], Aad(f, i)) = TRUE
  BY DEF Opens
<1>3. StoredCells[i][f] = [ver   |-> rows[i][f].ver,
                           plain |-> rows[i][f].plain,
                           opens |-> TRUE]
  BY <1>1, <1>2, Zenon DEF Stored
<1> QED
  BY <1>3

LEMMA MovedCell ==
  ASSUME [Next]_vars, NEW i \in DOMAIN rows, i \in DOMAIN rows',
         NEW f \in EncryptedFields,
         Opens(rows[i][f], Aad(f, i)), Opens(rows'[i][f], Aad(f, i)),
         rows'[i][f].ver = To, rows'[i][f].plain = rows[i][f].plain
  PROVE  StoredCells'[i][f] = [StoredCells[i][f] EXCEPT !.ver = To]
<1>1. StoredCells[i][f] = [ver   |-> rows[i][f].ver,
                           plain |-> rows[i][f].plain,
                           opens |-> TRUE]
  BY OpenCell
<1>2. StoredCells'[i][f] = [ver   |-> rows'[i][f].ver,
                            plain |-> rows'[i][f].plain,
                            opens |-> Opens(rows'[i][f], Aad(f, i))]
  BY CellsAreNext
<1>3. Opens(rows'[i][f], Aad(f, i)) = TRUE
  BY DEF Opens
<1>4. StoredCells'[i][f] = [ver   |-> To,
                            plain |-> rows[i][f].plain,
                            opens |-> TRUE]
  BY <1>2, <1>3, Zenon
<1>5. PICK b : /\ StoredCells[i][f] = [ver   |-> rows[i][f].ver,
                                       plain |-> rows[i][f].plain,
                                       opens |-> b]
               /\ StoredCells'[i][f] = [ver   |-> To,
                                        plain |-> rows[i][f].plain,
                                        opens |-> b]
  BY <1>1, <1>4, Zenon
<1> QED
  BY <1>5

LEMMA InitRefines == Init => Abstract!Init
<1> SUFFICES ASSUME Init PROVE Abstract!Init
  OBVIOUS
<1>1. \A i \in DOMAIN rows : \A f \in EncryptedFields : rows[i][f].ver # To
  <2>1. CASE InMemory
    BY <2>1 DEF Init, NoRows
  <2>2. CASE ~InMemory
    <3>1. PICK kind \in [1..OldRows -> [Fields -> {"null", "old", "envelope"}]] :
            rows = [i \in 1..OldRows |->
                      [f \in Fields |-> OldValues(f, i)[kind[i][f]]]]
      BY <2>2 DEF Init
    <3>2. ASSUME NEW i \in 1..OldRows, NEW f \in Fields
          PROVE  rows[i][f].ver # To
      <4>1. kind[i][f] \in {"null", "old", "envelope"}
        OBVIOUS
      <4>2. rows[i][f] \in {Null, Old(f, i), Encrypt(From, <<f, i>>, Aad(f, i))}
        BY <3>1, <4>1 DEF OldValues
      <4> QED
        BY <4>2 DEF Null, Old, Encrypt, From, To
    <3> QED
      BY <2>2, <3>1, <3>2 DEF EncryptedFields
  <2> QED
    BY <2>1, <2>2
<1> QED
  BY <1>1, CellsAre DEF Abstract!Init

LEMMA InsertRefines ==
  ASSUME Inv, [Next]_vars, Insert
  PROVE  Abstract!Insert
<1>1. /\ nextId \in Ids \ DOMAIN rows
      /\ DOMAIN rows' = DOMAIN rows \cup {nextId}
      /\ \A i \in DOMAIN rows : rows'[i] = rows[i]
  BY DEF Insert, Inv, TypeOK, Numbered
<1>2. \A i \in DOMAIN rows : StoredCells'[i] = StoredCells[i]
  BY <1>1, SameRowSameCells
<1> QED
  BY <1>1, <1>2, CellsAre, CellsAreNext DEF Abstract!Insert

LEMMA StoreRefines ==
  ASSUME Inv, [Next]_vars, NEW i \in DOMAIN rows, NEW f \in EncryptedFields, Store(f, i)
  PROVE  Abstract!Put
<1>1. rows[i][f] = Null
  BY DEF Store
<1>2. PICK v \in From..active :
        rows' = [rows EXCEPT ![i] =
                  [rows[i] EXCEPT ![f] = Encrypt(v, <<f, i>>, AppAad(f, i))]]
  BY DEF Store
<1>3. /\ DOMAIN rows' = DOMAIN rows
      /\ \A j \in DOMAIN rows : j # i => rows'[j] = rows[j]
      /\ rows'[i][f] = Encrypt(v, <<f, i>>, AppAad(f, i))
      /\ \A g \in EncryptedFields : g # f => rows'[i][g] = rows[i][g]
  BY <1>2 DEF Inv, TypeOK, AreRows, Rows
<1>4. target # "seeded" /\ v # 0
  BY <1>1 DEF Inv, Filled, Null, TypeOK, From, To
<1>5. Abstract!IsEmpty(StoredCells[i][f])
  BY <1>1, CellsAre DEF Abstract!IsEmpty, Null
<1>6. StoredCells'[i][f].opens
  <2>1. rows'[i][f].ver = v /\ rows'[i][f].aad = AppAad(f, i)
    BY <1>3 DEF Encrypt
  <2>2. Opens(rows'[i][f], Aad(f, i))
    BY <1>4, <2>1 DEF Opens, AppAad
  <2> QED
    BY <1>3, <2>2, CellsAreNext
<1>7. StoredCells' = [StoredCells EXCEPT ![i][f] = StoredCells'[i][f]]
  <2>1. \A j \in DOMAIN rows : j # i => StoredCells'[j] = StoredCells[j]
    BY <1>3, SameRowSameCells
  <2>2. \A g \in EncryptedFields : g # f => StoredCells'[i][g] = StoredCells[i][g]
    BY <1>3, SameCell
  <2>3. StoredCells'[i] = [StoredCells[i] EXCEPT ![f] = StoredCells'[i][f]]
    BY <1>3, <2>2, CellsAre, CellsAreNext
  <2>4. StoredCells' = [j \in DOMAIN rows |-> StoredCells'[j]]
    BY <1>3, TargetStays DEF StoredCells
  <2> QED
    BY <2>1, <2>3, <2>4, CellsAre
<1> QED
  BY <1>5, <1>6, <1>7, CellsAre DEF Abstract!Put


LEMMA RowMoves ==
  ASSUME Inv, NEW i \in DOMAIN run.batch \cap DOMAIN rows, Migrates(i), Due(i) # {}
  PROVE  Abstract!Whole(StoredCells[i])
<1>1. target # "seeded"
  BY Rewraps
<1> SUFFICES ASSUME NEW f \in EncryptedFields
             PROVE  StoredCells[i][f].opens \/ Abstract!IsEmpty(StoredCells[i][f])
  BY CellsAre DEF Abstract!Whole
<1>2. CASE f \in Due(i)
  BY <1>2, Rewraps, OpenCell
<1>3. CASE rows[i][f].ver # 0
  <2>1. rows[i][f] = Encrypt(rows[i][f].ver, <<f, i>>, AppAad(f, i))
    BY <1>3 DEF Inv, Honest
  <2>2. rows[i][f].aad = AppAad(f, i)
    BY <2>1 DEF Encrypt
  <2> QED
    BY <1>1, <1>3, <2>2, CellsAre DEF Opens, AppAad
<1>4. CASE f \notin Due(i) /\ rows[i][f].ver = 0
  <2>1. Since(run.batch[i][f], rows[i][f])
    BY <1>1 DEF Inv, BatchKept, Forgotten, Later
  <2>2. run.batch[i][f] = Null \/ run.batch[i][f].ver = To
    BY <1>4 DEF Due
  <2>3. rows[i][f] = Null
    BY <1>4, <2>1, <2>2 DEF Since, To
  <2> QED
    BY <2>3, CellsAre DEF Abstract!IsEmpty, Null
<1> QED
  BY <1>2, <1>3, <1>4

\* A batch, or a record of one in memory.
LEMMA RewrapRefines ==
  ASSUME Inv, [Next]_vars, NEW ids \in SUBSET DOMAIN run.batch,
         \A i \in ids : Migrates(i),
         rows' = [i \in DOMAIN rows |->
                    IF i \in ids THEN Updated(rows[i], i) ELSE rows[i]]
  PROVE  Abstract!Rewrap
<1>1. DOMAIN rows' = DOMAIN rows
  OBVIOUS
<1>2. ASSUME NEW i \in DOMAIN rows
      PROVE  \/ StoredCells'[i] = StoredCells[i]
             \/ /\ Abstract!Whole(StoredCells[i])
                /\ \E moved \in SUBSET {f \in DOMAIN StoredCells[i] :
                                            StoredCells[i][f].opens} :
                     StoredCells'[i] =
                       [f \in DOMAIN StoredCells[i] |->
                          IF f \in moved
                          THEN [StoredCells[i][f] EXCEPT !.ver = To]
                          ELSE StoredCells[i][f]]
  <2>1. CASE i \notin ids
    BY <1>1, <2>1, SameRowSameCells
  <2>2. CASE i \in ids /\ Due(i) = {}
    <3>1. Updated(rows[i], i) = [f \in EncryptedFields |-> rows[i][f]]
      BY <2>2 DEF Updated
    <3>2. rows[i] = [f \in EncryptedFields |-> rows[i][f]]
      BY DEF Inv, TypeOK, AreRows, Rows
    <3> QED
      BY <1>1, <2>2, <3>1, <3>2, SameRowSameCells
  <2>3. CASE i \in ids /\ Due(i) # {}
    <3>1. Abstract!Whole(StoredCells[i])
      BY <2>3, RowMoves
    <3>2. Due(i) \in SUBSET {f \in DOMAIN StoredCells[i] : StoredCells[i][f].opens}
      <4>1. \A f \in Due(i) : f \in EncryptedFields /\ StoredCells[i][f].opens
        BY <2>3, Rewraps, OpenCell DEF Due
      <4> QED
        BY <4>1, CellsAre
    <3>3. rows'[i] = Updated(rows[i], i)
      BY <2>3
    <3>4. ASSUME NEW f \in EncryptedFields
          PROVE  StoredCells'[i][f] =
                   IF f \in Due(i) THEN [StoredCells[i][f] EXCEPT !.ver = To]
                                   ELSE StoredCells[i][f]
      <4>1. CASE f \in Due(i)
        <5>1. rows'[i][f] = Encrypt(To, <<f, i>>, AppAad(f, i))
          BY <2>3, <3>3, <4>1, UpdatedRow, Rewraps
        <5>2. target # "seeded" /\ rows[i][f].plain = <<f, i>>
              /\ Opens(rows[i][f], Aad(f, i))
          BY <2>3, <4>1, Rewraps
        <5>3. /\ rows'[i][f].ver = To /\ rows'[i][f].plain = <<f, i>>
              /\ rows'[i][f].aad = Aad(f, i)
          BY <5>1, <5>2 DEF Encrypt, AppAad
        <5>4. Opens(rows'[i][f], Aad(f, i))
          BY <5>3 DEF Opens, To
        <5>5. StoredCells'[i][f] = [StoredCells[i][f] EXCEPT !.ver = To]
          BY <1>1, <5>2, <5>3, <5>4, MovedCell
        <5> QED
          BY <4>1, <5>5
      <4>2. CASE f \notin Due(i)
        <5>1. rows'[i][f] = rows[i][f]
          BY <2>3, <3>3, <4>2, UpdatedRow
        <5>2. StoredCells'[i][f] = StoredCells[i][f]
          BY <1>1, <5>1, SameCell
        <5> QED
          BY <4>2, <5>2
      <4> QED
        BY <4>1, <4>2
    <3>5. StoredCells'[i] =
            [f \in EncryptedFields |->
               IF f \in Due(i) THEN [StoredCells[i][f] EXCEPT !.ver = To]
                               ELSE StoredCells[i][f]]
      BY <1>1, <3>4, CellsAreNext
    <3> QED
      BY <3>1, <3>2, <3>5, CellsAre
  <2> QED
    BY <2>1, <2>2, <2>3
<1> QED
  BY <1>1, <1>2, CellsAre, CellsAreNext DEF Abstract!Rewrap


LEMMA StepRefines ==
  ASSUME Inv, [Next]_vars
  PROVE  [Abstract!Next]_StoredCells
<1>1. ASSUME rows' = rows PROVE [Abstract!Next]_StoredCells
  BY <1>1, TargetStays DEF StoredCells, Stored, Opens, Aad
<1>2. CASE Outside
  <2>1. CASE Insert
    BY <2>1, InsertRefines DEF Abstract!Next
  <2>2. ASSUME NEW i \in DOMAIN rows, NEW f \in EncryptedFields, Store(f, i)
        PROVE  Abstract!Next
    BY <2>2, StoreRefines DEF Abstract!Next
  <2>3. CASE Reset
    BY <2>3, CellsAreNext DEF Reset, NoRows, Abstract!Next, Abstract!Clear
  <2>4. CASE CreateRotation
    BY <1>1, <2>4 DEF CreateRotation
  <2> QED
    BY <1>2, <2>1, <2>2, <2>3, <2>4 DEF Outside
<1>3. CASE Commit
  <2>1. run.tx \subseteq DOMAIN run.batch /\ \A i \in run.tx : Migrates(i)
    BY DEF Inv, TxMigrates
  <2>2. Abstract!Rewrap
    BY <1>3, <2>1, RewrapRefines DEF Commit
  <2> QED
    BY <2>2 DEF Abstract!Next
<1>4. ASSUME NEW i \in DOMAIN run.batch, UpdateMemory(i)
      PROVE  Abstract!Next
  <2>1. InMemory /\ Migrates(i) /\ Due(i) # {}
    BY <1>4 DEF UpdateMemory
  <2>2. i \in DOMAIN rows /\ Updated(run.batch[i], i) = Updated(rows[i], i)
    BY <2>1, UpdatedRecord
  <2>3. DOMAIN rows \cup {i} = DOMAIN rows
    BY <2>2
  <2> DEFINE ids == {i}
  <2>4. rows' = [j \in DOMAIN rows |->
                   IF j \in ids THEN Updated(rows[j], j) ELSE rows[j]]
    BY <1>4, <2>2, <2>3 DEF UpdateMemory
  <2>5. ids \in SUBSET DOMAIN run.batch /\ \A j \in ids : Migrates(j)
    BY <2>1
  <2> HIDE DEF ids
  <2>6. Abstract!Rewrap
    BY <2>4, <2>5, RewrapRefines
  <2> QED
    BY <2>6 DEF Abstract!Next
<1>5. CASE MigrateRecord
  BY <1>1, <1>4, <1>5
     DEF MigrateRecord, IsNext, Left, Skip, UpdateTable, RecordFails, UpdateFails
<1>6. CASE Start \/ Fetch \/ FetchNone \/ End \/ UNCHANGED vars
  BY <1>1, <1>6
     DEF Start, Fetch, FetchNone, End, RollBack, Interrupt, Activate, vars
<1> QED
  BY <1>2, <1>3, <1>5, <1>6 DEF Next, Work, Quiet

\* The rotation does to the stored values what EncryptedStore allows, and
\* nothing else.
THEOREM MigrationImplements == Spec => Implements
<1>1. Init => Abstract!Init
  BY InitRefines
<1>2. Inv /\ [Next]_vars => [Abstract!Next]_StoredCells
  BY StepRefines
<1> QED
  BY <1>1, <1>2, Invariance, PTL DEF Spec, Implements, Abstract!Spec


-----------------------------------------------------------------------------
(* No failures mean that all is migrated.  In Progress, <<f, i>> is a cell *)
(* that had a value when the rotation was created.                         *)

Kept == \A f, i : <<f, i>> \in present => rows[i][f] # Null
Untouched == run.pc = "none" => ckpt = NoCheckpoint
AtCheckpoint == run.pc \in {"fetch", "activate", "done"} => run.at = ckpt
AllPassed == run.pc \in {"activate", "done"} =>
               \A f, i : <<f, i>> \in present => i <= ckpt.last

\* Behind a checkpoint that counts no failure.
Checkpointed == ckpt.failed = 0 =>
  \A f, i : <<f, i>> \in present /\ i <= ckpt.last => rows[i][f].ver = To

\* The batch holds every row between lastId and its own last one, ...
Covered == run.pc = "records" =>
  \A f, i : <<f, i>> \in present =>
    /\ i \in DOMAIN run.batch => run.batch[i][f] # Null
    /\ i > run.at.last =>
         i \in DOMAIN run.batch \/ \A j \in DOMAIN run.batch : j < i

\* ... and what the loop has passed is moved, or will be by the commit.
Attempted == run.pc = "records" /\ run.at.failed = 0 =>
  \A f, i : <<f, i>> \in present /\ i <= run.at.last =>
    rows[i][f].ver = To \/ (i \in run.tx /\ f \in Due(i))

Progress ==
  /\ Kept
  /\ Untouched
  /\ AtCheckpoint
  /\ AllPassed
  /\ Checkpointed
  /\ Covered
  /\ Attempted

LEMMA PresentType ==
  ASSUME Inv, NEW f, NEW i, <<f, i>> \in present
  PROVE  /\ f \in EncryptedFields /\ i \in DOMAIN rows
         /\ i \in Ids /\ i >= 1 /\ i \in Nat
         /\ rows[i][f] \in Values
         /\ ~Forgotten
<1>1. f \in EncryptedFields /\ i \in DOMAIN rows
  BY DEF Inv, TypeOK, Cells
<1>2. i \in Ids /\ rows[i][f] \in Values
  BY <1>1, CellType DEF Inv, TypeOK
<1>3. i >= 1 /\ i \in Nat
  BY <1>2, BoundsAssumption DEF Ids
<1> QED
  BY <1>1, <1>2, <1>3 DEF Forgotten

\* A value that was there stays there, and one that has moved has moved.
LEMMA PresentStays ==
  ASSUME Inv, Progress, [Next]_vars, RowsGrow, NEW f, NEW i, <<f, i>> \in present
  PROVE  /\ rows'[i][f] # Null
         /\ rows[i][f].ver = To => rows'[i][f].ver = To
<1>1. /\ f \in EncryptedFields /\ i \in DOMAIN rows
      /\ rows[i][f] \in Values /\ rows[i][f] # Null
  BY PresentType DEF Progress, Kept
<1>2. Since(rows[i][f], rows'[i][f])
  BY <1>1 DEF RowsGrow, Later
<1>3. rows'[i][f] # Null
  BY <1>1, <1>2 DEF Since, Null, Values, To
<1>4. rows[i][f].ver = To => rows'[i][f].ver = To
  BY <1>1, <1>2 DEF Since
<1> QED
  BY <1>3, <1>4

LEMMA InitProgress == Init => Progress
BY DEF Init, Progress, Kept, Untouched, AtCheckpoint, AllPassed, Checkpointed,
       Covered, Attempted, Between

\* A step outside the rotation.
LEMMA AsideProgress ==
  ASSUME Inv, Progress, [Next]_vars, RowsGrow, UNCHANGED <<run, ckpt, present>>
  PROVE  Progress'
<1>1. Kept'
  BY PresentStays DEF Kept
<1>2. Checkpointed'
  BY PresentStays DEF Progress, Checkpointed
<1>3. \A i : Due(i)' = Due(i)
  BY TargetStays DEF Due
<1>4. Attempted'
  BY <1>3, PresentStays DEF Progress, Attempted
<1> QED
  BY <1>1, <1>2, <1>4
     DEF Progress, Untouched, AtCheckpoint, AllPassed, Covered

LEMMA ResetProgress ==
  ASSUME Progress, Reset
  PROVE  Progress'
BY DEF Reset, Progress, Kept, Untouched, AtCheckpoint, AllPassed, Checkpointed,
       Covered, Attempted

LEMMA CreateProgress ==
  ASSUME Inv, Progress, [Next]_vars, CreateRotation
  PROVE  Progress'
<1>1. /\ run'.pc = "queued" /\ ckpt' = NoCheckpoint /\ rows' = rows
      /\ present' = {c \in Cells : At(c) # Null}
  BY DEF CreateRotation, Progress, Untouched, Between
<1>2. \A f, i : <<f, i>> \in present' =>
        /\ i \in DOMAIN rows /\ rows[i][f] # Null
  BY <1>1 DEF Cells, At
<1>3. \A i \in DOMAIN rows : i \in Nat /\ i >= 1
  BY BoundsAssumption DEF Inv, TypeOK, AreRows, Ids
<1>4. Checkpointed'
  BY <1>1, <1>2, <1>3 DEF Checkpointed, NoCheckpoint
<1> QED
  BY <1>1, <1>2, <1>4
     DEF Progress, Kept, Untouched, AtCheckpoint, AllPassed, Covered, Attempted


LEMMA TurnProgress ==
  ASSUME Inv, Progress, [Next]_vars, RowsGrow, UNCHANGED <<ckpt, present>>,
         NEW pc \in {"queued", "fetch", "activate", "done"}, NEW at,
         run' = Between(pc, at),
         pc # "queued" => at = ckpt,
         pc \in {"activate", "done"} =>
           \A f, i : <<f, i>> \in present => i <= ckpt.last
  PROVE  Progress'
<1>1. run'.pc = pc /\ run'.at = at
  BY DEF Between
<1>2. Kept'
  BY PresentStays DEF Kept
<1>3. Checkpointed'
  BY PresentStays DEF Progress, Checkpointed
<1> QED
  BY <1>1, <1>2, <1>3
     DEF Progress, Untouched, AtCheckpoint, AllPassed, Covered, Attempted

\* Keyset pagination.  A set of primary keys has a least element, ...
LEMMA LeastKey ==
  ASSUME NEW S \in SUBSET Nat, S # {}
  PROVE  \E m \in S : \A n \in S : m <= n
<1> DEFINE R == {ss \in Nat \X Nat : ss[1] < ss[2]}
<1>1. IsWellFoundedOn(R, Nat)
  BY NatLessThanWellFounded DEF OpToRel
<1> HIDE DEF R
<1>2. PICK m \in S : \A n \in S : ~ (<<n, m>> \in R)
  BY <1>1, WFMin
<1>3. ASSUME NEW n \in S PROVE m <= n
  <2>1. <<n, m>> \notin R /\ n \in Nat /\ m \in Nat
    BY <1>2
  <2> QED
    BY <2>1 DEF R
<1> QED
  BY <1>2, <1>3

LEMMA BehindType == Inv => Behind \subseteq Nat
BY BoundsAssumption DEF Behind, Inv, TypeOK, AreRows, Ids

LEMMA BehindFinite ==
  ASSUME Inv, NEW i
  PROVE  /\ IsFiniteSet({j \in Behind : j < i})
         /\ Cardinality({j \in Behind : j < i}) \in Nat
<1>1. Behind \subseteq Ids
  BY DEF Behind, Inv, TypeOK, AreRows
<1>2. IsFiniteSet(Ids)
  BY FS_Interval, BoundsAssumption DEF Ids
<1>3. IsFiniteSet({j \in Behind : j < i})
  BY <1>1, <1>2, FS_Subset
<1> QED
  BY <1>3, FS_CardinalityType

\* ... so that an empty batch means that no row is left, ...
LEMMA NoneNext ==
  ASSUME Inv, NextIds = {}
  PROVE  Behind = {}
<1> SUFFICES ASSUME Behind # {} PROVE FALSE
  OBVIOUS
<1>1. PICK m \in Behind : \A n \in Behind : m <= n
  BY BehindType, LeastKey
<1>2. \A n \in Behind : ~(n < m)
  BY <1>1, BehindType
<1>3. {j \in Behind : j < m} = {}
  BY <1>2
<1>4. Cardinality({j \in Behind : j < m}) = 0
  BY <1>3, FS_EmptySet
<1> QED
  BY <1>1, <1>4, BoundsAssumption DEF NextIds

\* ... and a batch leaves out no row below one it has.
LEMMA NextIdsClosed ==
  ASSUME Inv, NEW i \in Behind, NEW j \in NextIds, i <= j
  PROVE  i \in NextIds
<1> DEFINE Below(k) == {n \in Behind : n < k}
<1>1. j \in Behind /\ Cardinality(Below(j)) < BatchSize
  BY DEF NextIds
<1>2. Below(i) \subseteq Below(j)
  <2>1. \A n \in Behind : n < i => n < j
    BY <1>1, BehindType
  <2> QED
    BY <2>1
<1>3. /\ IsFiniteSet(Below(j))
      /\ Cardinality(Below(i)) \in Nat /\ Cardinality(Below(j)) \in Nat
  BY BehindFinite
<1> HIDE DEF Below
<1>4. Cardinality(Below(i)) <= Cardinality(Below(j))
  BY <1>2, <1>3, FS_Subset
<1>5. Cardinality(Below(i)) < BatchSize
  BY <1>1, <1>3, <1>4, BoundsAssumption
<1> QED
  BY <1>5 DEF NextIds, Below

LEMMA FetchNoneProgress ==
  ASSUME Inv, Progress, [Next]_vars, FetchNone
  PROVE  Progress'
<1>1. run.at = ckpt
  BY DEF FetchNone, Progress, AtCheckpoint
<1>2. Behind = {}
  BY NoneNext DEF FetchNone
<1>3. \A f, i : <<f, i>> \in present => i <= ckpt.last
  BY <1>1, <1>2, PresentType, FrameType, BoundsAssumption DEF Behind, Checkpoints
<1> QED
  BY <1>1, <1>3, TurnProgress, SameRows DEF FetchNone

LEMMA FetchProgress ==
  ASSUME Inv, Progress, [Next]_vars, Fetch
  PROVE  Progress'
<1>1. /\ run' = [Between("records", run.at) EXCEPT !.batch = [i \in NextIds |-> rows[i]]]
      /\ rows' = rows /\ ckpt' = ckpt /\ present' = present
      /\ run.at = ckpt
  BY DEF Fetch, Progress, AtCheckpoint
<1>2. /\ run'.pc = "records" /\ run'.at = run.at
      /\ DOMAIN run'.batch = NextIds
      /\ \A i \in NextIds : run'.batch[i] = rows[i]
  BY <1>1 DEF Between
<1>3. ASSUME NEW f, NEW i, <<f, i>> \in present
      PROVE  /\ i \in NextIds => run'.batch[i][f] # Null
             /\ i > run.at.last => i \in NextIds \/ \A j \in NextIds : j < i
  <2>1. i \in DOMAIN rows /\ i \in Nat /\ rows[i][f] # Null
    BY <1>3, PresentType DEF Progress, Kept
  <2>2. ASSUME i > run.at.last, NEW j \in NextIds, ~(j < i)
        PROVE  i \in NextIds
    <3>1. i \in Behind /\ j \in Nat
      BY <2>1, <2>2, NextIdsType, BoundsAssumption DEF Behind, Ids
    <3>2. i <= j
      BY <2>1, <2>2, <3>1
    <3> QED
      BY <3>1, <3>2, NextIdsClosed
  <2> QED
    BY <1>2, <2>1, <2>2
<1>4. Covered'
  BY <1>1, <1>2, <1>3 DEF Covered
<1>5. Attempted'
  BY <1>1, <1>2 DEF Progress, Checkpointed, Attempted
<1> QED
  BY <1>1, <1>2, <1>4, <1>5
     DEF Progress, Kept, Untouched, AtCheckpoint, AllPassed, Checkpointed


LEMMA CommitProgress ==
  ASSUME Inv, Progress, [Next]_vars, Commit
  PROVE  Progress'
<1>1. /\ run.pc = "records" /\ Left = {}
      /\ rows' = [i \in DOMAIN rows |->
                    IF i \in run.tx THEN Updated(rows[i], i) ELSE rows[i]]
      /\ ckpt' = run.at /\ present' = present
      /\ run' = Between("fetch", run.at)
  BY DEF Commit
<1>2. run'.pc = "fetch" /\ run'.at = run.at
  BY <1>1 DEF Between
<1>3. RowsGrow
  BY CommitRows
<1>4. Kept'
  BY <1>1, <1>3, PresentStays DEF Kept
<1>5. Checkpointed'
  <2> SUFFICES ASSUME run.at.failed = 0, NEW f, NEW i, <<f, i>> \in present,
                      i <= run.at.last
               PROVE  rows'[i][f].ver = To
    BY <1>1 DEF Checkpointed
  <2>1. CASE rows[i][f].ver = To
    BY <1>3, <2>1, PresentStays
  <2>2. CASE i \in run.tx /\ f \in Due(i)
    <3>1. f \in EncryptedFields /\ i \in DOMAIN rows
      BY PresentType
    <3>2. i \in DOMAIN run.batch /\ Migrates(i)
      BY <2>2 DEF Inv, TxMigrates
    <3>3. rows'[i][f] = Encrypt(To, <<f, i>>, AppAad(f, i))
      BY <1>1, <2>2, <3>1, <3>2, UpdatedRow, Rewraps
    <3> QED
      BY <3>3 DEF Encrypt
  <2> QED
    BY <1>1, <2>1, <2>2 DEF Progress, Attempted
<1> QED
  BY <1>1, <1>2, <1>4, <1>5
     DEF Progress, Untouched, AtCheckpoint, AllPassed, Covered, Attempted

LEMMA RecordProgress ==
  ASSUME Inv, Progress, [Next]_vars, MigrateRecord
  PROVE  Progress'
<1>1. PICK i \in Ids :
        /\ run.pc = "records"
        /\ IsNext(i)
        /\ \/ Skip(i) \/ UpdateTable(i) \/ UpdateMemory(i)
           \/ RecordFails(i) \/ UpdateFails(i)
  BY DEF MigrateRecord
<1>2. /\ i \in DOMAIN run.batch /\ i > run.at.last
      /\ \A j \in DOMAIN run.batch : j > run.at.last => i <= j
  BY <1>1 DEF IsNext, Left
<1>3. i \in Nat /\ run.at.last \in Nat /\ run.at.failed \in Nat
  BY FrameType, BoundsAssumption DEF Ids
<1>4. /\ run'.pc = "records" /\ run'.batch = run.batch
      /\ run'.at.last = i /\ run.tx \subseteq run'.tx
      /\ run'.at.failed = 0 =>
           /\ run.at.failed = 0
           /\ \/ Skip(i) \/ UpdateMemory(i)
              \/ UpdateTable(i) /\ i \in run'.tx
  <2>1. run \in Frames({run.batch}) /\ run.at \in Checkpoints
    BY FrameType DEF Inv, TypeOK
  <2>2. /\ Passed(i).last = i /\ Passed(i).failed = run.at.failed
        /\ Failed(i).last = i /\ Failed(i).failed = run.at.failed + 1
    BY <2>1 DEF Passed, Failed, Checkpoints
  <2>3. run.at.failed + 1 # 0
    BY <1>3
  <2>4. CASE Skip(i) \/ UpdateMemory(i)
    <3>1. run' = [run EXCEPT !.at = Passed(i)]
      BY <2>4 DEF Skip, UpdateMemory
    <3> QED
      BY <1>1, <2>1, <2>2, <2>4, <3>1 DEF Frames
  <2>5. CASE UpdateTable(i)
    BY <1>1, <2>1, <2>2, <2>5 DEF UpdateTable, Frames
  <2>6. CASE RecordFails(i) \/ UpdateFails(i)
    <3>1. run'.pc = run.pc /\ run'.batch = run.batch /\ run'.at = Failed(i)
          /\ run'.tx = run.tx
      BY <2>1, <2>6 DEF RecordFails, UpdateFails, Frames
    <3> QED
      BY <1>1, <2>2, <2>3, <3>1
  <2> QED
    BY <1>1, <2>4, <2>5, <2>6
<1>5. ckpt' = ckpt /\ present' = present
  BY <1>1 DEF Skip, UpdateTable, UpdateMemory, RecordFails, UpdateFails
<1>6. RowsGrow
  BY RecordRows
<1>7. Kept' /\ Checkpointed'
  BY <1>5, <1>6, PresentStays DEF Progress, Kept, Checkpointed
<1>8. Covered'
  BY <1>1, <1>2, <1>3, <1>4, <1>5, PresentType DEF Progress, Covered
<1>9. \A j : Due(j)' = Due(j)
  BY <1>4, TargetStays DEF Due
<1>10. ASSUME run'.at.failed = 0, NEW f, <<f, i>> \in present
       PROVE  rows'[i][f].ver = To \/ (i \in run'.tx /\ f \in Due(i))
  <2>1. /\ f \in EncryptedFields /\ i \in DOMAIN rows /\ ~Forgotten
        /\ run.batch[i][f] # Null
    BY <1>1, <1>2, <1>10, PresentType DEF Progress, Covered
  <2>2. CASE f \notin Due(i)
    <3>1. run.batch[i][f].ver = To
      BY <2>1, <2>2 DEF Due
    <3>2. Since(run.batch[i][f], rows[i][f])
      BY <1>2, <2>1 DEF Inv, BatchKept, Later
    <3>3. rows[i][f].ver = To
      BY <2>1, <3>1, <3>2 DEF Since
    <3> QED
      BY <1>6, <1>10, <3>3, PresentStays
  <2>3. CASE f \in Due(i) /\ UpdateMemory(i)
    <3>1. InMemory /\ Migrates(i) /\ Due(i) # {}
      BY <2>3 DEF UpdateMemory
    <3>2. rows'[i] = Updated(run.batch[i], i)
      BY <2>3 DEF UpdateMemory
    <3>3. rows'[i][f] = Rewrapped(i, f)
      BY <2>1, <2>3, <3>2 DEF Updated
    <3>4. Rewrapped(i, f) = Encrypt(To, <<f, i>>, AppAad(f, i))
      BY <1>2, <2>3, <3>1, Rewraps
    <3> QED
      BY <3>3, <3>4 DEF Encrypt
  <2>4. CASE f \in Due(i) /\ Skip(i)
    BY <2>4 DEF Skip
  <2> QED
    BY <1>4, <1>10, <2>2, <2>3, <2>4
<1>11. Attempted'
  <2> SUFFICES ASSUME run'.at.failed = 0, NEW f, NEW j, <<f, j>> \in present, j <= i
               PROVE  rows'[j][f].ver = To \/ (j \in run'.tx /\ f \in Due(j))
    BY <1>4, <1>5, <1>9 DEF Attempted
  <2>1. j \in Nat
    BY PresentType
  <2>2. CASE j <= run.at.last
    <3>1. rows[j][f].ver = To \/ (j \in run.tx /\ f \in Due(j))
      BY <1>1, <1>4, <2>2 DEF Progress, Attempted
    <3> QED
      BY <1>4, <1>6, <3>1, PresentStays
  <2>3. CASE j > run.at.last
    <3>1. j \in DOMAIN run.batch \/ i < j
      BY <1>1, <1>2, <2>3 DEF Progress, Covered
    <3>2. j = i
      BY <1>2, <1>3, <2>1, <2>3, <3>1
    <3> QED
      BY <1>10, <3>2
  <2> QED
    BY <1>3, <2>1, <2>2, <2>3
<1> QED
  BY <1>4, <1>7, <1>8, <1>11
     DEF Progress, Untouched, AtCheckpoint, AllPassed

LEMMA NextProgress ==
  ASSUME Inv, Progress, [Next]_vars
  PROVE  Progress'
<1>1. CASE Outside
  BY <1>1, AsideProgress, InsertRows, StoreRows, ResetProgress, CreateProgress
     DEF Outside, Insert, Store
<1>2. CASE Fetch
  BY <1>2, FetchProgress
<1>3. CASE FetchNone
  BY <1>3, FetchNoneProgress
<1>4. CASE MigrateRecord
  BY <1>4, RecordProgress
<1>5. CASE Commit
  BY <1>5, CommitProgress
<1>6. CASE Start
  BY <1>6, TurnProgress, SameRows DEF Start
<1>7. CASE RollBack
  BY <1>7, TurnProgress, SameRows DEF RollBack
<1>8. CASE Interrupt
  BY <1>8, TurnProgress, SameRows DEF Interrupt
<1>9. CASE Activate
  BY <1>9, TurnProgress, SameRows DEF Activate, Progress, AtCheckpoint, AllPassed
<1>10. CASE UNCHANGED vars
  BY <1>10, AsideProgress, SameRows DEF vars
<1> QED
  BY <1>1, <1>2, <1>3, <1>4, <1>5, <1>6, <1>7, <1>8, <1>9, <1>10
     DEF Next, Work, End, Quiet

\* A rotation that is over and counts no failure has moved every value that was
\* there when it was created, however often it was cut off and resumed.
THEOREM NoFailuresMigrate == Spec => []NoFailuresMeansMigrated
<1>1. Init => Inv /\ Progress
  BY InitInv, InitProgress
<1>2. Inv /\ Progress /\ [Next]_vars => (Inv /\ Progress)'
  BY NextInv, NextProgress
<1>3. Inv /\ Progress => NoFailuresMeansMigrated
  <2> SUFFICES ASSUME Inv, Progress, run.pc = "done", ckpt.failed = 0,
                      NEW c \in present
               PROVE  At(c).ver = To
    BY DEF NoFailuresMeansMigrated
  <2>1. PICK f, i : c = <<f, i>>
    BY DEF Inv, TypeOK, Cells
  <2>2. rows[i][f].ver = To
    BY <2>1 DEF Progress, AllPassed, Checkpointed
  <2> QED
    BY <2>1, <2>2 DEF At
<1> QED
  BY <1>1, <1>2, <1>3, PTL DEF Spec

=============================================================================
