SPECIFICATION Spec
CONSTANTS
  r1 = r1
  r2 = r2
  w1 = w1
  w2 = w2
  t1 = t1
  Rotations = {r1}
  Workers = {w1, w2}
  NoWorker = NoWorker
  Attempts = 3
  MaxStalled = 1
  Targets = {t1}
  TargetOf <- OneTarget
  NumRecords = 3
  MaxRecords = 4
  BatchSize = 2
  Unreadable = {2}
  AppWrites = {1}
  Faults = {"failure", "key", "session", "crash", "stall"}
  MaxFaults = 2
SYMMETRY WorkerSymmetry
INVARIANTS
  TypeOK
  CountersMatchCheckpoint
  CheckpointCoversMigration
  ActivatedMeansMigrated
  OneLateBatch
  LockedWhileAtWork
