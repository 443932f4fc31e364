SPECIFICATION Spec
CONSTANTS
  r1 = r1
  r2 = r2
  w1 = w1
  w2 = w2
  t1 = t1
  Rotations = {r1, r2}
  Workers = {w1, w2}
  NoWorker = NoWorker
  Attempts = 3
  MaxStalled = 1
  Targets = {t1}
  TargetOf <- OneTarget
  NumRecords = 2
  MaxRecords = 2
  BatchSize = 1
  Unreadable = {}
  AppWrites = {}
  Faults = {}
  MaxFaults = 0
INVARIANTS
  DeadJobsHaveTerminalRows
