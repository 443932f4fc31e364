SPECIFICATION FairSpec
CONSTANTS
  r1 = r1
  r2 = r2
  w1 = w1
  w2 = w2
  t1 = t1
  Rotations = {r1}
  Workers = {w1}
  NoWorker = NoWorker
  Attempts = 3
  MaxStalled = 1
  Targets = {t1}
  TargetOf <- OneTarget
  NumRecords = 1
  MaxRecords = 1
  BatchSize = 1
  Unreadable = {}
  AppWrites = {1}
  Faults = {}
  MaxFaults = 0
PROPERTIES
  NoLostUpdate
