SPECIFICATION SocketFairSpec
CONSTANTS
  r1 = r1
  w1 = w1
  w2 = w2
  t1 = t1
  Rotations = {r1}
  Workers = {w1}
  NoWorker = NoWorker
  Attempts = 3
  MaxStalled = 1
  Targets = {t1}
  TargetOf <- OneTarget
  NumRecords = 2
  MaxRecords = 3
  BatchSize = 2
  Unreadable = {}
  AppWrites = {}
  Faults = {"failure", "key", "crash"}
  MaxFaults = 2
INVARIANTS
  SocketTypeOK
  HundredMeansMigrated
  TheEndIsLast
PROPERTIES
  ProgressNeverGoesBack
  SubscribersHearTheEnd
  RotationsSettle
