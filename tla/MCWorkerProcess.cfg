SPECIFICATION ProcessFairSpec
CONSTANTS
  Fields = {"ssn"}
  OldRows = 1
  BatchSize = 1
  MaxId = 1
  MaxFaults = 1
  MaxCalls = 4
INVARIANTS
  LifeTypeOK
  IsRunningTellsTheTruth
PROPERTIES
  EveryCallReturns
