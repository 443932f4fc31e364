SPECIFICATION Spec
CONSTANTS
  Fields = {"ssn", "note"}
  OldRows = 2
  BatchSize = 2
  MaxId = 3
  MaxFaults = 2
INVARIANTS
  TypeOK
  ReadersReadBack
  NoFailuresMeansMigrated
PROPERTIES
  Implements
