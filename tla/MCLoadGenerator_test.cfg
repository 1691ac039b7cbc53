SPECIFICATION Spec
CONSTANTS
  n1 = n1
  n2 = n2
  Nodes = {n1, n2}
  WritersPerNode = 1
  MaxValue = 2
  MaxReads = 1
  DbFaults = {"lose"}
  SlowOps = TRUE
INVARIANTS
  TypeOK
  NoFalseAlarm
  FaultsDetected
  RecoveredAreIndeterminate
  WellFormedLog
PROPERTIES
  ImplementsSetTest
  Termination
