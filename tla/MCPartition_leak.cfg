SPECIFICATION Spec
CONSTANTS
  db1 = db1
  db2 = db2
  zk = zk
  DbNodes <- TwoDb
  ExtraNodes <- OneZk
  DcMap <- TwoDcs
  Kinds = {"node"}
  MaxActive = 1
  MaxOrdinal = 1
  MaxRuns = 2
  MaxFailures = 1
INVARIANT InEffectInCleanRun
