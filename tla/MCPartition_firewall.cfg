SPECIFICATION Spec
CONSTANTS
  db1 = db1
  db2 = db2
  zk = zk
  DbNodes <- TwoDb
  ExtraNodes <- OneZk
  DcMap <- TwoDcs
  Kinds = {"halves", "ring", "node", "subnet", "dc"}
  MaxActive = 2
  MaxOrdinal = 2
  MaxRuns = 2
  MaxFailures = 1
INVARIANT TypeOK
INVARIANT NothingStray
INVARIANT ExactWhileClean
INVARIANT RingViews
