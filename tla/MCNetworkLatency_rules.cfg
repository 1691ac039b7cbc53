SPECIFICATION Spec
CONSTANTS
  db1 = db1
  db2 = db2
  zk1 = zk1
  east = east
  west = west
  NoDc = NoDc
  DbNodes <- MCDbNodes
  ExtraNodes <- MCExtraNodes
  DcOf <- MCDcOf
  CrossDelays <- MCCrossDelays
  DbZkDelay = 30
  FreezeDelay = 99999
  MaxRuns = 2
  MaxFreezes = 2
  MaxFailures = 1
INVARIANTS
  TypeOK
  ExactWhileClean
  NoForeignDelay
  KillIsolated
  NothingLeft
CHECK_DEADLOCK FALSE
