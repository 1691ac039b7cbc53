SPECIFICATION Spec
CONSTANTS
  node = node
  halves = halves
  kill = kill
  freeze = freeze
  group = group
  n1 = n1
  n2 = n2
  n3 = n3
  db = db
  extra = extra
  Unresolved = Unresolved
  Garbled = Garbled
  Classes = {node, halves, kill, freeze, group}
  Healable = {node, halves, freeze, group}
  Freezes = {freeze, group}
  Fixable = {node, freeze, group}
  Resume <- ResumeOf
  Targets = {n1, n2, n3, db, extra}
  Drawn <- DrawnBy
  Nodes = {n1, n2, n3}
  NodesOf <- NodesOfTarget
  MaxActions = 3
INVARIANT TypeOK
INVARIANT ReplayRepeats
INVARIANT ReplayRewritesScript
INVARIANT EffectsMatchScript
INVARIANT ReplayLeavesOpenFaults
PROPERTY ReplayEnds
