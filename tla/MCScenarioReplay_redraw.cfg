SPECIFICATION Spec
CONSTANTS
  node = node
  halves = halves
  kill = kill
  freeze = freeze
  group = group
  n1 = n1
  n2 = n2
  n3 = n3
  db = db
  extra = extra
  Unresolved = Unresolved
  Garbled = Garbled
  Classes = {node}
  Healable = {node}
  Freezes = {}
  Fixable = {node}
  Resume <- ResumeOf
  Targets = {n1, n2, n3, db, extra}
  Drawn <- DrawnBy
  Nodes = {n1, n2, n3}
  NodesOf <- NodesOfTarget
  MaxActions = 1
INVARIANT DeterministicReplay
