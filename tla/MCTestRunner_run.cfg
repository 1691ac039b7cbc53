SPECIFICATION Spec
CONSTANTS
  n1 = n1
  n2 = n2
  v1 = v1
  v2 = v2
  f1 = f1
  f2 = f2
  Nodes = {n1, n2}
  Values = {v1, v2}
  Faults = {f1, f2}
INVARIANTS
  TypeOK
  ReadsUndisturbed
  LatencyLifetime
PROPERTIES
  KeepsContracts
  Termination
