SPECIFICATION Spec
CONSTANTS
  p1 = p1
  p2 = p2
  p3 = p3
  f1 = f1
  f2 = f2
  Procs = {p1, p2, p3}
  NoProc = NoProc
  Freezes = {f1, f2}
  PatternsOf <- Overlapping
  MaxTerms = 1
  MaxRestarts = 0
INVARIANT NoneLeftStopped
