SPECIFICATION Spec
CONSTANTS
  freeze = freeze
  kill = kill
  NoLimit = NoLimit
  Classes = {freeze, kill}
  Healable = {freeze}
  Destructive = {freeze, kill}
  HostTargetable = {freeze}
  ComplexFaults = TRUE
  ParallelFaults = 2
  MaxDestructive = 2
  MaxCombo = 2
  MaxCycles = 2
  MayFail = {"start", "construct", "execute", "heal_raises", "heal_swallows"}
INVARIANT TypeOK
INVARIANT DestructiveWithinLimit
INVARIANT CleanAtEnd
INVARIANT LoggedBeforeEffect
INVARIANT NotHealedTwice
INVARIANT BalancedBetweenCycles
PROPERTY KeepsLedger
PROPERTY Termination
