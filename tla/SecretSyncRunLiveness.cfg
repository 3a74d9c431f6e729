CONSTANTS
  None = None
  r1 = r1 r2 = r2
  t1 = t1 t2 = t2
  Targets = {t1}
  Operations = {r1, r2}
  NumBindings = 1
  StagedTargets = {}
  LeaseTTL = 2
  MaxToken = 3
  MaxTime = 4
SPECIFICATION FairSpec
PROPERTIES TargetIsFreed
CHECK_DEADLOCK FALSE
