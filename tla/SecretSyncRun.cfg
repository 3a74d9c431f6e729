CONSTANTS
  None = None
  r1 = r1 r2 = r2
  t1 = t1 t2 = t2
  Targets = {t1, t2}
  Operations = {r1, r2}
  NumBindings = 2
  StagedTargets = {t2}
  LeaseTTL = 2
  MaxToken = 3
  MaxTime = 4
SPECIFICATION Spec
INVARIANTS TokenNamesOneHolder AtMostOneLostWrite OutcomeMatchesEffects NoPartialDeploy ResultIsTrue
PROPERTIES UnexpiredLeaseIsKept
SYMMETRY Symmetric
CHECK_DEADLOCK FALSE
