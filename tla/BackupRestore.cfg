CONSTANTS
  None = None
  home = home other = other
  canary = canary a = a b = b c = c
  r1 = r1 r2 = r2 r3 = r3
  i1 = i1 i2 = i2
  Instances = {home, other}
  Home = home
  Orgs = {canary, a, b, c}
  Canary = canary
  InstanceOf <- MCInstanceOf
  FirstOrg <- MCFirstOrg
  Schedules = {1, 2}
  Runs = {r1, r2, r3}
  MaxAttempts = 2
  Imports = {i1, i2}
SPECIFICATION Spec
ACTION_CONSTRAINT Reduced
INVARIANTS LatestIsComplete LatestIsNewest RestoreIsWhole GenuineArtifactsImport
PROPERTIES ImplementsBackupService
SYMMETRY Symmetric
CHECK_DEADLOCK FALSE
