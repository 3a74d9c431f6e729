CONSTANTS
  Machines = {m1}
  Clients = {c1, c2}
  Environments = {dev}
  Default = dev
  Keys = {k1}
  MaxValue = 2
  MaxWrites = 3
  MaxCrashes = 1
SPECIFICATION FairSpec
INVARIANTS NothingIsLost
PROPERTIES RemoteIsNeverOverwritten MigrationConverges
CHECK_DEADLOCK FALSE
