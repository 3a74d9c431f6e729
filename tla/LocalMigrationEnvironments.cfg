CONSTANTS
  Machines = {m1}
  Clients = {c1, c2}
  Environments = {dev, preview}
  Default = dev
  Keys = {k1}
  MaxValue = 2
  MaxWrites = 2
  MaxCrashes = 1
SYMMETRY Symmetric
SPECIFICATION Spec
INVARIANTS EveryEnvironmentIsKept
CHECK_DEADLOCK FALSE
