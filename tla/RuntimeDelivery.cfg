CONSTANTS
  None = None
  p1 = p1
  Projects = {p1}
  Clients = {c1, c2}
  Sweepers = {s1}
  MaxRoot = 2
  MaxKeys = 3
  Secrets = {x, y}
  Home <- HomeIsP1
  Grants = {g1}
  MaxVersions = 2
  MaxWrites = 2
SYMMETRY Symmetric
SPECIFICATION Spec
INVARIANTS CiphertextsAreReadable DeliveredAsPinned
PROPERTIES KeyIdentityIsStable SpentWithValuesInHand ImplementsGrantLifecycle
CHECK_DEADLOCK FALSE
