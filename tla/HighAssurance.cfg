CONSTANTS
  None = None
  Ops = {o1}
  Challenges = {h1, h2}
  Users = {u1, u2}
  Kinds = {k1, k2}
  Clients = {c1, c2}
SYMMETRY Symmetric
SPECIFICATION Spec
INVARIANTS MutationIsAuthorized AuditTrailIsOrdered
PROPERTIES DenialIsFinal ImplementsChallenges
CHECK_DEADLOCK FALSE
