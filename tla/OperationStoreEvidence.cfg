CONSTANTS
  None = None
  c1 = c1 c2 = c2
  h1 = h1 h2 = h2
  m1 = m1 m2 = m2
  o1 = o1
  Ops = {o1}
  Clients = {c1, c2}
  Pollers = {}
  Intents = {i1}
  Keys = {}
  MutationKeys = {m1, m2}
  Challenges = {h1, h2}
  TTL = 1
  MaxAttempts = 2
  MaxRevision = 4
  MaxClock = 1
SPECIFICATION Spec
INVARIANTS SnapshotIsCurrent AcknowledgedAuditsKept EvidenceExactOnce ClaimIffRunning
PROPERTIES TerminalIsFinal LiveClaimEndsByItsCall KeyedMutationAppliesOnce ImplementsAtomicStore ImplementsChallenges
SYMMETRY Symmetric
CHECK_DEADLOCK FALSE
