CONSTANTS
  None = None
  c1 = c1 c2 = c2
  h1 = h1 h2 = h2
  m1 = m1 m2 = m2
  o1 = o1
  Ops = {o1}
  Clients = {c1, c2}
  Pollers = {c2}
  Intents = {i1}
  Keys = {k1}
  MutationKeys = {m1}
  Challenges = {}
  TTL = 1
  MaxAttempts = 2
  MaxRevision = 6
  MaxClock = 3
SPECIFICATION FairSpec
PROPERTIES ExpiredClaimIsParked
CHECK_DEADLOCK FALSE
