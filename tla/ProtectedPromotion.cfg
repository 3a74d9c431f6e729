CONSTANTS
  None = None
  s1 = s1 s2 = s2 u1 = u1
  v1 = v1 v2 = v2 v3 = v3 v4 = v4
  q1 = q1 q2 = q2 q3 = q3 q4 = q4
  c1 = c1 c2 = c2
  Secrets = {s1, s2, u1}
  Unprotected = {u1}
  Versions = {v1, v2, v3, v4}
  Requests = {q1, q2, q3, q4}
  Clients = {c1, c2}
  MaxDelivery = 1
SPECIFICATION LaterSpec
INVARIANTS CurrentIsLive PublishedInOrder PublishedIffApproved OnePendingPromotion
PROPERTIES DecidedIsFinal CallsAreAtomic
SYMMETRY PromotionSymmetric
CHECK_DEADLOCK FALSE
