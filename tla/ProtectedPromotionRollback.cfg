CONSTANTS
  None = None
  s1 = s1 s2 = s2 u1 = u1
  v1 = v1 v2 = v2 v3 = v3 v4 = v4
  q1 = q1 q2 = q2 q3 = q3 q4 = q4
  c1 = c1 c2 = c2
  Secrets = {s1}
  Unprotected = {}
  Versions = {v1, v2, v3}
  Requests = {q1, q2, q3}
  Clients = {c1}
  MaxDelivery = 0
SPECIFICATION Spec
INVARIANTS UnchangedReviewIsFresh
SYMMETRY AllSymmetric
CHECK_DEADLOCK FALSE
