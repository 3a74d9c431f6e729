------------------------- MODULE MCProtectedPromotion -------------------------
(***************************************************************************)
(* A small instance of ProtectedPromotion for TLC.  It starts where a      *)
(* rollback is possible: v1 was published for s1, and then v2.             *)
(***************************************************************************)
EXTENDS ProtectedPromotion, TLC

CONSTANTS s1, s2, u1, v1, v2, v3, v4, q1, q2, q3, q4, c1, c2

AppliedFor(v) == [purpose |-> "protected_promotion", status |-> "approved_applied",
                  targets |-> {v}, fingerprint |-> [delivery |-> 0, drafts |-> {v}]]

\* The state after two promotions of s1, reachable from Init.
AfterTwoPromotions ==
  /\ secrets  = [s \in Secrets |-> [current    |-> IF s = s1 THEN v2 ELSE None,
                                    liveNumber |-> IF s = s1 THEN 2 ELSE 0]]
  /\ versions = [v \in Versions |->
                   CASE v = v1 -> [secret |-> s1, number |-> 1, state |-> "retained"]
                     [] v = v2 -> [secret |-> s1, number |-> 2, state |-> "live"]
                     [] OTHER  -> None]
  /\ requests = [q \in Requests |->
                   CASE q = q1 -> AppliedFor(v1) [] q = q2 -> AppliedFor(v2) [] OTHER -> None]
  /\ delivery = 0
  /\ jobs     = [c \in Clients |-> Idle]

LaterSpec == AfterTwoPromotions /\ [][Next]_vars

\* Unused version IDs, unused request IDs and clients are interchangeable.
PromotionSymmetric ==
  Permutations(Versions \ {v1, v2}) \cup Permutations(Requests \ {q1, q2}) \cup Permutations(Clients)

\* From Init, so are all of them.
AllSymmetric == Permutations(Versions) \cup Permutations(Requests)
=============================================================================
