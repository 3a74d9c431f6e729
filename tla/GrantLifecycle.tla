---------------------------- MODULE GrantLifecycle ----------------------------
(***************************************************************************)
(* What Injection Grants promise (ADR-0074): "issued" is the only state a  *)
(* grant leaves, and the values of a consumed grant are handed out at most *)
(* once, those of any other grant never.                                   *)
(***************************************************************************)
EXTENDS Naturals

CONSTANT Grants

VARIABLES
  status,     \* per grant, its state
  deliveries  \* per grant, how often its values were handed out

Init ==
  /\ status     = [g \in Grants |-> "none"]
  /\ deliveries = [g \in Grants |-> 0]

Issue(g) ==
  /\ status[g] = "none"
  /\ status' = [status EXCEPT ![g] = "issued"]
  /\ UNCHANGED deliveries

\* Both revocations take every grant they apply to at once.
Leave(G, state) ==
  /\ \A g \in G : status[g] = "issued"
  /\ status' = [g \in Grants |-> IF g \in G THEN state ELSE status[g]]
  /\ UNCHANGED deliveries

Deliver(g) ==
  /\ status[g] = "consumed"
  /\ deliveries[g] = 0
  /\ deliveries' = [deliveries EXCEPT ![g] = 1]
  /\ UNCHANGED status

Next ==
  \/ \E g \in Grants :
       Issue(g) \/ Leave({g}, "consumed") \/ Leave({g}, "expired") \/ Deliver(g)
  \/ \E G \in SUBSET Grants : Leave(G, "revoked")

Spec == Init /\ [][Next]_<<status, deliveries>>
=============================================================================
