-------------------------- MODULE MCRuntimeDelivery --------------------------
(***************************************************************************)
(* A small instance of InjectionGrants and DataKeys for TLC.               *)
(***************************************************************************)
EXTENDS InjectionGrants, TLC

CONSTANT p1

\* Every secret belongs to the one Project.
HomeIsP1 == [s \in Secrets |-> p1]

\* Requests and secrets are interchangeable.
Symmetric == Permutations(Clients) \cup Permutations(Secrets)
=============================================================================
