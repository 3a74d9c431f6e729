--------------------------- MODULE MCOperationStore ---------------------------
(***************************************************************************)
(* Small instances of OperationStore for TLC.                              *)
(***************************************************************************)
EXTENDS OperationStore, TLC

CONSTANTS c1, c2, h1, h2, m1, m2, o1

\* Requests other than the pollers are interchangeable, and so are challenges and
\* mutation keys.
Symmetric ==
  Permutations(Clients \ Pollers) \cup Permutations(Challenges) \cup Permutations(MutationKeys)
=============================================================================
