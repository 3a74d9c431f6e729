--------------------------- MODULE MCHighAssurance ---------------------------
(***************************************************************************)
(* A small instance of HighAssurance for TLC.                              *)
(***************************************************************************)
EXTENDS HighAssurance, TLC

\* Requests, challenges, users and kinds are interchangeable.
Symmetric == Permutations(Clients) \cup Permutations(Challenges) \cup
             Permutations(Users) \cup Permutations(Kinds)
=============================================================================
