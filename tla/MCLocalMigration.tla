-------------------------- MODULE MCLocalMigration --------------------------
(***************************************************************************)
(* Small instances of LocalMigration for TLC.                              *)
(***************************************************************************)
EXTENDS LocalMigration, TLC

\* Processes are interchangeable.
Symmetric == Permutations(Clients)
=============================================================================
