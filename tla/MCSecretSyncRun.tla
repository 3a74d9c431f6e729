---------------------------- MODULE MCSecretSyncRun ----------------------------
(***************************************************************************)
(* Small instances of SecretSyncRun for TLC.                               *)
(***************************************************************************)
EXTENDS SecretSyncRun, TLC

CONSTANTS r1, r2, t1, t2

\* Runs are interchangeable.
Symmetric == Permutations(Operations)
=============================================================================
