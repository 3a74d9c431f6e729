---------------------------- MODULE MCBackupRestore ----------------------------
(***************************************************************************)
(* Small instances of BackupRestore for TLC.                               *)
(***************************************************************************)
EXTENDS BackupRestore, TLC

CONSTANTS home, other,     \* instances
          canary, a, b, c, \* organizations: of the bootstraps, and onboarded
          r1, r2, r3, i1, i2

MCInstanceOf == (canary :> home) @@ (a :> home) @@ (b :> other) @@ (c :> home)
MCFirstOrg   == (home :> a) @@ (other :> b)

\* Runs are interchangeable, and so are imports.
Symmetric == Permutations(Runs) \cup Permutations(Imports)

\* The canary and the first organization of the home instance are there in every
\* state, so reading them commutes with every other step: they are read first.
FixedReadFirst ==
  \A r \in Runs : runs'[r].pc = "reading" /\ runs[r].todo # runs'[r].todo =>
    LET fixed == {canary, a} \cap runs'[r].todo IN
    /\ {b, c} \cap runs[r].todo # {b, c} \cap runs'[r].todo => fixed = {}
    /\ canary \in fixed => a \in runs[r].todo \cap runs'[r].todo

\* An import reads immutable objects and writes a database of its own, so its
\* steps commute with those of the exports and the source.  The objects are all
\* it reads of them, and runs that die after their writes leave every such pair
\* of objects behind without a transition, an audit or a pointer: the imports
\* are explored from there, with the source at its last state.
ImportsLast ==
  (\E i \in Imports : imports'[i].pc # "idle") =>
    /\ UNCHANGED exportVars
    /\ \A r \in Runs : runs[r].pc \in {"idle", "ended"}
    /\ \A s \in Schedules : op[s] \in {"absent", "running"}
    /\ \A s \in Schedules : audits[s] = {}
    /\ expired = {}
    /\ instances = Instances /\ orgs[c] = "deleted"

Reduced == FixedReadFirst /\ ImportsLast
=============================================================================
