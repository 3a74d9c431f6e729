--------------------------- MODULE LocalMigration ---------------------------
(***************************************************************************)
(* `insecur projects migrate` (packages/cli, packages/local-store): the    *)
(* one-way move of a Local Mode project to a Hosted Instance.              *)
(*                                                                         *)
(* A machine has the committed config (.insecur.json: the host and the     *)
(* manifest of keys) and a SQLite store (project and environment rows,     *)
(* Secret Shapes, values).  A migrate reads the config, adopts its rows,   *)
(* takes a snapshot of the store and of the remote keys, classifies every  *)
(* key, writes and verifies what is absent, deletes the local project and  *)
(* flips the config last.  Between any two of these steps other commands   *)
(* of the machine, migrates of other machines and other users run, and the *)
(* process may die.                                                        *)
(***************************************************************************)
EXTENDS Naturals, FiniteSets

CONSTANTS
  Machines,     \* checkouts, each with the store of its machine
  Clients,      \* CLI processes
  Environments, \* the environments the config names
  Default,      \* its defaultEnvId, which migrate moves
  Keys,         \* Variable Keys
  MaxValue,     \* Sensitive Values are 1 .. MaxValue, 0 is none
  MaxWrites,    \* bound on the values set, locally or remotely
  MaxCrashes    \* bound on the processes that die

ASSUME MigrationAssumption ==
  /\ Default \in Environments
  /\ MaxValue \in Nat
  /\ MaxWrites \in Nat
  /\ MaxCrashes \in Nat

VARIABLES
  host,     \* config: "local" or "cloud"
  manifest, \* config: the keys of secretShapes
  adopted,  \* store: the environments with a row; the project has one iff any has
  shapes,   \* store: the keys with a Secret Shape
  local,    \* store: the current value per environment and key
  remote,   \* the Hosted Instance: the current value per key of Default
  jobs,     \* per CLI process, the command it runs
  owed,     \* history: per local value, what its user may not lose (0: nothing)
  seen,     \* history: per key, the values that have been current remotely
  writes, crashes

vars == <<host, manifest, adopted, shapes, local, remote, jobs, owed, seen, writes, crashes>>

-----------------------------------------------------------------------------
(* Types.                                                                  *)

Values == 0 .. MaxValue

Idle == [at |-> "idle"]

SetJobs == [at : {"set", "shape", "create", "append", "lost"}, machine : Machines,
            env : Environments, key : Keys, value : Values \ {0}, config : SUBSET Keys]

\* todo: not classified yet; held: with a local value; present: with a remote one.
MigrateJobs ==
  [at : {"migrate", "load", "presence", "reconcile", "flip"}, machine : Machines,
   config : SUBSET Keys, skips : SUBSET Keys, todo : SUBSET Keys, held : SUBSET Keys,
   present : SUBSET Keys, create : SUBSET Keys, unverified : SUBSET Keys, skipped : SUBSET Keys]

At(c, at) == jobs[c].at = at

\* c migrates m on a snapshot it has taken.
Migrating(c, m) == jobs[c].at \in {"presence", "reconcile"} /\ jobs[c].machine = m

NoLocal == [e \in Environments |-> [k \in Keys |-> 0]]

Init ==
  /\ host = [m \in Machines |-> "local"]
  /\ manifest \in [Machines -> SUBSET Keys]
  /\ adopted = [m \in Machines |-> {}]
  /\ shapes = [m \in Machines |-> {}]
  /\ local = [m \in Machines |-> NoLocal]
  /\ remote = [k \in Keys |-> 0]
  /\ jobs = [c \in Clients |-> Idle]
  /\ owed = [m \in Machines |-> NoLocal]
  /\ seen = [k \in Keys |-> {}]
  /\ writes = 0
  /\ crashes = 0

-----------------------------------------------------------------------------
(* Adoption: the rows the config names are created if they are missing.    *)
(* One that is interrupted leaves rows without values, and the next        *)
(* command completes it.                                                   *)

Adopt(m, e, config) ==
  /\ adopted' = [adopted EXCEPT ![m] = @ \cup {e}]
  /\ shapes' = [shapes EXCEPT ![m] = @ \cup config]

-----------------------------------------------------------------------------
(* secrets set in Local Mode.                                              *)

\* The CLI reads the config once, at its start.
BeginSet(c, m, e, k, v) ==
  /\ At(c, "idle") /\ host[m] = "local" /\ writes < MaxWrites
  /\ jobs' = [jobs EXCEPT ![c] = [at |-> "set", machine |-> m, env |-> e, key |-> k,
                                  value |-> v, config |-> manifest[m]]]
  /\ writes' = writes + 1
  /\ UNCHANGED <<host, manifest, adopted, shapes, local, remote, owed, seen, crashes>>

AdoptForSet(c) ==
  /\ At(c, "set")
  /\ Adopt(jobs[c].machine, jobs[c].env, jobs[c].config)
  /\ jobs' = [jobs EXCEPT ![c].at = "shape"]
  /\ UNCHANGED <<host, manifest, local, remote, owed, seen, writes, crashes>>

\* resolveOrCreateSecretShape: a key without a shape is first added to the manifest, and the
\* config is written back whole as it was read, with its host.
ResolveShape(c) ==
  LET m == jobs[c].machine
      known == jobs[c].key \in shapes[m]
      wanted == jobs[c].config \cup {jobs[c].key}
  IN /\ At(c, "shape") /\ jobs[c].env \in adopted[m]
     /\ jobs' = [jobs EXCEPT ![c].at = IF known THEN "append" ELSE "create"]
     /\ IF known \/ wanted = jobs[c].config
        THEN UNCHANGED <<host, manifest>>
        ELSE /\ host' = [host EXCEPT ![m] = "local"]
             /\ manifest' = [manifest EXCEPT ![m] = wanted]
     /\ UNCHANGED <<adopted, shapes, local, remote, owed, seen, writes, crashes>>

\* The shape of a new key is a statement of its own, which needs the project row.
UpsertShape(c) ==
  LET m == jobs[c].machine
  IN /\ At(c, "create") /\ adopted[m] # {}
     /\ shapes' = [shapes EXCEPT ![m] = @ \cup {jobs[c].key}]
     /\ jobs' = [jobs EXCEPT ![c].at = "append"]
     /\ UNCHANGED <<host, manifest, adopted, local, remote, owed, seen, writes, crashes>>

\* A value set while a migrate works on a snapshot of the store is not owed: nothing in the
\* code lets the migrate see it.
WriteValue(c) ==
  LET m == jobs[c].machine
      e == jobs[c].env
      k == jobs[c].key
  IN /\ At(c, "append") /\ e \in adopted[m]
     /\ local' = [local EXCEPT ![m][e][k] = jobs[c].value]
     /\ owed' = [owed EXCEPT ![m][e][k] =
                   IF \E d \in Clients : Migrating(d, m) THEN 0 ELSE jobs[c].value]
     /\ jobs' = [jobs EXCEPT ![c] = Idle]
     /\ UNCHANGED <<host, manifest, adopted, shapes, remote, seen, writes, crashes>>

-----------------------------------------------------------------------------
(* projects migrate.                                                       *)

BeginMigrate(c, m, skips) ==
  /\ At(c, "idle") /\ host[m] = "local"
  /\ jobs' = [jobs EXCEPT ![c] =
       [at |-> "migrate", machine |-> m, config |-> manifest[m], skips |-> skips, todo |-> {},
        held |-> {}, present |-> {}, create |-> {}, unverified |-> {}, skipped |-> {}]]
  /\ UNCHANGED <<host, manifest, adopted, shapes, local, remote, owed, seen, writes, crashes>>

AdoptForMigrate(c) ==
  /\ At(c, "migrate")
  /\ Adopt(jobs[c].machine, Default, jobs[c].config)
  /\ jobs' = [jobs EXCEPT ![c].at = "load"]
  /\ UNCHANGED <<host, manifest, local, remote, owed, seen, writes, crashes>>

\* loadLocalMigrateSnapshot and parseSkipKeys; the confirmation comes next.
LoadSnapshot(c) ==
  LET m == jobs[c].machine
  IN /\ At(c, "load") /\ adopted[m] # {} /\ jobs[c].skips \subseteq shapes[m]
     /\ jobs' = [jobs EXCEPT ![c].at = "presence",
                             ![c].todo = shapes[m],
                             ![c].held = {k \in shapes[m] : local[m][Default][k] # 0}]
     /\ UNCHANGED <<host, manifest, adopted, shapes, local, remote, owed, seen, writes, crashes>>

LoadPresence(c) ==
  /\ At(c, "presence")
  /\ jobs' = [jobs EXCEPT ![c].at = "reconcile", ![c].present = {k \in Keys : remote[k] # 0}]
  /\ UNCHANGED <<host, manifest, adopted, shapes, local, remote, owed, seen, writes, crashes>>

\* Secret Possession Check of c's candidate, which is read anew each time.
Candidate(c, k) == local[jobs[c].machine][Default][k]

\* Mutant of Possessed: every remote value passes for the candidate.
PossessedAnything(c, k) == Candidate(c, k) # 0 /\ remote[k] # 0

Possessed(c, k) == Candidate(c, k) # 0 /\ Candidate(c, k) = remote[k]

\* Mutant of RemoteOnly: a key must be on this machine to be migrated.
RemoteOnlyNever(c, k) == FALSE

RemoteOnly(c, k) == k \notin jobs[c].held /\ k \in jobs[c].present

Create(c, k) == k \in jobs[c].held \ jobs[c].present

Match(c, k) == k \in jobs[c].held \cap jobs[c].present /\ Possessed(c, k)

Skipped(c, k) ==
  /\ k \in jobs[c].held \cap jobs[c].present \cap jobs[c].skips
  /\ Candidate(c, k) # 0 /\ ~Possessed(c, k)

Classify(c, k) ==
  /\ At(c, "reconcile") /\ k \in jobs[c].todo
  /\ RemoteOnly(c, k) \/ Create(c, k) \/ Match(c, k) \/ Skipped(c, k)
  /\ jobs' = [jobs EXCEPT ![c].todo = @ \ {k},
                          ![c].create = IF Create(c, k) THEN @ \cup {k} ELSE @,
                          ![c].skipped = IF Skipped(c, k) THEN @ \cup {k} ELSE @]
  /\ UNCHANGED <<host, manifest, adopted, shapes, local, remote, owed, seen, writes, crashes>>

\* Mutant of Admitted: the write is sent without its guard.
AdmittedAlways(k) == TRUE

\* The server's guard ifCurrentVersionAbsent, evaluated under the lock of the secret.
Admitted(k) == remote[k] = 0

\* Classification is over and no write waits for its verification.
Writing(c) == At(c, "reconcile") /\ jobs[c].todo = {} /\ jobs[c].unverified = {}

WriteKey(c, k) ==
  /\ Writing(c) /\ k \in jobs[c].create /\ Candidate(c, k) # 0 /\ Admitted(k)
  /\ remote' = [remote EXCEPT ![k] = Candidate(c, k)]
  /\ seen' = [seen EXCEPT ![k] = @ \cup {Candidate(c, k)}]
  /\ jobs' = [jobs EXCEPT ![c].create = @ \ {k}, ![c].unverified = {k}]
  /\ UNCHANGED <<host, manifest, adopted, shapes, local, owed, writes, crashes>>

\* Somebody else's value came first: it converges only when it is the same.
ResolveConflict(c, k) ==
  /\ Writing(c) /\ k \in jobs[c].create /\ ~Admitted(k) /\ Possessed(c, k)
  /\ jobs' = [jobs EXCEPT ![c].create = @ \ {k}]
  /\ UNCHANGED <<host, manifest, adopted, shapes, local, remote, owed, seen, writes, crashes>>

VerifyKey(c, k) ==
  /\ At(c, "reconcile") /\ k \in jobs[c].unverified /\ Possessed(c, k)
  /\ jobs' = [jobs EXCEPT ![c].unverified = @ \ {k}]
  /\ UNCHANGED <<host, manifest, adopted, shapes, local, remote, owed, seen, writes, crashes>>

\* reconcileProjectToCloud has returned.
Reconciled(c) == At(c, "reconcile") /\ jobs[c].todo \cup jobs[c].create \cup jobs[c].unverified = {}

\* What the store holds for m once the delete of the project row has cascaded.
Erased(m) == NoLocal

\* A set of the machine that has resolved a shape before the delete fails on a foreign key, or,
\* when the project was adopted again, leaves a row under a Secret id without a shape: in
\* either case it ends without the value it was to set.
Overtaken(c, m) == {d \in Clients \ {c} : At(d, "append") /\ jobs[d].machine = m}

\* The audit event, which needs the rows it names, and the delete with its cascades.  Its user
\* has given up the values of the skipped keys.
DeleteProject(c) ==
  LET m == jobs[c].machine
  IN /\ Reconciled(c) /\ Default \in adopted[m]
     /\ adopted' = [adopted EXCEPT ![m] = {}]
     /\ shapes' = [shapes EXCEPT ![m] = {}]
     /\ local' = [local EXCEPT ![m] = Erased(m)]
     /\ owed' = [owed EXCEPT ![m][Default] =
                   [k \in Keys |-> IF k \in jobs[c].skipped THEN 0 ELSE @[k]]]
     /\ jobs' = [d \in Clients |-> IF d = c THEN [jobs[d] EXCEPT !.at = "flip"]
                                   ELSE IF d \in Overtaken(c, m)
                                        THEN [jobs[d] EXCEPT !.at = "lost"] ELSE jobs[d]]
     /\ UNCHANGED <<host, manifest, remote, seen, writes, crashes>>

\* The new config has no secretShapes.
FlipConfig(c) ==
  /\ At(c, "flip")
  /\ host' = [host EXCEPT ![jobs[c].machine] = "cloud"]
  /\ manifest' = [manifest EXCEPT ![jobs[c].machine] = {}]
  /\ jobs' = [jobs EXCEPT ![c] = Idle]
  /\ UNCHANGED <<adopted, shapes, local, remote, owed, seen, writes, crashes>>

-----------------------------------------------------------------------------
(* The ends of a command, and the rest of the world.                       *)

Unclassifiable(c, k) == ~(RemoteOnly(c, k) \/ Create(c, k) \/ Match(c, k) \/ Skipped(c, k))

Refused(c) ==
  \/ jobs[c].at \in {"shape", "append"} /\ jobs[c].env \notin adopted[jobs[c].machine]
  \/ At(c, "create") /\ adopted[jobs[c].machine] = {}
  \/ At(c, "lost")
  \/ /\ At(c, "load")
     /\ adopted[jobs[c].machine] = {} \/ ~(jobs[c].skips \subseteq shapes[jobs[c].machine])
  \/ At(c, "reconcile") /\ \E k \in jobs[c].todo : Unclassifiable(c, k)
  \/ Writing(c) /\ \E k \in jobs[c].create :
                     Candidate(c, k) = 0 \/ (~Admitted(k) /\ ~Possessed(c, k))
  \/ At(c, "reconcile") /\ \E k \in jobs[c].unverified : ~Possessed(c, k)
  \/ Reconciled(c) /\ Default \notin adopted[jobs[c].machine]

\* The command ends with an error and changes nothing more.
Refuse(c) ==
  /\ Refused(c)
  /\ jobs' = [jobs EXCEPT ![c] = Idle]
  /\ UNCHANGED <<host, manifest, adopted, shapes, local, remote, owed, seen, writes, crashes>>

\* The process dies, or a call to the API fails.
Crash(c) ==
  /\ ~At(c, "idle") /\ crashes < MaxCrashes
  /\ jobs' = [jobs EXCEPT ![c] = Idle]
  /\ crashes' = crashes + 1
  /\ UNCHANGED <<host, manifest, adopted, shapes, local, remote, owed, seen, writes>>

\* Another user of the Hosted Instance sets a value.
RemoteWrite(k, v) ==
  /\ writes < MaxWrites
  /\ remote' = [remote EXCEPT ![k] = v]
  /\ seen' = [seen EXCEPT ![k] = @ \cup {v}]
  /\ writes' = writes + 1
  /\ UNCHANGED <<host, manifest, adopted, shapes, local, jobs, owed, crashes>>

\* The next step of a command that has begun.
Step(c) ==
  \/ AdoptForSet(c) \/ ResolveShape(c) \/ UpsertShape(c) \/ WriteValue(c)
  \/ AdoptForMigrate(c) \/ LoadSnapshot(c) \/ LoadPresence(c)
  \/ \E k \in Keys : Classify(c, k) \/ WriteKey(c, k) \/ ResolveConflict(c, k) \/ VerifyKey(c, k)
  \/ DeleteProject(c) \/ FlipConfig(c)
  \/ Refuse(c)

Next ==
  \/ \E c \in Clients : Step(c) \/ Crash(c)
  \/ \E c \in Clients, m \in Machines, e \in Environments, k \in Keys, v \in Values \ {0} :
       BeginSet(c, m, e, k, v)
  \/ \E c \in Clients, m \in Machines, skips \in SUBSET Keys : BeginMigrate(c, m, skips)
  \/ \E k \in Keys, v \in Values \ {0} : RemoteWrite(k, v)

Spec == Init /\ [][Next]_vars

\* The user of m migrates with every key it knows on the skip list.
Retry(m) == \E c \in Clients : BeginMigrate(c, m, shapes[m] \cup manifest[m])

\* A command that has begun goes on, and the user of a machine migrates again and again: an
\* idle process comes and goes, hence strong fairness.
FairSpec ==
  /\ Spec
  /\ \A c \in Clients : WF_vars(Step(c))
  /\ \A m \in Machines : SF_vars(Retry(m))

-----------------------------------------------------------------------------
(* Properties.                                                             *)

\* Types, and what the foreign key of a value asks for: its environment row.
MigrateTypeOK ==
  /\ host \in [Machines -> {"local", "cloud"}]
  /\ manifest \in [Machines -> SUBSET Keys]
  /\ adopted \in [Machines -> SUBSET Environments]
  /\ shapes \in [Machines -> SUBSET Keys]
  /\ local \in [Machines -> [Environments -> [Keys -> Values]]]
  /\ remote \in [Keys -> Values]
  /\ jobs \in [Clients -> {Idle} \cup SetJobs \cup MigrateJobs]
  /\ owed \in [Machines -> [Environments -> [Keys -> Values]]]
  /\ seen \in [Keys -> SUBSET Values]
  /\ writes \in Nat /\ crashes \in Nat
  /\ \A m \in Machines, e \in Environments, k \in Keys :
       local[m][e][k] # 0 => e \in adopted[m]

\* The value of m that its user may not lose is still in the store, or has been current remotely.
Kept(m, e, k) == owed[m][e][k] # 0 => owed[m][e][k] \in {local[m][e][k]} \cup seen[k]

\* "migrate never reaches a state where a value exists nowhere": a value of the default
\* environment that was set before a migrate took its snapshot leaves the store only after it
\* has been current remotely, or after its user skipped the key, whatever other commands,
\* machines and users do meanwhile and wherever the migrate dies.
NothingIsLost == \A m \in Machines, k \in Keys : Kept(m, Default, k)

\* The same of every environment of the project, which is what ADR-0080 says: "local copies are
\* removed only after every value is proven present remotely".
EveryEnvironmentIsKept == \A m \in Machines, e \in Environments, k \in Keys : Kept(m, e, k)

\* "migrate never supersedes a remote value": a step of a command leaves every key that has a
\* remote value as it is, also a value that came after the migrate looked.
RemoteIsNeverOverwritten ==
  [][jobs' # jobs => \A k \in Keys : remote[k] # 0 => remote'[k] = remote[k]]_vars

\* Every key that the config or the store of m names has a value, here or remotely.
Valued(m) ==
  \A k \in manifest[m] \cup shapes[m] : remote[k] # 0 \/ local[m][Default][k] # 0

\* Re-runs converge: a machine whose keys have values ends up on the cloud host, although
\* processes die between the delete of the project and the flip of the config.
MigrationConverges ==
  \A m \in Machines : <>[]Valued(m) => []<>(host[m] = "cloud")
=============================================================================
