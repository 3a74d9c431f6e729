------------------------ MODULE LocalMigrationProofs ------------------------
(***************************************************************************)
(* Theorems about LocalMigration, for any machines, processes, keys and    *)
(* bounds.                                                                 *)
(*                                                                         *)
(* JobsCover is the argument: once a migrate has its snapshot, every value *)
(* of its machine that is owed and has not been remote is among the keys   *)
(* it has still to account for, or was skipped.  When none is left to      *)
(* account for, the local project may go.                                  *)
(***************************************************************************)
EXTENDS LocalMigration, TLAPS

\* What the user of m may not lose, and the Hosted Instance never had.
Pending(m, k) == owed[m][Default][k] # 0 /\ owed[m][Default][k] \notin seen[k]

RemoteIsSeen == \A k \in Keys : remote[k] # 0 => remote[k] \in seen[k]

\* What the migrate c has not accounted for, or passes over at its user's request.
Accountable(c) == jobs[c].todo \cup jobs[c].create \cup jobs[c].unverified \cup jobs[c].skipped

Covers(c) ==
  jobs[c].at \in {"presence", "reconcile"} =>
    \A k \in Keys : Pending(jobs[c].machine, k) => k \in jobs[c].held /\ k \in Accountable(c)

JobsCover == \A c \in Clients : Covers(c)

\* A value has its Secret Shape, and so has one that is about to be written.
ShapesHold ==
  /\ \A m \in Machines, e \in Environments, k \in Keys : local[m][e][k] # 0 => k \in shapes[m]
  /\ \A c \in Clients : At(c, "append") => jobs[c].key \in shapes[jobs[c].machine]

MigrationInv == MigrateTypeOK /\ RemoteIsSeen /\ NothingIsLost /\ JobsCover /\ ShapesHold

-----------------------------------------------------------------------------
(* Jobs.                                                                   *)

\* The stage a job is at tells what kind of job it is.
LEMMA JobKinds ==
  ASSUME NEW j \in {Idle} \cup SetJobs \cup MigrateJobs
  PROVE  /\ j.at \in {"set", "shape", "create", "append", "lost"} => j \in SetJobs
         /\ j.at \in {"migrate", "load", "presence", "reconcile", "flip"} => j \in MigrateJobs
BY DEF Idle, SetJobs, MigrateJobs

\* A set that moves to another stage of a set is a set.
LEMMA SetMoves ==
  ASSUME NEW j \in SetJobs, NEW at \in {"set", "shape", "create", "append", "lost"}
  PROVE  [j EXCEPT !.at = at] \in SetJobs
BY DEF SetJobs

-----------------------------------------------------------------------------
(* Types.                                                                  *)

\* A step that only ends or moves commands keeps the types when the new jobs have theirs.
LEMMA OnlyJobs ==
  ASSUME MigrateTypeOK, jobs' \in [Clients -> {Idle} \cup SetJobs \cup MigrateJobs],
         UNCHANGED <<host, manifest, adopted, shapes, local, remote, owed, seen, writes, crashes>>
  PROVE  MigrateTypeOK'
BY DEF MigrateTypeOK

\* Adoption adds rows, and adds them inside the types.
LEMMA AdoptTypes ==
  ASSUME MigrateTypeOK, NEW m \in Machines, NEW e \in Environments, NEW config \in SUBSET Keys,
         Adopt(m, e, config), UNCHANGED local
  PROVE  /\ adopted' \in [Machines -> SUBSET Environments]
         /\ shapes' \in [Machines -> SUBSET Keys]
         /\ \A n \in Machines, f \in Environments, k \in Keys :
              local'[n][f][k] # 0 => f \in adopted'[n]
BY DEF MigrateTypeOK, Adopt

\* Every step of a set keeps the types.
LEMMA SetTypes ==
  ASSUME MigrateTypeOK, NEW c \in Clients,
         AdoptForSet(c) \/ ResolveShape(c) \/ UpsertShape(c) \/ WriteValue(c)
  PROVE  MigrateTypeOK'
<1> DEFINE j == jobs[c]
<1>1. j \in SetJobs
  BY JobKinds DEF MigrateTypeOK, AdoptForSet, ResolveShape, UpsertShape, WriteValue, At
<1>2. CASE AdoptForSet(c)
  <2>1. jobs' \in [Clients -> {Idle} \cup SetJobs \cup MigrateJobs]
    BY <1>1, <1>2, SetMoves DEF MigrateTypeOK, AdoptForSet
  <2>2. j.machine \in Machines /\ j.env \in Environments /\ j.config \in SUBSET Keys
    BY <1>1 DEF SetJobs
  <2>3. Adopt(j.machine, j.env, j.config) /\ UNCHANGED local
    BY <1>2 DEF AdoptForSet
  <2>4. /\ adopted' \in [Machines -> SUBSET Environments]
        /\ shapes' \in [Machines -> SUBSET Keys]
        /\ \A n \in Machines, f \in Environments, k \in Keys :
             local'[n][f][k] # 0 => f \in adopted'[n]
    BY <2>2, <2>3, AdoptTypes
  <2> QED BY <1>2, <2>1, <2>4 DEF MigrateTypeOK, AdoptForSet
<1>3. CASE ResolveShape(c)
  <2>1. jobs' \in [Clients -> {Idle} \cup SetJobs \cup MigrateJobs]
    BY <1>1, <1>3, SetMoves DEF MigrateTypeOK, ResolveShape
  <2>2. j.machine \in Machines /\ j.key \in Keys /\ j.config \in SUBSET Keys
    BY <1>1 DEF SetJobs
  <2>3. host' \in [Machines -> {"local", "cloud"}] /\ manifest' \in [Machines -> SUBSET Keys]
    <3>1. CASE UNCHANGED <<host, manifest>>
      BY <3>1 DEF MigrateTypeOK
    <3>2. CASE /\ host' = [host EXCEPT ![j.machine] = "local"]
               /\ manifest' = [manifest EXCEPT ![j.machine] = j.config \cup {j.key}]
      <4>1. j.config \cup {j.key} \in SUBSET Keys
        BY <2>2
      <4> QED BY <3>2, <2>2, <4>1 DEF MigrateTypeOK
    <3> QED BY <1>3, <3>1, <3>2 DEF ResolveShape
  <2> QED BY <1>3, <2>1, <2>3 DEF MigrateTypeOK, ResolveShape
<1>4. CASE WriteValue(c)
  <2>1. /\ j.machine \in Machines /\ j.env \in Environments /\ j.key \in Keys
        /\ j.value \in Values /\ 0 \in Values
    BY <1>1, MigrationAssumption DEF SetJobs, Values
  <2>2. jobs' \in [Clients -> {Idle} \cup SetJobs \cup MigrateJobs]
    BY <1>4 DEF MigrateTypeOK, WriteValue
  <2>3. local' \in [Machines -> [Environments -> [Keys -> Values]]]
    BY <1>4, <2>1 DEF MigrateTypeOK, WriteValue
  <2>4. owed' \in [Machines -> [Environments -> [Keys -> Values]]]
    BY <1>4, <2>1 DEF MigrateTypeOK, WriteValue
  <2>5. \A m \in Machines, e \in Environments, k \in Keys :
          local'[m][e][k] # 0 => e \in adopted'[m]
    BY <1>4, <2>1 DEF MigrateTypeOK, WriteValue
  <2> QED BY <1>4, <2>2, <2>3, <2>4, <2>5 DEF MigrateTypeOK, WriteValue
<1>5. CASE UpsertShape(c)
  <2>1. j.machine \in Machines /\ j.key \in Keys
    BY <1>1 DEF SetJobs
  <2>2. jobs' \in [Clients -> {Idle} \cup SetJobs \cup MigrateJobs]
    BY <1>1, <1>5, SetMoves DEF MigrateTypeOK, UpsertShape
  <2>3. shapes' \in [Machines -> SUBSET Keys]
    BY <1>5, <2>1 DEF MigrateTypeOK, UpsertShape
  <2> QED BY <1>5, <2>2, <2>3 DEF MigrateTypeOK, UpsertShape
<1> QED BY <1>2, <1>3, <1>4, <1>5

\* Every step of a migrate before the delete keeps the types.
LEMMA MigrateTypes ==
  ASSUME MigrateTypeOK, NEW c \in Clients,
         \/ AdoptForMigrate(c) \/ LoadSnapshot(c) \/ LoadPresence(c)
         \/ \E k \in Keys : Classify(c, k) \/ WriteKey(c, k) \/ ResolveConflict(c, k)
                            \/ VerifyKey(c, k)
  PROVE  MigrateTypeOK'
<1> DEFINE j == jobs[c]
<1>1. j \in MigrateJobs
  BY JobKinds DEF MigrateTypeOK, AdoptForMigrate, LoadSnapshot, LoadPresence, Classify, WriteKey,
                  ResolveConflict, VerifyKey, Writing, At
<1>2. /\ j.machine \in Machines /\ j.config \in SUBSET Keys /\ j.todo \in SUBSET Keys
      /\ j.create \in SUBSET Keys /\ j.skipped \in SUBSET Keys /\ j.unverified \in SUBSET Keys
  BY <1>1 DEF MigrateJobs
<1>3. Default \in Environments
  BY MigrationAssumption
<1>4. CASE AdoptForMigrate(c)
  <2>1. jobs' \in [Clients -> {Idle} \cup SetJobs \cup MigrateJobs]
    BY <1>1, <1>4 DEF MigrateTypeOK, AdoptForMigrate, MigrateJobs
  <2>2. Adopt(j.machine, Default, j.config) /\ UNCHANGED local
    BY <1>4 DEF AdoptForMigrate
  <2>3. /\ adopted' \in [Machines -> SUBSET Environments]
        /\ shapes' \in [Machines -> SUBSET Keys]
        /\ \A n \in Machines, f \in Environments, k \in Keys :
             local'[n][f][k] # 0 => f \in adopted'[n]
    BY <1>2, <1>3, <2>2, AdoptTypes
  <2> QED BY <1>4, <2>1, <2>3 DEF MigrateTypeOK, AdoptForMigrate
<1>5. CASE LoadSnapshot(c)
  <2>1. shapes[j.machine] \in SUBSET Keys
    BY <1>2 DEF MigrateTypeOK
  <2>2. {k \in shapes[j.machine] : local[j.machine][Default][k] # 0} \in SUBSET Keys
    BY <2>1
  <2>3. jobs' \in [Clients -> {Idle} \cup SetJobs \cup MigrateJobs]
    BY <1>1, <1>5, <2>1, <2>2 DEF MigrateTypeOK, LoadSnapshot, MigrateJobs
  <2> QED BY <1>5, <2>3, OnlyJobs DEF LoadSnapshot
<1>6. CASE LoadPresence(c)
  <2>1. jobs' \in [Clients -> {Idle} \cup SetJobs \cup MigrateJobs]
    BY <1>1, <1>6 DEF MigrateTypeOK, LoadPresence, MigrateJobs
  <2> QED BY <1>6, <2>1, OnlyJobs DEF LoadPresence
<1>7. ASSUME NEW k \in Keys, Classify(c, k)
      PROVE  MigrateTypeOK'
  <2>1. jobs' \in [Clients -> {Idle} \cup SetJobs \cup MigrateJobs]
    <3> DEFINE create == IF Create(c, k) THEN j.create \cup {k} ELSE j.create
               skipped == IF Skipped(c, k) THEN j.skipped \cup {k} ELSE j.skipped
               next == [j EXCEPT !.todo = j.todo \ {k}, !.create = create, !.skipped = skipped]
    <3>1. jobs' = [jobs EXCEPT ![c] = next]
      BY <1>7 DEF Classify
    <3>2. create \in SUBSET Keys /\ skipped \in SUBSET Keys /\ j.todo \ {k} \in SUBSET Keys
      BY <1>2, <1>7
    <3> HIDE DEF create, skipped
    <3>3. next \in MigrateJobs
      BY <1>1, <3>2 DEF MigrateJobs
    <3> QED BY <3>1, <3>3 DEF MigrateTypeOK
  <2> QED BY <1>7, <2>1, OnlyJobs DEF Classify
<1>8. ASSUME NEW k \in Keys, WriteKey(c, k)
      PROVE  MigrateTypeOK'
  <2>1. Candidate(c, k) \in Values
    BY <1>2, <1>3 DEF MigrateTypeOK, Candidate
  <2>2. jobs' \in [Clients -> {Idle} \cup SetJobs \cup MigrateJobs]
    <3>1. jobs' = [jobs EXCEPT ![c] = [j EXCEPT !.create = j.create \ {k}, !.unverified = {k}]]
      BY <1>8 DEF WriteKey
    <3>2. j.create \ {k} \in SUBSET Keys /\ {k} \in SUBSET Keys
      BY <1>2
    <3>3. [j EXCEPT !.create = j.create \ {k}, !.unverified = {k}] \in MigrateJobs
      BY <1>1, <3>2 DEF MigrateJobs
    <3> QED BY <3>1, <3>3 DEF MigrateTypeOK
  <2>3. remote' \in [Keys -> Values]
    BY <1>8, <2>1 DEF MigrateTypeOK, WriteKey
  <2>4. seen' \in [Keys -> SUBSET Values]
    BY <1>8, <2>1 DEF MigrateTypeOK, WriteKey
  <2> QED BY <1>8, <2>2, <2>3, <2>4 DEF MigrateTypeOK, WriteKey
<1>9. ASSUME NEW k \in Keys, ResolveConflict(c, k)
      PROVE  MigrateTypeOK'
  <2>1. jobs' \in [Clients -> {Idle} \cup SetJobs \cup MigrateJobs]
    BY <1>1, <1>9 DEF MigrateTypeOK, ResolveConflict, MigrateJobs
  <2> QED BY <1>9, <2>1, OnlyJobs DEF ResolveConflict
<1>10. ASSUME NEW k \in Keys, VerifyKey(c, k)
       PROVE  MigrateTypeOK'
  <2>1. jobs' \in [Clients -> {Idle} \cup SetJobs \cup MigrateJobs]
    BY <1>1, <1>10 DEF MigrateTypeOK, VerifyKey, MigrateJobs
  <2> QED BY <1>10, <2>1, OnlyJobs DEF VerifyKey
<1> QED BY <1>4, <1>5, <1>6, <1>7, <1>8, <1>9, <1>10

\* What DeleteProject does to the jobs: its own moves on, those it overtakes are lost.
LEMMA DeleteJobs ==
  ASSUME MigrateTypeOK, NEW c \in Clients, DeleteProject(c)
  PROVE  /\ jobs' \in [Clients -> {Idle} \cup SetJobs \cup MigrateJobs]
         /\ jobs'[c].at = "flip"
         /\ \A d \in Clients \ {c} :
              jobs'[d] = jobs[d] \/ (At(d, "append") /\ jobs'[d].at = "lost")
<1>1. jobs[c] \in MigrateJobs
  BY JobKinds DEF MigrateTypeOK, DeleteProject, Reconciled, At
<1>2. [jobs[c] EXCEPT !.at = "flip"] \in MigrateJobs /\ [jobs[c] EXCEPT !.at = "flip"].at = "flip"
  BY <1>1 DEF MigrateJobs
<1>3. \A d \in Overtaken(c, jobs[c].machine) :
        /\ [jobs[d] EXCEPT !.at = "lost"] \in SetJobs
        /\ [jobs[d] EXCEPT !.at = "lost"].at = "lost"
        /\ At(d, "append")
  <2> SUFFICES ASSUME NEW d \in Overtaken(c, jobs[c].machine)
               PROVE  /\ [jobs[d] EXCEPT !.at = "lost"] \in SetJobs
                      /\ [jobs[d] EXCEPT !.at = "lost"].at = "lost"
                      /\ At(d, "append")
    OBVIOUS
  <2>1. d \in Clients /\ At(d, "append")
    BY DEF Overtaken
  <2>2. jobs[d] \in SetJobs
    BY <2>1, JobKinds DEF MigrateTypeOK, At
  <2> QED BY <2>1, <2>2 DEF SetJobs
<1>4. jobs' = [d \in Clients |-> IF d = c THEN [jobs[d] EXCEPT !.at = "flip"]
                                 ELSE IF d \in Overtaken(c, jobs[c].machine)
                                      THEN [jobs[d] EXCEPT !.at = "lost"] ELSE jobs[d]]
  BY DEF DeleteProject
<1> QED BY <1>2, <1>3, <1>4 DEF MigrateTypeOK

\* The delete, the flip, the end of a command and the other users keep the types.
LEMMA EndTypes ==
  ASSUME MigrateTypeOK, NEW c \in Clients,
         DeleteProject(c) \/ FlipConfig(c) \/ Refuse(c) \/ Crash(c)
  PROVE  MigrateTypeOK'
<1> DEFINE j == jobs[c]
<1>1. CASE DeleteProject(c)
  <2>1. j \in MigrateJobs
    BY <1>1, JobKinds DEF MigrateTypeOK, DeleteProject, Reconciled, At
  <2>2. j.machine \in Machines /\ Default \in Environments /\ 0 \in Values
    BY <2>1, MigrationAssumption DEF MigrateJobs, Values
  <2>3. jobs' \in [Clients -> {Idle} \cup SetJobs \cup MigrateJobs]
    BY <1>1, DeleteJobs
  <2>4. NoLocal \in [Environments -> [Keys -> Values]]
    BY <2>2 DEF NoLocal
  <2>5. local' \in [Machines -> [Environments -> [Keys -> Values]]]
    BY <1>1, <2>2, <2>4 DEF MigrateTypeOK, DeleteProject, Erased
  <2>6. owed' \in [Machines -> [Environments -> [Keys -> Values]]]
    BY <1>1, <2>2 DEF MigrateTypeOK, DeleteProject
  <2>7. /\ adopted' \in [Machines -> SUBSET Environments] /\ shapes' \in [Machines -> SUBSET Keys]
    BY <1>1, <2>2 DEF MigrateTypeOK, DeleteProject
  <2>8. \A m \in Machines, e \in Environments, k \in Keys :
          local'[m][e][k] # 0 => e \in adopted'[m]
    BY <1>1, <2>2 DEF MigrateTypeOK, DeleteProject, Erased, NoLocal
  <2> QED BY <1>1, <2>3, <2>5, <2>6, <2>7, <2>8 DEF MigrateTypeOK, DeleteProject
<1>2. CASE FlipConfig(c)
  <2>1. j \in MigrateJobs
    BY <1>2, JobKinds DEF MigrateTypeOK, FlipConfig, At
  <2>2. j.machine \in Machines
    BY <2>1 DEF MigrateJobs
  <2> QED BY <1>2, <2>2 DEF MigrateTypeOK, FlipConfig
<1>3. CASE Refuse(c)
  BY <1>3, OnlyJobs DEF MigrateTypeOK, Refuse
<1>4. CASE Crash(c)
  BY <1>4 DEF MigrateTypeOK, Crash
<1> QED BY <1>1, <1>2, <1>3, <1>4

-----------------------------------------------------------------------------
(* What is owed.                                                           *)

\* A value is kept exactly when, as long as it is pending, it is the local one.
LEMMA KeptMeansLocal ==
  ASSUME NEW m \in Machines, NEW k \in Keys
  PROVE  Kept(m, Default, k) <=> (Pending(m, k) => local[m][Default][k] = owed[m][Default][k])
BY DEF Kept, Pending

\* What is pending stays so or is settled.
Shrinks ==
  \A m \in Machines, k \in Keys :
    owed'[m][Default][k] # 0 /\ owed'[m][Default][k] \notin seen'[k]
      => Pending(m, k) /\ owed'[m][Default][k] = owed[m][Default][k]

\* A process whose job is left alone, or is at no stage that covers anything, covers.
LEMMA StillCovers ==
  ASSUME MigrateTypeOK, JobsCover, Shrinks, NEW d \in Clients,
         jobs'[d] = jobs[d] \/ jobs'[d].at \notin {"presence", "reconcile"}
  PROVE  Covers(d)'
<1>1. CASE jobs'[d].at \notin {"presence", "reconcile"}
  BY <1>1 DEF Covers
<1>2. CASE jobs'[d] = jobs[d] /\ jobs[d].at \in {"presence", "reconcile"}
  <2>1. jobs[d].machine \in Machines
    BY <1>2, JobKinds DEF MigrateTypeOK, MigrateJobs
  <2>2. \A k \in Keys : Pending(jobs[d].machine, k) => k \in jobs[d].held /\ k \in Accountable(d)
    BY <1>2 DEF JobsCover, Covers
  <2>3. \A k \in Keys : Pending(jobs[d].machine, k)' => Pending(jobs[d].machine, k)
    BY <1>2, <2>1 DEF Shrinks, Pending
  <2> QED BY <1>2, <2>2, <2>3 DEF Covers, Accountable
<1> QED BY <1>1, <1>2

\* A step that leaves the values, here and remotely, and what is owed alone keeps all but its
\* own job's part of the invariant.
LEMMA QuietStep ==
  ASSUME MigrationInv, UNCHANGED <<local, remote, owed, seen>>, NEW c \in Clients,
         \A d \in Clients \ {c} : jobs'[d] = jobs[d], Covers(c)'
  PROVE  RemoteIsSeen' /\ NothingIsLost' /\ JobsCover'
<1>1. Shrinks
  BY DEF Shrinks, Pending
<1>2. RemoteIsSeen' /\ NothingIsLost'
  BY DEF MigrationInv, RemoteIsSeen, NothingIsLost, Kept
<1>3. \A d \in Clients \ {c} : Covers(d)'
  BY <1>1, StillCovers DEF MigrationInv
<1> QED BY <1>2, <1>3 DEF JobsCover

\* Beginning a command, ending one, and the steps of a set before it writes.
LEMMA QuietSteps ==
  ASSUME MigrationInv, UNCHANGED <<local, remote, owed, seen>>, NEW c \in Clients,
         NEW job, job.at \notin {"presence", "reconcile"}, jobs' = [jobs EXCEPT ![c] = job]
  PROVE  RemoteIsSeen' /\ NothingIsLost' /\ JobsCover'
<1>1. jobs'[c].at \notin {"presence", "reconcile"} /\ \A d \in Clients \ {c} : jobs'[d] = jobs[d]
  BY DEF MigrationInv, MigrateTypeOK
<1>2. Covers(c)'
  BY <1>1 DEF Covers
<1> QED BY <1>1, <1>2, QuietStep

\* A value that is set while no migrate has a snapshot is owed and local; one that is set
\* while some migrate has one is not owed.
LEMMA WriteKeeps ==
  ASSUME MigrationInv, NEW c \in Clients, WriteValue(c)
  PROVE  RemoteIsSeen' /\ NothingIsLost' /\ JobsCover'
<1> DEFINE m == jobs[c].machine
           e == jobs[c].env
           k == jobs[c].key
<1>1. jobs[c] \in SetJobs
  BY JobKinds DEF MigrationInv, MigrateTypeOK, WriteValue, At
<1>2. m \in Machines /\ e \in Environments /\ k \in Keys /\ jobs[c].value # 0
  BY <1>1 DEF SetJobs
<1>3. RemoteIsSeen'
  BY DEF MigrationInv, RemoteIsSeen, WriteValue
<1>4. ASSUME NEW n \in Machines, NEW l \in Keys
      PROVE  /\ Kept(n, Default, l)'
             /\ (\E d \in Clients : Migrating(d, n)) /\ Pending(n, l)' => Pending(n, l)
  <2>1. Kept(n, Default, l) /\ seen' = seen
    BY DEF MigrationInv, NothingIsLost, WriteValue
  <2>2. CASE n = m /\ e = Default /\ l = k
    <3>1. local'[n][Default][l] = jobs[c].value
      BY <1>2, <2>2 DEF MigrationInv, MigrateTypeOK, WriteValue
    <3>2. owed'[n][Default][l] = IF \E d \in Clients : Migrating(d, n) THEN 0 ELSE jobs[c].value
      BY <1>2, <2>2 DEF MigrationInv, MigrateTypeOK, WriteValue
    <3> QED BY <3>1, <3>2 DEF Kept, Pending
  <2>3. CASE ~(n = m /\ e = Default /\ l = k)
    <3>1. Default \in Environments
      BY MigrationAssumption
    <3>2. local'[n][Default][l] = local[n][Default][l] /\ owed'[n][Default][l] = owed[n][Default][l]
      BY <1>2, <2>3, <3>1 DEF MigrationInv, MigrateTypeOK, WriteValue
    <3> QED BY <2>1, <3>2 DEF Kept, Pending
  <2> QED BY <2>2, <2>3
<1>5. ASSUME NEW d \in Clients
      PROVE  Covers(d)'
  <2>1. CASE d = c
    BY <2>1, <1>1 DEF MigrationInv, MigrateTypeOK, WriteValue, Covers, Idle
  <2>2. CASE d # c /\ jobs[d].at \in {"presence", "reconcile"}
    <3>1. jobs'[d] = jobs[d] /\ jobs[d].machine \in Machines
      BY <2>2, JobKinds DEF MigrationInv, MigrateTypeOK, WriteValue, MigrateJobs
    <3>2. Migrating(d, jobs[d].machine)
      BY <2>2 DEF Migrating
    <3>3. \A l \in Keys : Pending(jobs[d].machine, l)' => Pending(jobs[d].machine, l)
      BY <3>1, <3>2, <1>4 DEF Pending
    <3> QED BY <2>2, <3>1, <3>3 DEF MigrationInv, JobsCover, Covers, Accountable
  <2>3. CASE d # c /\ jobs[d].at \notin {"presence", "reconcile"}
    BY <2>3 DEF MigrationInv, MigrateTypeOK, WriteValue, Covers
  <2> QED BY <2>1, <2>2, <2>3
<1> QED BY <1>3, <1>4, <1>5 DEF NothingIsLost, JobsCover

\* A value that becomes current remotely settles what was pending of its key.
LEMMA RemoteKeeps ==
  ASSUME MigrationInv, NEW k \in Keys, NEW v \in Values, UNCHANGED <<local, owed>>,
         remote' = [remote EXCEPT ![k] = v], seen' = [seen EXCEPT ![k] = @ \cup {v}]
  PROVE  /\ RemoteIsSeen' /\ NothingIsLost' /\ Shrinks
         /\ \A m \in Machines : local[m][Default][k] = v => ~Pending(m, k)'
<1>1. \A l \in Keys : seen[l] \subseteq seen'[l]
  BY DEF MigrationInv, MigrateTypeOK
<1>2. v \in seen'[k]
  BY DEF MigrationInv, MigrateTypeOK
<1>3. RemoteIsSeen'
  BY <1>1, <1>2 DEF MigrationInv, RemoteIsSeen, MigrateTypeOK
<1>4. Shrinks
  BY <1>1 DEF Shrinks, Pending
<1>5. NothingIsLost'
  BY <1>1 DEF MigrationInv, NothingIsLost, Kept
<1>6. ASSUME NEW m \in Machines, local[m][Default][k] = v
      PROVE  ~Pending(m, k)'
  BY <1>2, <1>5, <1>6 DEF NothingIsLost, Kept, Pending
<1> QED BY <1>3, <1>4, <1>5, <1>6

\* The snapshot of the store finds every pending value: it is the local one.
LEMMA SnapshotCovers ==
  ASSUME MigrationInv, NEW c \in Clients, LoadSnapshot(c)
  PROVE  RemoteIsSeen' /\ NothingIsLost' /\ JobsCover'
<1> DEFINE m == jobs[c].machine
           held == {k \in shapes[m] : local[m][Default][k] # 0}
<1>1. jobs[c] \in MigrateJobs
  BY JobKinds DEF MigrationInv, MigrateTypeOK, LoadSnapshot, At
<1>2. m \in Machines /\ Default \in Environments
  BY <1>1, MigrationAssumption DEF MigrateJobs
<1>3. /\ jobs'[c].machine = m /\ jobs'[c].todo = shapes[m] /\ jobs'[c].held = held
      /\ \A d \in Clients \ {c} : jobs'[d] = jobs[d]
  BY <1>1 DEF MigrationInv, MigrateTypeOK, LoadSnapshot, MigrateJobs
<1>4. ASSUME NEW k \in Keys, Pending(m, k)
      PROVE  k \in held
  <2>1. local[m][Default][k] # 0
    BY <1>2, <1>4 DEF MigrationInv, NothingIsLost, Kept, Pending
  <2> QED BY <1>2, <2>1 DEF MigrationInv, ShapesHold
<1>5. Covers(c)'
  BY <1>3, <1>4 DEF Covers, Accountable, Pending, LoadSnapshot
<1> QED BY <1>3, <1>5, QuietStep DEF LoadSnapshot

\* A key leaves the classification to be written, to be skipped, or because the value is remote.
LEMMA ClassifyCovers ==
  ASSUME MigrationInv, NEW c \in Clients, NEW k \in Keys, Classify(c, k)
  PROVE  RemoteIsSeen' /\ NothingIsLost' /\ JobsCover'
<1> DEFINE m == jobs[c].machine
<1>1. jobs[c] \in MigrateJobs
  BY JobKinds DEF MigrationInv, MigrateTypeOK, Classify, At
<1>2. m \in Machines
  BY <1>1 DEF MigrateJobs
<1>3. /\ jobs'[c].at = jobs[c].at /\ jobs'[c].machine = m /\ jobs'[c].held = jobs[c].held
      /\ jobs'[c].todo = jobs[c].todo \ {k} /\ jobs'[c].unverified = jobs[c].unverified
      /\ jobs[c].create \subseteq jobs'[c].create /\ jobs[c].skipped \subseteq jobs'[c].skipped
      /\ Create(c, k) => k \in jobs'[c].create
      /\ Skipped(c, k) => k \in jobs'[c].skipped
      /\ \A d \in Clients \ {c} : jobs'[d] = jobs[d]
  BY <1>1 DEF MigrationInv, MigrateTypeOK, Classify, MigrateJobs
<1>4. \A l \in Keys : Pending(m, l) => l \in jobs[c].held /\ l \in Accountable(c)
  BY DEF MigrationInv, JobsCover, Covers, Classify, At
<1>5. ASSUME Match(c, k)
      PROVE  ~Pending(m, k)
  <2>1. local[m][Default][k] # 0 /\ local[m][Default][k] \in seen[k]
    BY <1>5 DEF Match, Possessed, Candidate, MigrationInv, RemoteIsSeen
  <2> QED BY <1>2, <2>1 DEF MigrationInv, NothingIsLost, Kept, Pending
<1>6. Pending(m, k) => Create(c, k) \/ Skipped(c, k)
  BY <1>4, <1>5 DEF Classify, RemoteOnly
<1>7. \A l \in Keys : Pending(m, l) => l \in jobs'[c].held /\ l \in Accountable(c)'
  BY <1>3, <1>4, <1>6 DEF Accountable
<1>8. Covers(c)'
  BY <1>3, <1>7 DEF Covers, Accountable, Pending, Classify
<1> QED BY <1>3, <1>8, QuietStep DEF Classify

\* A key that is written, or whose value somebody else wrote, is not pending any more.
LEMMA WritingCovers ==
  ASSUME MigrationInv, NEW c \in Clients, NEW k \in Keys,
         WriteKey(c, k) \/ ResolveConflict(c, k) \/ VerifyKey(c, k)
  PROVE  RemoteIsSeen' /\ NothingIsLost' /\ JobsCover'
<1> DEFINE m == jobs[c].machine
<1>1. At(c, "reconcile") /\ jobs[c] \in MigrateJobs
  BY JobKinds DEF MigrationInv, MigrateTypeOK, WriteKey, ResolveConflict, VerifyKey, Writing, At
<1>2. m \in Machines /\ Default \in Environments
  BY <1>1, MigrationAssumption DEF MigrateJobs
<1>3. \A l \in Keys : Pending(m, l) => l \in jobs[c].held /\ l \in Accountable(c)
  BY <1>1 DEF MigrationInv, JobsCover, Covers, At
<1>4. /\ jobs'[c].at = "reconcile" /\ jobs'[c].machine = m /\ jobs'[c].held = jobs[c].held
      /\ jobs'[c].todo = jobs[c].todo /\ jobs'[c].skipped = jobs[c].skipped
      /\ jobs[c].create \ {k} \subseteq jobs'[c].create
      /\ \A d \in Clients \ {c} : jobs'[d] = jobs[d]
  BY <1>1 DEF MigrationInv, MigrateTypeOK, WriteKey, ResolveConflict, VerifyKey, MigrateJobs, At
<1>5. CASE WriteKey(c, k)
  <2> DEFINE v == local[m][Default][k]
  <2>1. v \in Values /\ UNCHANGED <<local, owed>>
        /\ remote' = [remote EXCEPT ![k] = v] /\ seen' = [seen EXCEPT ![k] = @ \cup {v}]
    BY <1>2, <1>5 DEF MigrationInv, MigrateTypeOK, WriteKey, Candidate
  <2>2. RemoteIsSeen' /\ NothingIsLost' /\ Shrinks /\ ~Pending(m, k)'
    <3>1. /\ RemoteIsSeen' /\ NothingIsLost' /\ Shrinks
          /\ \A n \in Machines : local[n][Default][k] = v => ~Pending(n, k)'
      BY <2>1, RemoteKeeps
    <3> QED BY <1>2, <1>4, <3>1 DEF Pending
  <2>3. jobs[c].unverified = {} /\ jobs'[c].unverified = {k}
    BY <1>1, <1>5 DEF MigrationInv, MigrateTypeOK, WriteKey, Writing, MigrateJobs
  <2>4. \A l \in Keys : Pending(m, l)' => l \in jobs'[c].held /\ l \in Accountable(c)'
    BY <1>2, <1>3, <1>4, <2>2, <2>3 DEF Shrinks, Pending, Accountable
  <2>5. Covers(c)'
    BY <1>4, <2>4 DEF Covers, Pending, Accountable
  <2>6. \A d \in Clients \ {c} : Covers(d)'
    BY <1>4, <2>2, StillCovers DEF MigrationInv
  <2> QED BY <2>2, <2>5, <2>6 DEF JobsCover
<1>6. CASE ResolveConflict(c, k) \/ VerifyKey(c, k)
  <2>1. UNCHANGED <<local, remote, owed, seen>> /\ Possessed(c, k)
    BY <1>6 DEF ResolveConflict, VerifyKey
  <2>2. jobs[c].unverified \ {k} \subseteq jobs'[c].unverified
    <3>1. CASE ResolveConflict(c, k)
      BY <1>1, <3>1 DEF MigrationInv, MigrateTypeOK, ResolveConflict, MigrateJobs
    <3>2. CASE VerifyKey(c, k)
      BY <1>1, <3>2 DEF MigrationInv, MigrateTypeOK, VerifyKey, MigrateJobs
    <3> QED BY <1>6, <3>1, <3>2
  <2>3. local[m][Default][k] # 0 /\ local[m][Default][k] \in seen[k]
    BY <2>1 DEF Possessed, Candidate, MigrationInv, RemoteIsSeen
  <2>4. ~Pending(m, k)
    BY <1>2, <2>3 DEF MigrationInv, NothingIsLost, Kept, Pending
  <2>5. \A l \in Keys : Pending(m, l) => l \in jobs'[c].held /\ l \in Accountable(c)'
    BY <1>3, <1>4, <2>2, <2>4 DEF Accountable
  <2>6. Covers(c)'
    BY <1>4, <2>1, <2>5 DEF Covers, Pending, Accountable
  <2> QED BY <1>4, <2>1, <2>6, QuietStep
<1> QED BY <1>5, <1>6

\* When every key is accounted for, the store holds nothing pending but what was skipped.
LEMMA DeleteKeeps ==
  ASSUME MigrationInv, NEW c \in Clients, DeleteProject(c)
  PROVE  RemoteIsSeen' /\ NothingIsLost' /\ JobsCover'
<1> DEFINE m == jobs[c].machine
<1>1. At(c, "reconcile") /\ jobs[c] \in MigrateJobs
  BY JobKinds DEF MigrationInv, MigrateTypeOK, DeleteProject, Reconciled, At
<1>2. m \in Machines /\ Default \in Environments
  BY <1>1, MigrationAssumption DEF MigrateJobs
<1>3. UNCHANGED <<remote, seen>>
  BY DEF DeleteProject
<1>4. \A k \in Keys : Pending(m, k) => k \in jobs[c].skipped
  BY <1>1 DEF MigrationInv, JobsCover, Covers, At, Accountable, DeleteProject, Reconciled
<1>5. \A k \in Keys :
        owed'[m][Default][k] = IF k \in jobs[c].skipped THEN 0 ELSE owed[m][Default][k]
  BY <1>2 DEF MigrationInv, MigrateTypeOK, DeleteProject
<1>6. \A n \in Machines \ {m}, k \in Keys :
        owed'[n][Default][k] = owed[n][Default][k] /\ local'[n][Default][k] = local[n][Default][k]
  BY <1>2 DEF MigrationInv, MigrateTypeOK, DeleteProject
<1>7. \A n \in Machines, k \in Keys : n = m => ~Pending(n, k)'
  BY <1>3, <1>4, <1>5 DEF Pending
<1>8. ASSUME NEW n \in Machines, NEW k \in Keys
      PROVE  Kept(n, Default, k)'
  <2>1. CASE n = m
    BY <1>7, <2>1 DEF Kept, Pending
  <2>2. CASE n # m
    BY <1>3, <1>6, <2>2 DEF MigrationInv, NothingIsLost, Kept
  <2> QED BY <2>1, <2>2
<1>9. Shrinks
  BY <1>3, <1>6, <1>7 DEF Shrinks, Pending
<1>10. \A d \in Clients : Covers(d)'
  BY <1>9, DeleteJobs, StillCovers DEF MigrationInv
<1> QED BY <1>3, <1>8, <1>10 DEF MigrationInv, RemoteIsSeen, NothingIsLost, JobsCover

-----------------------------------------------------------------------------
(* Values and their Secret Shapes.                                         *)

\* A step of one process that takes no shape away and adds no value keeps the shapes, when
\* the process has the one it is about to write under.
LEMMA ShapesGrow ==
  ASSUME MigrateTypeOK, ShapesHold, NEW c \in Clients, UNCHANGED local,
         \A m \in Machines : shapes[m] \subseteq shapes'[m],
         \A d \in Clients \ {c} : jobs'[d] = jobs[d],
         At(c, "append")' => jobs'[c].key \in shapes'[jobs'[c].machine]
  PROVE  ShapesHold'
<1>1. \A d \in Clients \ {c} : At(d, "append")' => jobs'[d].key \in shapes'[jobs'[d].machine]
  <2> SUFFICES ASSUME NEW d \in Clients \ {c}, At(d, "append")
               PROVE  jobs[d].key \in shapes'[jobs[d].machine]
    BY DEF At
  <2>1. jobs[d].machine \in Machines
    BY JobKinds DEF MigrateTypeOK, At, SetJobs
  <2> QED BY <2>1 DEF ShapesHold
<1> QED BY <1>1 DEF ShapesHold

\* A step that changes no row, and moves no process to where it writes a value.
LEMMA ShapesStay ==
  ASSUME MigrateTypeOK, ShapesHold, NEW c \in Clients, UNCHANGED <<local, shapes>>,
         \A d \in Clients \ {c} : jobs'[d] = jobs[d], jobs'[c].at # "append"
  PROVE  ShapesHold'
BY ShapesGrow DEF At

\* A set and an adoption add shapes, and a set writes only under one.
LEMMA SetKeepsShapes ==
  ASSUME MigrateTypeOK, ShapesHold, NEW c \in Clients,
         AdoptForSet(c) \/ ResolveShape(c) \/ UpsertShape(c) \/ WriteValue(c) \/ AdoptForMigrate(c)
  PROVE  ShapesHold'
<1> DEFINE j == jobs[c]
<1>1. j \in SetJobs \cup MigrateJobs /\ j.machine \in Machines
  BY JobKinds DEF MigrateTypeOK, AdoptForSet, ResolveShape, UpsertShape, WriteValue,
                  AdoptForMigrate, At, SetJobs, MigrateJobs
<1>2. \A d \in Clients \ {c} : jobs'[d] = jobs[d]
  BY DEF MigrateTypeOK, AdoptForSet, ResolveShape, UpsertShape, WriteValue, AdoptForMigrate
<1>3. CASE AdoptForSet(c) \/ AdoptForMigrate(c)
  <2>1. \A m \in Machines : shapes[m] \subseteq shapes'[m]
    <3>1. shapes' = [shapes EXCEPT ![j.machine] = @ \cup j.config]
      BY <1>3 DEF AdoptForSet, AdoptForMigrate, Adopt
    <3> QED BY <1>1, <3>1 DEF MigrateTypeOK
  <2>2. jobs'[c].at # "append"
    BY <1>1, <1>3 DEF MigrateTypeOK, AdoptForSet, AdoptForMigrate, SetJobs, MigrateJobs
  <2> QED BY <1>2, <1>3, <2>1, <2>2, ShapesGrow DEF AdoptForSet, AdoptForMigrate, At
<1>4. CASE ResolveShape(c)
  <2>1. j \in SetJobs
    BY <1>4, JobKinds DEF MigrateTypeOK, ResolveShape, At
  <2>2. /\ jobs'[c].key = j.key /\ jobs'[c].machine = j.machine
        /\ jobs'[c].at = "append" => j.key \in shapes[j.machine]
    BY <1>4, <2>1 DEF MigrateTypeOK, ResolveShape, SetJobs
  <2> QED BY <1>2, <1>4, <2>2, ShapesGrow DEF ResolveShape, At
<1>5. CASE UpsertShape(c)
  <2>1. j \in SetJobs
    BY <1>5, JobKinds DEF MigrateTypeOK, UpsertShape, At
  <2>2. jobs'[c].key = j.key /\ jobs'[c].machine = j.machine
    BY <1>5, <2>1 DEF MigrateTypeOK, UpsertShape, SetJobs
  <2>3. j.key \in shapes'[j.machine] /\ \A m \in Machines : shapes[m] \subseteq shapes'[m]
    BY <1>1, <1>5 DEF MigrateTypeOK, UpsertShape
  <2> QED BY <1>2, <1>5, <2>2, <2>3, ShapesGrow DEF UpsertShape, At
<1>6. CASE WriteValue(c)
  <2>1. j \in SetJobs /\ j.key \in shapes[j.machine] /\ shapes' = shapes
    BY <1>6, JobKinds DEF MigrateTypeOK, WriteValue, ShapesHold, At
  <2>2. j.env \in Environments /\ j.key \in Keys
    BY <2>1 DEF SetJobs
  <2>3. \A m \in Machines, e \in Environments, k \in Keys : local'[m][e][k] # 0 => k \in shapes'[m]
    BY <1>1, <1>6, <2>1, <2>2 DEF MigrateTypeOK, WriteValue, ShapesHold
  <2>4. jobs'[c].at # "append"
    BY <1>6 DEF MigrateTypeOK, WriteValue, Idle
  <2> QED BY <1>2, <2>1, <2>3, <2>4 DEF ShapesHold, At
<1> QED BY <1>3, <1>4, <1>5, <1>6

\* The delete takes the values with their shapes, and ends the sets that had resolved one.
LEMMA DeleteKeepsShapes ==
  ASSUME MigrateTypeOK, ShapesHold, NEW c \in Clients, DeleteProject(c)
  PROVE  ShapesHold'
<1> DEFINE m == jobs[c].machine
<1>1. m \in Machines
  BY JobKinds DEF MigrateTypeOK, DeleteProject, Reconciled, At, MigrateJobs
<1>2. /\ local'[m] = NoLocal
      /\ \A n \in Machines \ {m} : local'[n] = local[n] /\ shapes'[n] = shapes[n]
  BY <1>1 DEF MigrateTypeOK, DeleteProject, Erased
<1>3. \A n \in Machines, e \in Environments, k \in Keys : local'[n][e][k] # 0 => k \in shapes'[n]
  BY <1>2 DEF ShapesHold, NoLocal
<1>4. ASSUME NEW d \in Clients, At(d, "append")'
      PROVE  jobs'[d].key \in shapes'[jobs'[d].machine]
  <2>1. d # c /\ jobs'[d] = jobs[d] /\ At(d, "append")
    BY <1>4, DeleteJobs DEF At
  <2>2. jobs[d].machine \in Machines
    BY <2>1, JobKinds DEF MigrateTypeOK, At, SetJobs
  <2>3. CASE jobs[d].machine = m
    <3>1. d \in Overtaken(c, m)
      BY <2>1, <2>3 DEF Overtaken
    <3>2. jobs'[d] = [jobs[d] EXCEPT !.at = "lost"]
      BY <2>1, <3>1 DEF DeleteProject
    <3>3. jobs[d] \in SetJobs
      BY <2>1, JobKinds DEF MigrateTypeOK, At
    <3>4. jobs'[d].at = "lost"
      BY <3>2, <3>3 DEF SetJobs
    <3> QED BY <1>4, <3>4 DEF At
  <2>4. CASE jobs[d].machine # m
    BY <1>2, <2>1, <2>2, <2>4 DEF ShapesHold
  <2> QED BY <2>3, <2>4
<1> QED BY <1>3, <1>4 DEF ShapesHold

\* The steps of a migrate on its snapshot, and the ends of a command, leave the rows alone.
LEMMA MigrateKeepsShapes ==
  ASSUME MigrateTypeOK, ShapesHold, NEW c \in Clients,
         \/ LoadSnapshot(c) \/ LoadPresence(c) \/ FlipConfig(c) \/ Refuse(c) \/ Crash(c)
         \/ \E k \in Keys : Classify(c, k) \/ WriteKey(c, k) \/ ResolveConflict(c, k) \/ VerifyKey(c, k)
  PROVE  ShapesHold'
<1>1. CASE FlipConfig(c) \/ Refuse(c) \/ Crash(c)
  <2>1. jobs' = [jobs EXCEPT ![c] = Idle] /\ UNCHANGED <<local, shapes>>
    BY <1>1 DEF FlipConfig, Refuse, Crash
  <2> QED BY <2>1, ShapesStay DEF MigrateTypeOK, Idle
<1>2. CASE LoadSnapshot(c) \/ LoadPresence(c)
  <2>1. jobs[c] \in MigrateJobs
    BY <1>2, JobKinds DEF MigrateTypeOK, LoadSnapshot, LoadPresence, At
  <2>2. jobs'[c].at # "append" /\ \A d \in Clients \ {c} : jobs'[d] = jobs[d]
    BY <1>2, <2>1 DEF MigrateTypeOK, LoadSnapshot, LoadPresence, MigrateJobs
  <2> QED BY <1>2, <2>2, ShapesStay DEF LoadSnapshot, LoadPresence
<1>3. ASSUME NEW k \in Keys,
             Classify(c, k) \/ WriteKey(c, k) \/ ResolveConflict(c, k) \/ VerifyKey(c, k)
      PROVE  ShapesHold'
  <2>1. jobs[c] \in MigrateJobs /\ jobs[c].at = "reconcile"
    BY <1>3, JobKinds DEF MigrateTypeOK, Classify, WriteKey, ResolveConflict, VerifyKey, Writing, At
  <2>2. jobs'[c].at = "reconcile" /\ \A d \in Clients \ {c} : jobs'[d] = jobs[d]
    <3>1. CASE Classify(c, k)
      BY <2>1, <3>1 DEF MigrateTypeOK, Classify, MigrateJobs
    <3>2. CASE WriteKey(c, k)
      BY <2>1, <3>2 DEF MigrateTypeOK, WriteKey, MigrateJobs
    <3>3. CASE ResolveConflict(c, k)
      BY <2>1, <3>3 DEF MigrateTypeOK, ResolveConflict, MigrateJobs
    <3>4. CASE VerifyKey(c, k)
      BY <2>1, <3>4 DEF MigrateTypeOK, VerifyKey, MigrateJobs
    <3> QED BY <1>3, <3>1, <3>2, <3>3, <3>4
  <2> QED BY <1>3, <2>2, ShapesStay DEF Classify, WriteKey, ResolveConflict, VerifyKey
<1> QED BY <1>1, <1>2, <1>3

-----------------------------------------------------------------------------
(* The theorems.                                                           *)

LEMMA MigrationStarts == Init => MigrationInv
<1> SUFFICES ASSUME Init PROVE MigrationInv
  OBVIOUS
<1>1. 0 \in Values
  BY MigrationAssumption DEF Values
<1>2. NoLocal \in [Environments -> [Keys -> Values]]
  BY <1>1 DEF NoLocal
<1>3. MigrateTypeOK
  BY <1>1, <1>2 DEF Init, MigrateTypeOK, NoLocal
<1>4. Default \in Environments
  BY MigrationAssumption
<1> QED BY <1>3, <1>4 DEF Init, MigrationInv, RemoteIsSeen, NothingIsLost, Kept, NoLocal, JobsCover,
                          Covers, Idle, ShapesHold, At

LEMMA BeginTypes ==
  ASSUME MigrateTypeOK, NEW c \in Clients, NEW job \in SetJobs \cup MigrateJobs,
         jobs' = [jobs EXCEPT ![c] = job], writes' \in Nat,
         UNCHANGED <<host, manifest, adopted, shapes, local, remote, owed, seen, crashes>>
  PROVE  MigrateTypeOK'
BY DEF MigrateTypeOK

\* A step of a command that has begun keeps the invariant.
LEMMA StepKeeps ==
  ASSUME MigrationInv, NEW c \in Clients, Step(c) \/ Crash(c)
  PROVE  MigrationInv'
<1>1. ASSUME AdoptForSet(c) \/ ResolveShape(c) \/ UpsertShape(c)
      PROVE  RemoteIsSeen' /\ NothingIsLost' /\ JobsCover'
  <2>1. UNCHANGED <<local, remote, owed, seen>>
    BY <1>1 DEF AdoptForSet, ResolveShape, UpsertShape
  <2>2. jobs[c] \in SetJobs
    BY <1>1, JobKinds DEF MigrationInv, MigrateTypeOK, AdoptForSet, ResolveShape, UpsertShape, At
  <2>3. PICK at \in {"shape", "append", "create"} : jobs' = [jobs EXCEPT ![c] = [jobs[c] EXCEPT !.at = at]]
    BY <1>1 DEF AdoptForSet, ResolveShape, UpsertShape
  <2>4. [jobs[c] EXCEPT !.at = at].at \notin {"presence", "reconcile"}
    BY <2>2 DEF SetJobs
  <2> QED BY <2>1, <2>3, <2>4, QuietSteps
<1>2. ASSUME AdoptForMigrate(c)
      PROVE  RemoteIsSeen' /\ NothingIsLost' /\ JobsCover'
  <2>1. jobs[c] \in MigrateJobs
    BY <1>2, JobKinds DEF MigrationInv, MigrateTypeOK, AdoptForMigrate, At
  <2>2. [jobs[c] EXCEPT !.at = "load"].at \notin {"presence", "reconcile"}
    BY <2>1 DEF MigrateJobs
  <2> QED BY <1>2, <2>2, QuietSteps DEF AdoptForMigrate
<1>3. ASSUME LoadPresence(c)
      PROVE  RemoteIsSeen' /\ NothingIsLost' /\ JobsCover'
  <2>1. jobs[c] \in MigrateJobs
    BY <1>3, JobKinds DEF MigrationInv, MigrateTypeOK, LoadPresence, At
  <2>2. /\ jobs'[c].machine = jobs[c].machine /\ jobs'[c].todo = jobs[c].todo
        /\ jobs'[c].held = jobs[c].held /\ jobs'[c].create = jobs[c].create
        /\ jobs'[c].unverified = jobs[c].unverified /\ jobs'[c].skipped = jobs[c].skipped
        /\ \A d \in Clients \ {c} : jobs'[d] = jobs[d]
    BY <1>3, <2>1 DEF MigrationInv, MigrateTypeOK, LoadPresence, MigrateJobs
  <2>3. \A k \in Keys : Pending(jobs[c].machine, k) => k \in jobs[c].held /\ k \in Accountable(c)
    BY <1>3 DEF MigrationInv, JobsCover, Covers, LoadPresence, At
  <2>4. Covers(c)'
    BY <1>3, <2>2, <2>3 DEF Covers, Accountable, Pending, LoadPresence
  <2> QED BY <1>3, <2>2, <2>4, QuietStep DEF LoadPresence
<1>4. ASSUME FlipConfig(c) \/ Refuse(c) \/ Crash(c)
      PROVE  RemoteIsSeen' /\ NothingIsLost' /\ JobsCover'
  <2>1. jobs' = [jobs EXCEPT ![c] = Idle] /\ UNCHANGED <<local, remote, owed, seen>>
    BY <1>4 DEF FlipConfig, Refuse, Crash
  <2>2. Idle.at \notin {"presence", "reconcile"}
    BY DEF Idle
  <2> QED BY <2>1, <2>2, QuietSteps
<1>5. CASE AdoptForSet(c) \/ ResolveShape(c) \/ UpsertShape(c) \/ WriteValue(c)
  BY <1>1, <1>5, WriteKeeps, SetTypes, SetKeepsShapes DEF MigrationInv
<1>6. CASE AdoptForMigrate(c) \/ LoadSnapshot(c) \/ LoadPresence(c)
  BY <1>2, <1>3, <1>6, SnapshotCovers, MigrateTypes, SetKeepsShapes, MigrateKeepsShapes
  DEF MigrationInv
<1>7. ASSUME NEW k \in Keys,
             Classify(c, k) \/ WriteKey(c, k) \/ ResolveConflict(c, k) \/ VerifyKey(c, k)
      PROVE  MigrationInv'
  BY <1>7, ClassifyCovers, WritingCovers, MigrateTypes, MigrateKeepsShapes DEF MigrationInv
<1>8. CASE DeleteProject(c)
  BY <1>8, DeleteKeeps, EndTypes, DeleteKeepsShapes DEF MigrationInv
<1>9. CASE FlipConfig(c) \/ Refuse(c) \/ Crash(c)
  BY <1>4, <1>9, EndTypes, MigrateKeepsShapes DEF MigrationInv
<1> QED BY <1>5, <1>6, <1>7, <1>8, <1>9 DEF Step

\* The invariant is inductive.
LEMMA MigrationInductive == MigrationInv /\ [Next]_vars => MigrationInv'
<1> SUFFICES ASSUME MigrationInv, [Next]_vars PROVE MigrationInv'
  OBVIOUS
<1>1. ASSUME NEW c \in Clients, NEW m \in Machines, NEW e \in Environments, NEW k \in Keys,
             NEW v \in Values \ {0}, BeginSet(c, m, e, k, v)
      PROVE  MigrationInv'
  <2> DEFINE job == [at |-> "set", machine |-> m, env |-> e, key |-> k, value |-> v,
                     config |-> manifest[m]]
  <2>1. job \in SetJobs /\ job.at \notin {"presence", "reconcile", "append"}
    BY <1>1 DEF MigrationInv, MigrateTypeOK, SetJobs
  <2>2. jobs' = [jobs EXCEPT ![c] = job] /\ writes' \in Nat
    BY <1>1 DEF BeginSet, MigrationInv, MigrateTypeOK
  <2>3. UNCHANGED <<host, manifest, adopted, shapes, local, remote, owed, seen, crashes>>
    BY <1>1 DEF BeginSet
  <2> HIDE DEF job
  <2>4. MigrateTypeOK'
    BY <2>1, <2>2, <2>3, BeginTypes DEF MigrationInv
  <2>5. ShapesHold'
    BY <2>1, <2>2, <2>3, ShapesStay DEF MigrationInv, MigrateTypeOK
  <2> QED BY <2>1, <2>2, <2>3, <2>4, <2>5, QuietSteps DEF MigrationInv
<1>2. ASSUME NEW c \in Clients, NEW m \in Machines, NEW skips \in SUBSET Keys,
             BeginMigrate(c, m, skips)
      PROVE  MigrationInv'
  <2> DEFINE job == [at |-> "migrate", machine |-> m, config |-> manifest[m], skips |-> skips,
                     todo |-> {}, held |-> {}, present |-> {}, create |-> {}, unverified |-> {},
                     skipped |-> {}]
  <2>1. job \in MigrateJobs /\ job.at \notin {"presence", "reconcile", "append"}
    BY <1>2 DEF MigrationInv, MigrateTypeOK, MigrateJobs
  <2>2. jobs' = [jobs EXCEPT ![c] = job] /\ writes' \in Nat
    BY <1>2 DEF BeginMigrate, MigrationInv, MigrateTypeOK
  <2>3. UNCHANGED <<host, manifest, adopted, shapes, local, remote, owed, seen, crashes>>
    BY <1>2 DEF BeginMigrate
  <2> HIDE DEF job
  <2>4. MigrateTypeOK'
    BY <2>1, <2>2, <2>3, BeginTypes DEF MigrationInv
  <2>5. ShapesHold'
    BY <2>1, <2>2, <2>3, ShapesStay DEF MigrationInv, MigrateTypeOK
  <2> QED BY <2>1, <2>2, <2>3, <2>4, <2>5, QuietSteps DEF MigrationInv
<1>3. ASSUME NEW k \in Keys, NEW v \in Values \ {0}, RemoteWrite(k, v)
      PROVE  MigrationInv'
  <2>1. UNCHANGED <<local, owed, jobs>> /\ v \in Values
        /\ remote' = [remote EXCEPT ![k] = v] /\ seen' = [seen EXCEPT ![k] = @ \cup {v}]
    BY <1>3 DEF RemoteWrite
  <2>2. RemoteIsSeen' /\ NothingIsLost' /\ Shrinks
    BY <2>1, RemoteKeeps
  <2>3. JobsCover'
    BY <2>1, <2>2, StillCovers DEF MigrationInv, JobsCover
  <2>4. remote' \in [Keys -> Values] /\ seen' \in [Keys -> SUBSET Values] /\ writes' \in Nat
    BY <1>3 DEF MigrationInv, MigrateTypeOK, RemoteWrite
  <2>5. MigrateTypeOK'
    BY <1>3, <2>4 DEF MigrationInv, MigrateTypeOK, RemoteWrite
  <2>6. ShapesHold'
    BY <1>3 DEF MigrationInv, ShapesHold, At, RemoteWrite
  <2> QED BY <2>2, <2>3, <2>5, <2>6 DEF MigrationInv
<1>4. CASE UNCHANGED vars
  BY <1>4 DEF vars, MigrationInv, MigrateTypeOK, RemoteIsSeen, NothingIsLost, Kept, JobsCover, Covers,
              Accountable, Pending, ShapesHold, At
<1> QED BY <1>1, <1>2, <1>3, <1>4, StepKeeps DEF Next

\* The invariant holds in every reachable state.
LEMMA MigrationInvariant == Spec => []MigrationInv
BY MigrationStarts, MigrationInductive, PTL DEF Spec

\* In every reachable state the stores, the config, the commands and the histories have their
\* types, and a local value has its environment row.
THEOREM MigrateTypeCorrect == Spec => []MigrateTypeOK
<1>1. MigrationInv => MigrateTypeOK
  BY DEF MigrationInv
<1> QED BY <1>1, MigrationInvariant, PTL

\* migrate loses no value: one that was set before its snapshot leaves the store only after it
\* has been current remotely or was skipped, for any machines, keys and concurrent commands.
THEOREM MigrationLosesNothing == Spec => []NothingIsLost
<1>1. MigrationInv => NothingIsLost
  BY DEF MigrationInv
<1> QED BY <1>1, MigrationInvariant, PTL

\* No step of a command replaces a value of the Hosted Instance.
THEOREM RemoteValuesStand == Spec => RemoteIsNeverOverwritten
<1>1. ASSUME MigrationInv, [Next]_vars, jobs' # jobs, NEW k \in Keys, remote[k] # 0
      PROVE  remote'[k] = remote[k]
  <2>1. ASSUME NEW c \in Clients, NEW l \in Keys, WriteKey(c, l)
        PROVE  remote'[k] = remote[k]
    BY <1>1, <2>1 DEF MigrationInv, MigrateTypeOK, WriteKey, Admitted
  <2>2. CASE UNCHANGED vars
    BY <1>1, <2>2 DEF vars
  <2>3. ASSUME NEW l \in Keys, NEW v \in Values, RemoteWrite(l, v)
        PROVE  FALSE
    BY <1>1, <2>3 DEF RemoteWrite
  <2>4. ASSUME NEW c \in Clients, Step(c) \/ Crash(c)
        PROVE  remote'[k] = remote[k]
    BY <2>1, <2>4 DEF Step, Crash, AdoptForSet, ResolveShape, UpsertShape, WriteValue, AdoptForMigrate,
       LoadSnapshot, LoadPresence, Classify, ResolveConflict, VerifyKey, DeleteProject, FlipConfig, Refuse
  <2> QED BY <1>1, <2>2, <2>3, <2>4 DEF Next, BeginSet, BeginMigrate
<1>2. MigrationInv /\ [Next]_vars
        => [jobs' # jobs => \A k \in Keys : remote[k] # 0 => remote'[k] = remote[k]]_vars
  BY <1>1
<1> QED BY <1>2, MigrationInvariant, PTL DEF Spec, RemoteIsNeverOverwritten
=============================================================================
