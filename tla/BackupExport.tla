----------------------------- MODULE BackupExport -----------------------------
(***************************************************************************)
(* The scheduled backup export (packages/backup-restore, run by            *)
(* apps/runtime): an Operation per schedule, a read of the source database *)
(* that is not one snapshot, two immutable objects in storage, and the     *)
(* pointer to the latest export.                                           *)
(*                                                                         *)
(* Every step is one transaction or one storage request.  A step that      *)
(* writes may take effect without its answer reaching the Worker, a step   *)
(* may fail without effect, and the Worker may die at any point.           *)
(***************************************************************************)
EXTENDS OperationStates, Naturals

CONSTANTS
  Instances,   \* instance IDs
  Home,        \* the instance that is configured for exports
  Orgs,        \* organization IDs
  Canary,      \* RECOVERY_CANARY_ORGANIZATION_ID
  InstanceOf,  \* the instance of every organization
  FirstOrg,    \* the organization that the bootstrap of an instance creates
  Schedules,   \* scheduled instants, the idempotency keys of exports
  Runs,        \* invocations of the handler
  None,        \* no object, no row
  MaxAttempts  \* MAX_POINTER_PUBLISH_ATTEMPTS

ASSUME BackupAssumption ==
  /\ Home \in Instances
  /\ Canary \in Orgs
  /\ InstanceOf \in [Orgs -> Instances]
  /\ InstanceOf[Canary] = Home
  /\ FirstOrg \in [Instances -> Orgs \ {Canary}]
  /\ \A i \in Instances : InstanceOf[FirstOrg[i]] = i
  /\ Schedules \subseteq Nat \ {0}
  /\ MaxAttempts \in Nat \ {0}

VARIABLES
  instances, \* the rows of instances in the source
  orgs,      \* per organization, "absent", "present" or "deleted" in the source
  claims,    \* the first organizations of the bootstrap_operator_claims rows
  op,        \* per schedule, the state of its Operation, or "absent"
  expired,   \* the schedules whose running Operation is past its deadline
  audits,    \* per schedule, the outcomes in the audit log
  artifact,  \* per schedule, the sealed artifact in storage
  evidence,  \* per schedule, the artifact that the evidence object describes
  latest,    \* the export the latest pointer names, 0 for none
  runs       \* per run, where it is and what it holds

sourceVars == <<instances, orgs, claims>>
storeVars  == <<op, expired, audits>>
objectVars == <<artifact, evidence, latest>>

exportVars == <<sourceVars, storeVars, objectVars, runs>>

-----------------------------------------------------------------------------
(* What an export holds: the instance rows, the claims and the             *)
(* organizations whose rows were read.                                     *)

Backup == [instances : SUBSET Instances, claims : SUBSET Orgs, orgs : SUBSET Orgs]

\* No object and no row is not one.
ASSUME AbsentBackup == None \notin Backup \cup Schedules

Nothing == [instances |-> {}, claims |-> {}, orgs |-> {}]

Present == {o \in Orgs : orgs[o] = "present"}

Executing == {"created", "started", "listed", "reading", "stored", "evidenced", "audited"}

Publishing == {"republishing", "publishing", "swapping"}

AtWork == Executing \cup Publishing \cup {"failing", "marking"}

\* A run at a phase for a schedule that holds nothing else: the organizations it
\* has listed and not read, what it has read, the pointer as it read it, and how
\* many swaps it has lost.
At(p, s) == [pc |-> p, schedule |-> s, todo |-> {}, draft |-> Nothing, seen |-> 0, lost |-> 0]

Idle == At("idle", 0)

Ended == At("ended", 0)

ExportInit ==
  /\ instances = {Home}
  /\ orgs = [o \in Orgs |-> IF o \in {Canary, FirstOrg[Home]} THEN "present" ELSE "absent"]
  /\ claims = {FirstOrg[Home]}
  /\ op = [s \in Schedules |-> "absent"]
  /\ expired = {}
  /\ audits = [s \in Schedules |-> {}]
  /\ artifact = [s \in Schedules |-> None]
  /\ evidence = [s \in Schedules |-> None]
  /\ latest = 0
  /\ runs = [r \in Runs |-> Idle]

-----------------------------------------------------------------------------
(* The source goes on while it is read.                                    *)

\* A further instance with its first organization and the claim on it, in one
\* transaction.
Bootstrap(i) ==
  /\ i \notin instances
  /\ instances' = instances \cup {i}
  /\ orgs' = [orgs EXCEPT ![FirstOrg[i]] = "present"]
  /\ claims' = claims \cup {FirstOrg[i]}
  /\ UNCHANGED <<storeVars, objectVars, runs>>

Onboard(o) ==
  /\ orgs[o] = "absent"
  /\ InstanceOf[o] \in instances
  /\ o \notin {FirstOrg[i] : i \in Instances}
  /\ orgs' = [orgs EXCEPT ![o] = "present"]
  /\ UNCHANGED <<instances, claims, storeVars, objectVars, runs>>

\* An organization with a claim on it is kept by the claim's foreign key.
Delete(o) ==
  /\ orgs[o] = "present"
  /\ o # Canary
  /\ o \notin claims
  /\ orgs' = [orgs EXCEPT ![o] = "deleted"]
  /\ UNCHANGED <<instances, claims, storeVars, objectVars, runs>>

\* The execution deadline of a running Operation passes.
Expire(s) ==
  /\ op[s] = "running"
  /\ s \notin expired
  /\ expired' = expired \cup {s}
  /\ UNCHANGED <<sourceVars, op, audits, objectVars, runs>>

-----------------------------------------------------------------------------
(* The handler.                                                            *)

Become(r, run) == runs' = [runs EXCEPT ![r] = run]

Reach(r, p) == Become(r, [runs[r] EXCEPT !.pc = p])

\* The run goes on with next, or the answer is lost and it takes the failure path.
Answered(r, next) == \E run \in {next, At("failing", runs[r].schedule)} : Become(r, run)

\* transitionOperation.  When the claim has expired it refuses, and the parking it did
\* first rolls back with the refusal, so that a later call finds the Operation running.
Transition(s, to) ==
  /\ s \notin expired
  /\ to \in Allowed[op[s]]
  /\ op' = [op EXCEPT ![s] = to]

Invoke(r, s) ==
  /\ runs[r].pc = "idle"
  /\ op[s] = "absent"
  /\ op' = [op EXCEPT ![s] = "pending"]
  /\ \E run \in {At("created", s), Ended} : Become(r, run)
  /\ UNCHANGED <<sourceVars, expired, audits, objectVars>>

\* Mutant of IsPublishable: a replay publishes whatever the first run left.
IsPublishableAnyway(s) == TRUE

IsPublishable(s) == op[s] = "succeeded"

\* A duplicate of the cron event finds the Operation, parks it when its claim is
\* abandoned, and publishes again when it has succeeded.
InvokeAgain(r, s) ==
  /\ runs[r].pc = "idle"
  /\ op[s] # "absent"
  /\ op' = IF s \in expired THEN [op EXCEPT ![s] = "incomplete"] ELSE op
  /\ expired' = expired \ {s}
  /\ Become(r, IF IsPublishable(s) THEN At("republishing", s) ELSE Ended)
  /\ UNCHANGED <<sourceVars, audits, objectVars>>

Start(r) ==
  /\ runs[r].pc = "created"
  /\ Transition(runs[r].schedule, "running")
  /\ Answered(r, At("started", runs[r].schedule))
  /\ UNCHANGED <<sourceVars, expired, audits, objectVars>>

\* enumerateOrganizationIds.
List(r) ==
  /\ runs[r].pc = "started"
  /\ Become(r, [runs[r] EXCEPT !.pc = "listed", !.todo = Present])
  /\ UNCHANGED <<sourceVars, storeVars, objectVars>>

InstanceRows == [Nothing EXCEPT !.instances = instances, !.claims = claims]

ReadInstance(r) ==
  /\ runs[r].pc = "listed"
  /\ Become(r, [runs[r] EXCEPT !.pc = "reading", !.draft = InstanceRows])
  /\ UNCHANGED <<sourceVars, storeVars, objectVars>>

\* One organization in a snapshot of its own: nothing when it was deleted since.
ReadOrganization(r, o) ==
  /\ runs[r].pc = "reading"
  /\ o \in runs[r].todo
  /\ Become(r, [runs[r] EXCEPT !.todo = @ \ {o}, !.draft.orgs = @ \cup ({o} \cap Present)])
  /\ UNCHANGED <<sourceVars, storeVars, objectVars>>

StoreArtifact(r) ==
  /\ runs[r].pc = "reading"
  /\ runs[r].todo = {}
  /\ artifact[runs[r].schedule] = None
  /\ artifact' = [artifact EXCEPT ![runs[r].schedule] = runs[r].draft]
  /\ Answered(r, [runs[r] EXCEPT !.pc = "stored"])
  /\ UNCHANGED <<sourceVars, storeVars, evidence, latest>>

StoreEvidence(r) ==
  /\ runs[r].pc = "stored"
  /\ evidence[runs[r].schedule] = None
  /\ evidence' = [evidence EXCEPT ![runs[r].schedule] = runs[r].draft]
  /\ Answered(r, At("evidenced", runs[r].schedule))
  /\ UNCHANGED <<sourceVars, storeVars, artifact, latest>>

RecordSuccess(r) ==
  /\ runs[r].pc = "evidenced"
  /\ audits' = [audits EXCEPT ![runs[r].schedule] = @ \cup {"succeeded"}]
  /\ Answered(r, At("audited", runs[r].schedule))
  /\ UNCHANGED <<sourceVars, op, expired, objectVars>>

Succeed(r) ==
  /\ runs[r].pc = "audited"
  /\ Transition(runs[r].schedule, "succeeded")
  /\ Answered(r, At("publishing", runs[r].schedule))
  /\ UNCHANGED <<sourceVars, expired, audits, objectVars>>

-----------------------------------------------------------------------------
(* The latest pointer.                                                     *)

ReadEvidence(r) ==
  /\ runs[r].pc = "republishing"
  /\ evidence[runs[r].schedule] # None
  /\ Reach(r, "publishing")
  /\ UNCHANGED <<sourceVars, storeVars, objectVars>>

\* A pointer to a newer export is left alone.
ReadLatest(r) ==
  /\ runs[r].pc = "publishing"
  /\ Become(r, IF latest > runs[r].schedule THEN At("confirmed", runs[r].schedule)
                ELSE [runs[r] EXCEPT !.pc = "swapping", !.seen = latest])
  /\ UNCHANGED <<sourceVars, storeVars, objectVars>>

\* Mutant of PointerIs: the put has no precondition.
PointerIsAnything(version) == TRUE

\* The etag of the object that was read.
PointerIs(version) == latest = version

SwapLatest(r) ==
  /\ runs[r].pc = "swapping"
  /\ PointerIs(runs[r].seen)
  /\ latest' = runs[r].schedule
  /\ \E run \in {At("confirmed", runs[r].schedule), Ended} : Become(r, run)
  /\ UNCHANGED <<sourceVars, storeVars, artifact, evidence>>

\* Another publisher was first: read again, a few times.
LoseSwap(r) ==
  /\ runs[r].pc = "swapping"
  /\ ~PointerIs(runs[r].seen)
  /\ Become(r, IF runs[r].lost + 1 < MaxAttempts
                  THEN [At("publishing", runs[r].schedule) EXCEPT !.lost = runs[r].lost + 1]
                  ELSE Ended)
  /\ UNCHANGED <<sourceVars, storeVars, objectVars>>

-----------------------------------------------------------------------------
(* Failure.  A run that fails before its Operation has succeeded records   *)
(* the failure; one that fails to publish only alerts.                     *)

Fail(r) ==
  /\ runs[r].pc \in Executing
  /\ Become(r, At("failing", runs[r].schedule))
  /\ UNCHANGED <<sourceVars, storeVars, objectVars>>

RecordFailure(r) ==
  /\ runs[r].pc = "failing"
  /\ audits' = [audits EXCEPT ![runs[r].schedule] = @ \cup {"failed"}]
  /\ \E run \in {At("marking", runs[r].schedule), Ended} : Become(r, run)
  /\ UNCHANGED <<sourceVars, op, expired, objectVars>>

MarkFailed(r) ==
  /\ runs[r].pc = "marking"
  /\ Transition(runs[r].schedule, "failed")
  /\ Become(r, Ended)
  /\ UNCHANGED <<sourceVars, expired, audits, objectVars>>

\* The handler throws, or the Worker dies.
Stop(r) ==
  /\ runs[r].pc \in AtWork
  /\ Become(r, Ended)
  /\ UNCHANGED <<sourceVars, storeVars, objectVars>>

SourceStep ==
  \/ \E i \in Instances : Bootstrap(i)
  \/ \E o \in Orgs : Onboard(o) \/ Delete(o)

RunStep(r) ==
  \/ \E s \in Schedules : Invoke(r, s) \/ InvokeAgain(r, s)
  \/ Start(r) \/ List(r) \/ ReadInstance(r) \/ (\E o \in Orgs : ReadOrganization(r, o))
  \/ StoreArtifact(r) \/ StoreEvidence(r) \/ RecordSuccess(r) \/ Succeed(r)
  \/ ReadEvidence(r) \/ ReadLatest(r) \/ SwapLatest(r) \/ LoseSwap(r)
  \/ Fail(r) \/ RecordFailure(r) \/ MarkFailed(r) \/ Stop(r)

ExportNext ==
  \/ SourceStep
  \/ \E s \in Schedules : Expire(s)
  \/ \E r \in Runs : RunStep(r)

-----------------------------------------------------------------------------
(* What an export promises.                                                *)

Run == [pc : AtWork \cup {"idle", "confirmed", "ended"}, schedule : Schedules \cup {0},
        todo : SUBSET Orgs, draft : Backup, seen : Schedules \cup {0}, lost : Nat]

\* Every variable has the shape the code gives it.
ExportTypeOK ==
  /\ instances \subseteq Instances
  /\ orgs \in [Orgs -> {"absent", "present", "deleted"}]
  /\ claims \subseteq Orgs
  /\ op \in [Schedules -> States \cup {"absent"}]
  /\ expired \subseteq Schedules
  /\ audits \in [Schedules -> SUBSET {"succeeded", "failed"}]
  /\ artifact \in [Schedules -> Backup \cup {None}]
  /\ evidence \in [Schedules -> Backup \cup {None}]
  /\ latest \in Schedules \cup {0}
  /\ runs \in [Runs -> Run]

\* The pointer names a complete export: the artifact, evidence that describes
\* this very artifact, the success audit and the Operation were all durable
\* before it moved ("latest must always mean the most recent complete run",
\* publish-latest-backup-export.ts), whoever published it.
LatestIsComplete ==
  latest # 0 =>
    /\ artifact[latest] # None
    /\ evidence[latest] = artifact[latest]
    /\ op[latest] = "succeeded"
    /\ "succeeded" \in audits[latest]

\* A run that returned as published is not undone: the pointer names its export
\* or a newer one from then on, in whatever order overlapping runs and replays
\* reach their compare-and-swap.
LatestIsNewest ==
  \A r \in Runs : runs[r].pc = "confirmed" => latest >= runs[r].schedule
=============================================================================
