----------------------------- MODULE BackupRestore -----------------------------
(***************************************************************************)
(* The restore of an exported backup into a fresh target database          *)
(* (runRestoreImport), composed with the exports that produced it.         *)
(*                                                                         *)
(* An import verifies its artifact, arms the target (lock, proof, journal  *)
(* marker in one transaction), copies instance rows, every organization in *)
(* a transaction of its own and the bootstrap claims, and then records an  *)
(* Operation, an audit event and the outcome in the journal.               *)
(***************************************************************************)
EXTENDS BackupExport

CONSTANT Imports  \* invocations of the restore entrypoint against one target

VARIABLES
  journal,  \* the singleton row of restore_import_journal
  lock,     \* the import that holds the advisory lock
  target,   \* the rows of the target, organizations with the export they came from
  importOp, \* the backup.restore_import Operation in the target
  audited,  \* its success audit event was written
  imports   \* per import, where it is and what it holds

restoreVars == <<journal, lock, target, importOp, audited, imports>>

vars == <<exportVars, restoreVars>>

-----------------------------------------------------------------------------
Target == [instances : SUBSET Instances, orgs : [Orgs -> Schedules \cup {None}],
           claims : SUBSET Orgs]

Fresh == [instances |-> {}, orgs |-> [o \in Orgs |-> None], claims |-> {}]

Restored == {o \in Orgs : target.orgs[o] # None}

Journal == [export : Schedules, status : {"running", "succeeded", "failed"}]

\* No row is not one, and no import holds the lock when none does.
ASSUME AbsentRestore == None \notin Journal \cup Imports

\* After the journal marker: a failure is recorded in the journal.
Importing == {"armed", "copying", "copied", "opened", "begun", "noted", "finished"}

Restoring == {"verified", "proved", "failing"} \cup Importing

\* The export it was asked to restore, and the organizations it has not copied.
ImportAt(p) == [pc |-> p, export |-> 0, pending |-> {}]

\* What the import fetched and verified: an artifact is never overwritten.
Plan(i) == artifact[imports[i].export]

Init ==
  /\ ExportInit
  /\ journal = None
  /\ lock = None
  /\ target = Fresh
  /\ importOp = "absent"
  /\ audited = FALSE
  /\ imports = [i \in Imports |-> ImportAt("idle")]

-----------------------------------------------------------------------------
Arrive(i, import) == imports' = [imports EXCEPT ![i] = import]

\* The import goes on, or it does not see that the step took effect.
Advance(i, next, lost) ==
  \E import \in {[imports[i] EXCEPT !.pc = next], ImportAt(lost)} : Arrive(i, import)

\* verifyRestoreArtifact: the immutable evidence describes the fetched bytes, and
\* the plan has the canary; an organization without rows is pruned from it.
Verify(i, s) ==
  /\ imports[i].pc = "idle"
  /\ artifact[s] # None
  /\ evidence[s] = artifact[s]
  /\ Canary \in artifact[s].orgs
  /\ Arrive(i, [pc |-> "verified", export |-> s, pending |-> artifact[s].orgs])
  /\ UNCHANGED <<exportVars, journal, lock, target, importOp, audited>>

IsFresh == journal = None /\ target.instances = {} /\ Restored = {}

\* armRestoreTarget: the lock is held until the transaction ends.
Prove(i) ==
  /\ imports[i].pc = "verified"
  /\ lock = None
  /\ IsFresh
  /\ lock' = i
  /\ Arrive(i, [imports[i] EXCEPT !.pc = "proved"])
  /\ UNCHANGED <<exportVars, journal, target, importOp, audited>>

Arm(i) ==
  /\ imports[i].pc = "proved"
  /\ journal = None
  /\ journal' = [export |-> imports[i].export, status |-> "running"]
  /\ lock' = None
  /\ Advance(i, "armed", "ended")
  /\ UNCHANGED <<exportVars, target, importOp, audited>>

-----------------------------------------------------------------------------
(* The copy.  A row that the constraints of the target refuse fails it.    *)

CopyInstance(i) ==
  /\ imports[i].pc = "armed"
  /\ target' = [target EXCEPT !.instances = Plan(i).instances]
  /\ Advance(i, "copying", "failing")
  /\ UNCHANGED <<exportVars, journal, lock, importOp, audited>>

\* The organization is not there yet, and its instance is.
OrganizationFits(o) == target.orgs[o] = None /\ InstanceOf[o] \in target.instances

CopyOrganization(i, o) ==
  /\ imports[i].pc = "copying"
  /\ o \in imports[i].pending
  /\ OrganizationFits(o)
  /\ target' = [target EXCEPT !.orgs[o] = imports[i].export]
  /\ \E import \in {[imports[i] EXCEPT !.pending = @ \ {o}], ImportAt("failing")} :
       Arrive(i, import)
  /\ UNCHANGED <<exportVars, journal, lock, importOp, audited>>

\* Mutant of ImportableClaims: orphans are not dropped.
AllClaims(backup) == backup.claims

\* partitionInstanceRows: a claim on an organization that was not captured is dropped.
ImportableClaims(backup) == backup.claims \cap backup.orgs

ClaimsFit(i) == ImportableClaims(Plan(i)) \subseteq Restored

CopyClaims(i) ==
  /\ imports[i].pc = "copying"
  /\ imports[i].pending = {}
  /\ ClaimsFit(i)
  /\ target' = [target EXCEPT !.claims = ImportableClaims(Plan(i))]
  /\ Advance(i, "copied", "failing")
  /\ UNCHANGED <<exportVars, journal, lock, importOp, audited>>

-----------------------------------------------------------------------------
(* The record: recordRestoreImportEvidence and completeRestoreJournal.     *)

OpenOperation(i) ==
  /\ imports[i].pc = "copied"
  /\ Canary \in Restored
  /\ importOp = "absent"
  /\ importOp' = "pending"
  /\ Advance(i, "opened", "failing")
  /\ UNCHANGED <<exportVars, journal, lock, target, audited>>

BeginOperation(i) ==
  /\ imports[i].pc = "opened"
  /\ "running" \in Allowed[importOp]
  /\ importOp' = "running"
  /\ Advance(i, "begun", "failing")
  /\ UNCHANGED <<exportVars, journal, lock, target, audited>>

RecordImport(i) ==
  /\ imports[i].pc = "begun"
  /\ audited' = TRUE
  /\ Advance(i, "noted", "failing")
  /\ UNCHANGED <<exportVars, journal, lock, target, importOp>>

FinishOperation(i) ==
  /\ imports[i].pc = "noted"
  /\ "succeeded" \in Allowed[importOp]
  /\ importOp' = "succeeded"
  /\ Advance(i, "finished", "failing")
  /\ UNCHANGED <<exportVars, journal, lock, target, audited>>

\* Mutant of Completed: the UPDATE forgets the status that it replaces.
CompletedAgain(status) == [journal EXCEPT !.status = status]

\* The UPDATE concerns a running journal only.
Completed(status) ==
  IF journal.status = "running" THEN [journal EXCEPT !.status = status] ELSE journal

\* Mutant of IsRecorded: the journal is marked before the Operation and the audit.
IsCopied(i) == imports[i].pc \in {"copied", "finished"}

\* "The success audit is written first, then the journal is marked succeeded."
IsRecorded(i) == imports[i].pc = "finished"

CompleteJournal(i) ==
  /\ IsRecorded(i)
  /\ journal' = Completed("succeeded")
  /\ Advance(i, "restored", "failing")
  /\ UNCHANGED <<exportVars, lock, target, importOp, audited>>

FailImport(i) ==
  /\ imports[i].pc \in Importing
  /\ Arrive(i, ImportAt("failing"))
  /\ UNCHANGED <<exportVars, journal, lock, target, importOp, audited>>

MarkJournalFailed(i) ==
  /\ imports[i].pc = "failing"
  /\ journal' = Completed("failed")
  /\ Arrive(i, ImportAt("ended"))
  /\ UNCHANGED <<exportVars, lock, target, importOp, audited>>

\* Refused, or the Worker dies: an open transaction ends with its lock.
StopImport(i) ==
  /\ imports[i].pc \in Restoring
  /\ lock' = IF lock = i THEN None ELSE lock
  /\ Arrive(i, ImportAt("ended"))
  /\ UNCHANGED <<exportVars, journal, target, importOp, audited>>

ImportStep(i) ==
  \/ \E s \in Schedules : Verify(i, s)
  \/ Prove(i) \/ Arm(i)
  \/ CopyInstance(i) \/ (\E o \in Orgs : CopyOrganization(i, o)) \/ CopyClaims(i)
  \/ OpenOperation(i) \/ BeginOperation(i) \/ RecordImport(i) \/ FinishOperation(i)
  \/ CompleteJournal(i) \/ FailImport(i) \/ MarkJournalFailed(i) \/ StopImport(i)

Next ==
  \/ ExportNext /\ UNCHANGED restoreVars
  \/ \E i \in Imports : ImportStep(i)

Spec == Init /\ [][Next]_vars

-----------------------------------------------------------------------------
(* What a restore promises.                                                *)

Import == [pc : Restoring \cup {"idle", "restored", "ended"}, export : Schedules \cup {0},
           pending : SUBSET Orgs]

\* Every variable has the shape the code gives it.
BackupTypeOK ==
  /\ ExportTypeOK
  /\ journal \in Journal \cup {None}
  /\ lock \in Imports \cup {None}
  /\ target \in Target
  /\ importOp \in States \cup {"absent"}
  /\ audited \in BOOLEAN
  /\ imports \in [Imports -> Import]

\* The target holds what one export captured: nothing without a journal marker,
\* organizations only from the export in the marker, and, once the journal says
\* succeeded, all of it, with the Operation and the audit event of the import.
\* Whoever is told that the restore succeeded finds its own export there.
RestoreIsWhole ==
  /\ \A o \in Restored : journal # None /\ target.orgs[o] = journal.export
  /\ (journal # None /\ journal.status = "succeeded") =>
       LET backup == artifact[journal.export] IN
       /\ target.instances = backup.instances
       /\ Restored = backup.orgs
       /\ target.claims = backup.claims \cap backup.orgs
       /\ importOp = "succeeded"
       /\ audited
  /\ \A i \in Imports : imports[i].pc = "restored" =>
       journal = [export |-> imports[i].export, status |-> "succeeded"]

\* An artifact that an export stored can be restored: though it was read in many
\* snapshots while organizations and instances came and went, the canary is in it
\* and its rows fit the constraints of the target in the order of the import.
GenuineArtifactsImport ==
  /\ \A s \in Schedules : artifact[s] # None => Canary \in artifact[s].orgs
  /\ \A i \in Imports : imports[i].pc = "copying" =>
       /\ \A o \in imports[i].pending : OrganizationFits(o)
       /\ imports[i].pending = {} => ClaimsFit(i)

-----------------------------------------------------------------------------
(* BackupRestore implements BackupService.                                 *)

\* The rows that the constraints of a target admit: those of the canary, and no
\* organization without its instance.
Importable ==
  {backup \in Backup : Canary \in backup.orgs
                         /\ \A o \in backup.orgs : InstanceOf[o] \in backup.instances}

IsRestored == journal # None /\ journal.status = "succeeded"

TargetRows == [instances |-> target.instances, claims |-> target.claims, orgs |-> Restored]

Complete == {s \in Schedules : op[s] = "succeeded"}

Published == {s \in Schedules : \E r \in Runs : runs[r].pc = "confirmed" /\ runs[r].schedule = s}

RestoredCopy == IF IsRestored THEN [export |-> journal.export, rows |-> TargetRows] ELSE None

Service ==
  INSTANCE BackupService
    WITH Exports   <- Schedules,
         Sound     <- Importable,
         sealed    <- artifact,
         complete  <- Complete,
         published <- Published,
         restored  <- RestoredCopy

\* From the reads of a moving source to the copy in a target: whatever runs, replays
\* and imports overlap, whichever answers are lost and wherever a Worker dies, what
\* is sealed, published and restored changes only as the service promises.
ImplementsBackupService == Service!Spec
=============================================================================
