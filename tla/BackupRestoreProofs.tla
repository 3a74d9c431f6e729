-------------------------- MODULE BackupRestoreProofs --------------------------
(***************************************************************************)
(* Theorems about backup exports and restores for any number of runs,      *)
(* schedules, organizations and imports.                                   *)
(***************************************************************************)
EXTENDS BackupRestore, TLAPS

-----------------------------------------------------------------------------
(* The exports: the inductive invariant.                                   *)

\* The canary stays, and an organization is never without its instance.
SourceHolds ==
  /\ orgs[Canary] = "present"
  /\ \A o \in Orgs : orgs[o] # "absent" => InstanceOf[o] \in instances

\* A backup with the canary and the instance of every organization in it.
Genuine(backup) ==
  /\ Canary \in backup.orgs
  /\ \A o \in backup.orgs : InstanceOf[o] \in backup.instances

\* What the Operations, the audit log, the objects and the pointer say of each other.
StoreHolds ==
  /\ \A s \in expired : op[s] = "running"
  /\ \A s \in Schedules :
       /\ artifact[s] # None => Genuine(artifact[s])
       /\ evidence[s] # None => evidence[s] = artifact[s]
       /\ op[s] = "succeeded" => evidence[s] # None /\ "succeeded" \in audits[s]
  /\ latest # 0 => op[latest] = "succeeded"

\* What a run knows at its place.
RunHolds(r) ==
  /\ runs[r].pc \notin {"idle", "ended"} => runs[r].schedule \in Schedules
  /\ runs[r].pc = "listed" =>
       /\ Canary \in runs[r].todo
       /\ \A o \in runs[r].todo : InstanceOf[o] \in instances
  /\ runs[r].pc = "reading" =>
       /\ Canary \in runs[r].todo \cup runs[r].draft.orgs
       /\ \A o \in runs[r].todo \cup runs[r].draft.orgs : InstanceOf[o] \in runs[r].draft.instances
  /\ runs[r].pc = "stored" => artifact[runs[r].schedule] = runs[r].draft
  /\ runs[r].pc \in {"evidenced", "audited"} => evidence[runs[r].schedule] # None
  /\ runs[r].pc = "audited" => "succeeded" \in audits[runs[r].schedule]
  /\ runs[r].pc \in Publishing \cup {"confirmed"} => op[runs[r].schedule] = "succeeded"
  /\ runs[r].pc = "swapping" => runs[r].seen <= runs[r].schedule
  /\ runs[r].pc = "confirmed" => latest >= runs[r].schedule

ExportInv ==
  /\ ExportTypeOK
  /\ SourceHolds
  /\ StoreHolds
  /\ \A r \in Runs : RunHolds(r)

-----------------------------------------------------------------------------
(* The exports: types.                                                     *)

LEMMA PhasesAreRuns ==
  ASSUME NEW p \in AtWork \cup {"idle", "confirmed", "ended"}, NEW s \in Schedules \cup {0}
  PROVE  At(p, s) \in Run
  BY DEF At, Run, Nothing, Backup

LEMMA ExportInitTypes == ExportInit => ExportTypeOK
<1> SUFFICES ASSUME ExportInit PROVE ExportTypeOK
  OBVIOUS
<1>1. Idle \in Run
  BY PhasesAreRuns DEF Idle
<1>2. FirstOrg[Home] \in Orgs
  BY BackupAssumption
<1> QED BY <1>1, <1>2, BackupAssumption DEF ExportInit, ExportTypeOK

\* The handler's steps only ever put a run in the place of a run.
LEMMA BecomesRun ==
  ASSUME ExportTypeOK, NEW r \in Runs, NEW run \in Run, Become(r, run)
  PROVE  runs' \in [Runs -> Run]
  BY DEF ExportTypeOK, Become

LEMMA SourceStepTypes ==
  ASSUME ExportTypeOK, SourceStep
  PROVE  ExportTypeOK'
<1>1. ASSUME NEW i \in Instances, Bootstrap(i) PROVE ExportTypeOK'
  <2>1. FirstOrg[i] \in Orgs
    BY BackupAssumption
  <2> QED BY <1>1, <2>1 DEF Bootstrap, ExportTypeOK, storeVars, objectVars
<1>2. ASSUME NEW o \in Orgs, Onboard(o) PROVE ExportTypeOK'
  BY <1>2 DEF Onboard, ExportTypeOK, storeVars, objectVars
<1>3. ASSUME NEW o \in Orgs, Delete(o) PROVE ExportTypeOK'
  BY <1>3 DEF Delete, ExportTypeOK, storeVars, objectVars
<1> QED BY <1>1, <1>2, <1>3 DEF SourceStep

LEMMA RunFields ==
  ASSUME ExportTypeOK, NEW r \in Runs
  PROVE  /\ runs[r] \in Run
         /\ runs[r].schedule \in Schedules \cup {0}
         /\ runs[r].draft \in Backup
         /\ runs[r].todo \subseteq Orgs
  BY DEF ExportTypeOK, Run

\* A run that moves on stays a run, whatever it takes along.
LEMMA MovedRun ==
  ASSUME ExportTypeOK, NEW r \in Runs, NEW p \in AtWork \cup {"idle", "confirmed", "ended"}
  PROVE  /\ [runs[r] EXCEPT !.pc = p] \in Run
         /\ At(p, runs[r].schedule) \in Run
         /\ \A todo \in SUBSET Orgs, draft \in Backup :
              [runs[r] EXCEPT !.pc = p, !.todo = todo, !.draft = draft] \in Run
         /\ \A todo \in SUBSET Orgs : [runs[r] EXCEPT !.pc = p, !.todo = todo] \in Run
         /\ \A draft \in Backup : [runs[r] EXCEPT !.pc = p, !.draft = draft] \in Run
         /\ \A seen \in Schedules \cup {0} : [runs[r] EXCEPT !.pc = p, !.seen = seen] \in Run
<1>1. At(p, runs[r].schedule) \in Run
  BY RunFields, PhasesAreRuns
<1>2. [runs[r] EXCEPT !.pc = p] \in Run
  BY RunFields DEF Run
<1>3. \A todo \in SUBSET Orgs, draft \in Backup :
        [runs[r] EXCEPT !.pc = p, !.todo = todo, !.draft = draft] \in Run
  BY RunFields DEF Run
<1>4. \A todo \in SUBSET Orgs : [runs[r] EXCEPT !.pc = p, !.todo = todo] \in Run
  BY RunFields DEF Run
<1>5. \A draft \in Backup : [runs[r] EXCEPT !.pc = p, !.draft = draft] \in Run
  BY RunFields DEF Run
<1>6. \A seen \in Schedules \cup {0} : [runs[r] EXCEPT !.pc = p, !.seen = seen] \in Run
  BY RunFields DEF Run
<1> QED BY <1>1, <1>2, <1>3, <1>4, <1>5, <1>6

LEMMA AnsweredRun ==
  ASSUME ExportTypeOK, NEW r \in Runs, NEW run \in Run, Answered(r, run)
  PROVE  runs' \in [Runs -> Run]
<1>1. At("failing", runs[r].schedule) \in Run
  BY MovedRun DEF AtWork
<1> QED BY <1>1, BecomesRun DEF Answered

LEMMA EndedIsRun == Ended \in Run /\ Idle \in Run
  BY PhasesAreRuns DEF Ended, Idle

LEMMA TransitionTypes ==
  ASSUME ExportTypeOK, NEW s \in Schedules, NEW to \in States, Transition(s, to)
  PROVE  op' \in [Schedules -> States \cup {"absent"}]
  BY DEF ExportTypeOK, Transition

\* A run at work has a schedule.
LEMMA WorkHasSchedule ==
  ASSUME ExportInv, NEW r \in Runs, runs[r].pc \notin {"idle", "ended"}
  PROVE  runs[r].schedule \in Schedules
  BY DEF ExportInv, RunHolds

LEMMA InvokeTypes ==
  ASSUME ExportTypeOK, NEW r \in Runs, NEW s \in Schedules, Invoke(r, s) \/ InvokeAgain(r, s)
  PROVE  ExportTypeOK'
<1>0. At("created", s) \in Run /\ At("republishing", s) \in Run /\ Ended \in Run
  BY PhasesAreRuns, EndedIsRun DEF AtWork, Executing, Publishing
<1>1. CASE Invoke(r, s)
  <2>1. runs' \in [Runs -> Run]
    BY <1>0, <1>1, BecomesRun DEF Invoke
  <2> QED BY <1>1, <2>1 DEF Invoke, ExportTypeOK, sourceVars, objectVars, States
<1>2. CASE InvokeAgain(r, s)
  <2>1. runs' \in [Runs -> Run]
    BY <1>0, <1>2, BecomesRun DEF InvokeAgain
  <2> QED BY <1>2, <2>1 DEF InvokeAgain, ExportTypeOK, sourceVars, objectVars, States
<1> QED BY <1>1, <1>2

LEMMA ReadTypes ==
  ASSUME ExportTypeOK, NEW r \in Runs,
         List(r) \/ ReadInstance(r) \/ \E o \in Orgs : ReadOrganization(r, o)
  PROVE  ExportTypeOK'
<1> USE DEF AtWork, Executing
<1>1. CASE List(r)
  <2>1. Present \in SUBSET Orgs
    BY DEF Present
  <2>2. runs' \in [Runs -> Run]
    BY <1>1, <2>1, MovedRun, BecomesRun DEF List
  <2> QED BY <1>1, <2>2 DEF List, ExportTypeOK, sourceVars, storeVars, objectVars
<1>2. CASE ReadInstance(r)
  <2>1. InstanceRows \in Backup
    BY DEF InstanceRows, Nothing, Backup, ExportTypeOK
  <2>2. runs' \in [Runs -> Run]
    BY <1>2, <2>1, MovedRun, BecomesRun DEF ReadInstance
  <2> QED BY <1>2, <2>2 DEF ReadInstance, ExportTypeOK, sourceVars, storeVars, objectVars
<1>3. ASSUME NEW o \in Orgs, ReadOrganization(r, o) PROVE ExportTypeOK'
  <2>1. [runs[r] EXCEPT !.todo = @ \ {o}, !.draft.orgs = @ \cup ({o} \cap Present)] \in Run
    <3>1. Present \subseteq Orgs
      BY DEF Present
    <3>2. [runs[r].draft EXCEPT !.orgs = @ \cup ({o} \cap Present)] \in Backup
      BY <3>1, RunFields DEF Backup
    <3> QED BY <3>2, RunFields DEF Run
  <2>2. runs' \in [Runs -> Run]
    BY <1>3, <2>1, BecomesRun DEF ReadOrganization
  <2> QED BY <1>3, <2>2 DEF ReadOrganization, ExportTypeOK, sourceVars, storeVars, objectVars
<1> QED BY <1>1, <1>2, <1>3

LEMMA StoreTypes ==
  ASSUME ExportInv, NEW r \in Runs, StoreArtifact(r) \/ StoreEvidence(r)
  PROVE  ExportTypeOK'
<1> USE DEF AtWork, Executing
<1>0. ExportTypeOK
  BY DEF ExportInv
<1>1. CASE StoreArtifact(r)
  <2>1. runs' \in [Runs -> Run]
    BY <1>0, <1>1, MovedRun, AnsweredRun DEF StoreArtifact
  <2> QED BY <1>0, <1>1, <2>1, RunFields DEF StoreArtifact, ExportTypeOK, sourceVars, storeVars
<1>2. CASE StoreEvidence(r)
  <2>1. runs' \in [Runs -> Run]
    BY <1>0, <1>2, MovedRun, AnsweredRun DEF StoreEvidence
  <2> QED BY <1>0, <1>2, <2>1, RunFields DEF StoreEvidence, ExportTypeOK, sourceVars, storeVars
<1> QED BY <1>1, <1>2

LEMMA RecordTypes ==
  ASSUME ExportInv, NEW r \in Runs,
         Start(r) \/ RecordSuccess(r) \/ Succeed(r) \/ RecordFailure(r) \/ MarkFailed(r)
  PROVE  ExportTypeOK'
<1> USE DEF AtWork, Executing, Publishing
<1>0. ExportTypeOK
  BY DEF ExportInv
<1>1. CASE Start(r)
  <2>1. runs' \in [Runs -> Run]
    BY <1>0, <1>1, MovedRun, AnsweredRun DEF Start
  <2>2. op' \in [Schedules -> States \cup {"absent"}]
    BY <1>0, <1>1, WorkHasSchedule, TransitionTypes DEF Start, States
  <2> QED BY <1>0, <1>1, <2>1, <2>2 DEF Start, ExportTypeOK, sourceVars, objectVars
<1>2. CASE RecordSuccess(r)
  <2>1. runs' \in [Runs -> Run]
    BY <1>0, <1>2, MovedRun, AnsweredRun DEF RecordSuccess
  <2> QED BY <1>0, <1>2, <2>1 DEF RecordSuccess, ExportTypeOK, sourceVars, objectVars
<1>3. CASE Succeed(r)
  <2>1. runs' \in [Runs -> Run]
    BY <1>0, <1>3, MovedRun, AnsweredRun DEF Succeed
  <2>2. op' \in [Schedules -> States \cup {"absent"}]
    BY <1>0, <1>3, WorkHasSchedule, TransitionTypes DEF Succeed, States
  <2> QED BY <1>0, <1>3, <2>1, <2>2 DEF Succeed, ExportTypeOK, sourceVars, objectVars
<1>4. CASE RecordFailure(r)
  <2>1. runs' \in [Runs -> Run]
    BY <1>0, <1>4, MovedRun, EndedIsRun, BecomesRun DEF RecordFailure
  <2> QED BY <1>0, <1>4, <2>1 DEF RecordFailure, ExportTypeOK, sourceVars, objectVars
<1>5. CASE MarkFailed(r)
  <2>1. runs' \in [Runs -> Run]
    BY <1>0, <1>5, EndedIsRun, BecomesRun DEF MarkFailed
  <2>2. op' \in [Schedules -> States \cup {"absent"}]
    BY <1>0, <1>5, WorkHasSchedule, TransitionTypes DEF MarkFailed, States
  <2> QED BY <1>0, <1>5, <2>1, <2>2 DEF MarkFailed, ExportTypeOK, sourceVars, objectVars
<1> QED BY <1>1, <1>2, <1>3, <1>4, <1>5

LEMMA PublishTypes ==
  ASSUME ExportInv, NEW r \in Runs,
         \/ ReadEvidence(r) \/ ReadLatest(r) \/ SwapLatest(r) \/ LoseSwap(r)
         \/ Fail(r) \/ Stop(r)
  PROVE  ExportTypeOK'
<1> USE DEF AtWork, Executing, Publishing
<1>0. ExportTypeOK
  BY DEF ExportInv
<1>1. CASE ReadEvidence(r)
  <2>1. runs' \in [Runs -> Run]
    BY <1>0, <1>1, MovedRun, BecomesRun DEF ReadEvidence, Reach
  <2> QED BY <1>0, <1>1, <2>1 DEF ReadEvidence, ExportTypeOK, sourceVars, storeVars, objectVars
<1>2. CASE ReadLatest(r)
  <2>1. latest \in Schedules \cup {0}
    BY <1>0 DEF ExportTypeOK
  <2>2. runs' \in [Runs -> Run]
    BY <1>0, <1>2, <2>1, MovedRun, BecomesRun DEF ReadLatest
  <2> QED BY <1>0, <1>2, <2>2 DEF ReadLatest, ExportTypeOK, sourceVars, storeVars, objectVars
<1>3. CASE SwapLatest(r)
  <2>1. runs' \in [Runs -> Run]
    BY <1>0, <1>3, MovedRun, EndedIsRun, BecomesRun DEF SwapLatest
  <2> QED BY <1>0, <1>3, <2>1, RunFields DEF SwapLatest, ExportTypeOK, sourceVars, storeVars
<1>4. CASE LoseSwap(r)
  <2>1. [At("publishing", runs[r].schedule) EXCEPT !.lost = runs[r].lost + 1] \in Run
    <3>1. runs[r].lost + 1 \in Nat
      BY <1>0, RunFields DEF Run
    <3>2. At("publishing", runs[r].schedule) \in Run
      BY <1>0, MovedRun
    <3> QED BY <3>1, <3>2 DEF Run
  <2>2. runs' \in [Runs -> Run]
    BY <1>0, <1>4, <2>1, EndedIsRun, BecomesRun DEF LoseSwap
  <2> QED BY <1>0, <1>4, <2>2 DEF LoseSwap, ExportTypeOK, sourceVars, storeVars, objectVars
<1>5. CASE Fail(r)
  <2>1. runs' \in [Runs -> Run]
    BY <1>0, <1>5, MovedRun, BecomesRun DEF Fail
  <2> QED BY <1>0, <1>5, <2>1 DEF Fail, ExportTypeOK, sourceVars, storeVars, objectVars
<1>6. CASE Stop(r)
  <2>1. runs' \in [Runs -> Run]
    BY <1>0, <1>6, EndedIsRun, BecomesRun DEF Stop
  <2> QED BY <1>0, <1>6, <2>1 DEF Stop, ExportTypeOK, sourceVars, storeVars, objectVars
<1> QED BY <1>1, <1>2, <1>3, <1>4, <1>5, <1>6

-----------------------------------------------------------------------------
(* The exports: what a step never takes back, and what the runs that do    *)
(* not move keep because of it.                                            *)

\* Instances and organizations of the source, objects, audits, successes and
\* the pointer only grow.
Grows ==
  /\ instances \subseteq instances'
  /\ \A s \in Schedules :
       /\ artifact[s] # None => artifact'[s] = artifact[s]
       /\ evidence[s] # None => evidence'[s] = evidence[s]
       /\ audits[s] \subseteq audits'[s]
       /\ op[s] = "succeeded" => op'[s] = "succeeded"
  /\ latest' >= latest

LEMMA RunKept ==
  ASSUME ExportTypeOK, ExportTypeOK', Grows, NEW r \in Runs, RunHolds(r), runs'[r] = runs[r]
  PROVE  RunHolds(r)'
<1>1. latest \in Nat /\ latest' \in Nat
  BY BackupAssumption DEF ExportTypeOK
<1>2. runs[r] \in Run
  BY RunFields
<1>3. runs[r].pc = "stored" => artifact[runs[r].schedule] # None
  BY <1>2, AbsentBackup DEF RunHolds, Run
<1>4. runs[r].schedule \in Schedules => runs[r].schedule \in Nat
  BY BackupAssumption
<1>5. runs[r].pc \notin {"idle", "ended"} => runs[r].schedule \in Schedules
  BY DEF RunHolds
<1>6. runs[r].pc = "listed" => \A o \in runs[r].todo : InstanceOf[o] \in instances'
  BY DEF RunHolds, Grows
<1>7. runs[r].pc = "stored" => artifact'[runs[r].schedule] = runs[r].draft
  BY <1>3, <1>5 DEF RunHolds, Grows
<1>8. runs[r].pc \in {"evidenced", "audited"} => evidence'[runs[r].schedule] # None
  BY <1>5 DEF RunHolds, Grows
<1>9. runs[r].pc = "audited" => "succeeded" \in audits'[runs[r].schedule]
  BY <1>5 DEF RunHolds, Grows
<1>10. runs[r].pc \in Publishing \cup {"confirmed"} => op'[runs[r].schedule] = "succeeded"
  BY <1>5 DEF RunHolds, Grows, Publishing
<1>11. runs[r].pc = "confirmed" => latest' >= runs[r].schedule
  BY <1>1, <1>4, <1>5 DEF RunHolds, Grows
<1> QED BY <1>6, <1>7, <1>8, <1>9, <1>10, <1>11 DEF RunHolds

\* A transition leaves a success alone, and only a running claim is past its deadline.
LEMMA TransitionHolds ==
  ASSUME ExportTypeOK, StoreHolds, NEW s \in Schedules, NEW to \in States, Transition(s, to),
         UNCHANGED expired
  PROVE  /\ op[s] # "succeeded"
         /\ op'[s] = to
         /\ \A q \in Schedules : q # s => op'[q] = op[q]
         /\ \A q \in Schedules : op[q] = "succeeded" => op'[q] = "succeeded"
         /\ \A q \in expired' : op'[q] = "running"
<1>1. op[s] # "succeeded"
  BY DEF Transition, Allowed
<1>2. op'[s] = to /\ \A q \in Schedules : q # s => op'[q] = op[q]
  BY DEF Transition, ExportTypeOK
<1>3. s \notin expired /\ expired \subseteq Schedules
  BY DEF Transition, ExportTypeOK
<1> QED BY <1>1, <1>2, <1>3 DEF StoreHolds

-----------------------------------------------------------------------------
(* The exports: every step keeps the invariant.                            *)

LEMMA StepKeepsInv ==
  ASSUME ExportInv, ExportTypeOK', Grows, SourceHolds', StoreHolds', NEW r \in Runs,
         \A q \in Runs : q # r => runs'[q] = runs[q], RunHolds(r)'
  PROVE  ExportInv'
  BY RunKept DEF ExportInv

LEMMA OnlyOneRun ==
  ASSUME ExportTypeOK, NEW r \in Runs, NEW run, Become(r, run)
  PROVE  runs'[r] = run /\ \A q \in Runs : q # r => runs'[q] = runs[q]
  BY DEF ExportTypeOK, Become

LEMMA OnlyOneAnswered ==
  ASSUME ExportTypeOK, NEW r \in Runs, NEW run, Answered(r, run)
  PROVE  /\ runs'[r] = run \/ runs'[r] = At("failing", runs[r].schedule)
         /\ \A q \in Runs : q # r => runs'[q] = runs[q]
  BY OnlyOneRun DEF Answered

\* A run that holds nothing asks for nothing.
LEMMA RestingRun ==
  ASSUME NEW r \in Runs, NEW s \in Schedules,
         NEW p \in {"created", "started", "failing", "marking"},
         runs'[r] = At(p, s) \/ runs'[r] = Ended
  PROVE  RunHolds(r)'
<1>1. CASE runs'[r] = At(p, s)
  BY <1>1 DEF At, RunHolds, Publishing
<1>2. CASE runs'[r] = Ended
  BY <1>2 DEF Ended, At, RunHolds, Publishing
<1> QED BY <1>1, <1>2

LEMMA SourceStepInv == ASSUME ExportInv, SourceStep PROVE ExportInv'
<1>0. ExportTypeOK
  BY DEF ExportInv
<1>1. ExportTypeOK'
  BY <1>0, SourceStepTypes
<1>2. UNCHANGED <<storeVars, objectVars, runs>> /\ instances \subseteq instances'
  BY DEF SourceStep, Bootstrap, Onboard, Delete
<1>3. latest \in Nat
  BY <1>0, BackupAssumption DEF ExportTypeOK
<1>4. Grows
  BY <1>2, <1>3 DEF Grows, storeVars, objectVars
<1>5. SourceHolds'
  <2>0. orgs \in [Orgs -> {"absent", "present", "deleted"}]
    BY <1>0 DEF ExportTypeOK
  <2>1. ASSUME NEW i \in Instances, Bootstrap(i) PROVE SourceHolds'
    <3>1. InstanceOf[FirstOrg[i]] = i
      BY BackupAssumption
    <3> QED BY <2>0, <2>1, <3>1, BackupAssumption DEF ExportInv, SourceHolds, Bootstrap
  <2>2. ASSUME NEW o \in Orgs, Onboard(o) PROVE SourceHolds'
    BY <2>0, <2>2, BackupAssumption DEF ExportInv, SourceHolds, Onboard
  <2>3. ASSUME NEW o \in Orgs, Delete(o) PROVE SourceHolds'
    BY <2>0, <2>3, BackupAssumption DEF ExportInv, SourceHolds, Delete
  <2> QED BY <2>1, <2>2, <2>3 DEF SourceStep
<1>6. StoreHolds'
  BY <1>2 DEF ExportInv, StoreHolds, storeVars, objectVars, Genuine
<1>7. \A r \in Runs : RunHolds(r)'
  BY <1>0, <1>1, <1>2, <1>4, RunKept DEF ExportInv
<1> QED BY <1>1, <1>5, <1>6, <1>7 DEF ExportInv

LEMMA ExpireInv == ASSUME ExportInv, NEW s \in Schedules, Expire(s) PROVE ExportInv'
<1>0. ExportTypeOK
  BY DEF ExportInv
<1>1. ExportTypeOK'
  BY <1>0 DEF Expire, ExportTypeOK, sourceVars, objectVars
<1>2. latest \in Nat
  BY <1>0, BackupAssumption DEF ExportTypeOK
<1>3. Grows
  BY <1>2 DEF Grows, Expire, sourceVars, objectVars
<1>4. SourceHolds' /\ StoreHolds'
  BY DEF ExportInv, SourceHolds, StoreHolds, Expire, sourceVars, objectVars, Genuine
<1>5. \A r \in Runs : RunHolds(r)'
  BY <1>0, <1>1, <1>3, RunKept DEF ExportInv, Expire
<1> QED BY <1>1, <1>4, <1>5 DEF ExportInv

LEMMA InvokeInv ==
  ASSUME ExportInv, NEW r \in Runs, NEW s \in Schedules, Invoke(r, s)
  PROVE  ExportInv'
<1>0. ExportTypeOK
  BY DEF ExportInv
<1>1. ExportTypeOK'
  BY <1>0, InvokeTypes
<1>2. latest \in Nat
  BY <1>0, BackupAssumption DEF ExportTypeOK
<1>3. op'[s] = "pending" /\ (\A q \in Schedules : q # s => op'[q] = op[q]) /\ op[s] = "absent"
  BY <1>0 DEF Invoke, ExportTypeOK
<1>4. Grows
  BY <1>2, <1>3 DEF Grows, Invoke, sourceVars, objectVars
<1>5. SourceHolds'
  BY DEF ExportInv, SourceHolds, Invoke, sourceVars
<1>6. StoreHolds'
  <2>1. \A q \in expired' : op'[q] = "running"
    BY <1>0, <1>3 DEF ExportInv, StoreHolds, Invoke, ExportTypeOK
  <2>2. latest' # 0 => op'[latest'] = "succeeded"
    BY <1>0, <1>3 DEF ExportInv, StoreHolds, Invoke, ExportTypeOK, objectVars
  <2> QED BY <1>3, <2>1, <2>2 DEF ExportInv, StoreHolds, Invoke, objectVars, sourceVars, Genuine
<1>7. /\ runs'[r] = At("created", s) \/ runs'[r] = Ended
      /\ \A q \in Runs : q # r => runs'[q] = runs[q]
  BY <1>0, OnlyOneRun DEF Invoke
<1>8. RunHolds(r)'
  BY <1>7, RestingRun
<1> QED BY <1>1, <1>4, <1>5, <1>6, <1>7, <1>8, StepKeepsInv

LEMMA InvokeAgainInv ==
  ASSUME ExportInv, NEW r \in Runs, NEW s \in Schedules, InvokeAgain(r, s)
  PROVE  ExportInv'
<1>0. ExportTypeOK
  BY DEF ExportInv
<1>1. ExportTypeOK'
  BY <1>0, InvokeTypes
<1>2. latest \in Nat
  BY <1>0, BackupAssumption DEF ExportTypeOK
<1>3. /\ \A q \in Schedules : q # s => op'[q] = op[q]
      /\ op[s] = "succeeded" => op'[s] = "succeeded"
      /\ op'[s] = "succeeded" => op[s] = "succeeded"
      /\ s \notin expired' /\ expired' \subseteq expired
  <2>1. op[s] = "succeeded" => s \notin expired
    BY DEF ExportInv, StoreHolds
  <2> QED BY <1>0, <2>1 DEF InvokeAgain, ExportTypeOK
<1>4. Grows
  BY <1>2, <1>3 DEF Grows, InvokeAgain, sourceVars, objectVars
<1>5. SourceHolds'
  BY DEF ExportInv, SourceHolds, InvokeAgain, sourceVars
<1>6. StoreHolds'
  <2>1. \A q \in expired' : op'[q] = "running"
    BY <1>0, <1>3 DEF ExportInv, StoreHolds, ExportTypeOK
  <2>2. latest' # 0 => op'[latest'] = "succeeded"
    BY <1>0, <1>3 DEF ExportInv, StoreHolds, InvokeAgain, ExportTypeOK, objectVars
  <2>3. \A q \in Schedules : op'[q] = "succeeded" => op[q] = "succeeded"
    BY <1>3
  <2> QED BY <2>1, <2>2, <2>3 DEF ExportInv, StoreHolds, InvokeAgain, objectVars, sourceVars, Genuine
<1>7. /\ runs'[r] = IF IsPublishable(s) THEN At("republishing", s) ELSE Ended
      /\ \A q \in Runs : q # r => runs'[q] = runs[q]
  BY <1>0, OnlyOneRun DEF InvokeAgain
<1>8. RunHolds(r)'
  <2>1. CASE IsPublishable(s)
    BY <1>3, <1>7, <2>1 DEF IsPublishable, At, RunHolds, Publishing
  <2>2. CASE ~IsPublishable(s)
    BY <1>7, <2>2, RestingRun
  <2> QED BY <2>1, <2>2
<1> QED BY <1>1, <1>4, <1>5, <1>6, <1>7, <1>8, StepKeepsInv

LEMMA TransitionInv ==
  ASSUME ExportInv, NEW r \in Runs, NEW s \in Schedules, NEW to \in States, Transition(s, to),
         to = "succeeded" => evidence[s] # None /\ "succeeded" \in audits[s],
         UNCHANGED <<sourceVars, expired, audits, objectVars>>
  PROVE  Grows /\ SourceHolds' /\ StoreHolds' /\ op'[s] = to
<1>0. ExportTypeOK /\ StoreHolds
  BY DEF ExportInv
<1>1. /\ op'[s] = to
      /\ \A q \in Schedules : q # s => op'[q] = op[q]
      /\ \A q \in Schedules : op[q] = "succeeded" => op'[q] = "succeeded"
      /\ \A q \in expired' : op'[q] = "running"
  BY <1>0, TransitionHolds
<1>2. latest \in Nat /\ latest \in Schedules \cup {0}
  BY <1>0, BackupAssumption DEF ExportTypeOK
<1>3. Grows
  BY <1>1, <1>2 DEF Grows, sourceVars, objectVars
<1>4. SourceHolds'
  BY DEF ExportInv, SourceHolds, sourceVars
<1>5. \A q \in Schedules : op'[q] = "succeeded" => evidence[q] # None /\ "succeeded" \in audits[q]
  BY <1>0, <1>1 DEF StoreHolds
<1>6. StoreHolds'
  BY <1>0, <1>1, <1>2, <1>5 DEF StoreHolds, sourceVars, objectVars, Genuine
<1> QED BY <1>1, <1>3, <1>4, <1>6

LEMMA OperationStepInv ==
  ASSUME ExportInv, NEW r \in Runs, Start(r) \/ Succeed(r) \/ MarkFailed(r)
  PROVE  ExportInv'
<1> DEFINE s == runs[r].schedule
<1>0. ExportTypeOK
  BY DEF ExportInv
<1>1. ExportTypeOK'
  BY RecordTypes
<1>2. s \in Schedules
  BY WorkHasSchedule DEF Start, Succeed, MarkFailed
<1>3. CASE Start(r)
  <2>1. Grows /\ SourceHolds' /\ StoreHolds'
    BY <1>2, <1>3, TransitionInv DEF Start, States
  <2>2. /\ runs'[r] = At("started", s) \/ runs'[r] = At("failing", s)
        /\ \A q \in Runs : q # r => runs'[q] = runs[q]
    BY <1>0, <1>3, OnlyOneAnswered DEF Start
  <2>3. RunHolds(r)'
    BY <1>2, <2>2, RestingRun
  <2> QED BY <1>1, <2>1, <2>2, <2>3, StepKeepsInv
<1>4. CASE Succeed(r)
  <2>0. evidence[s] # None /\ "succeeded" \in audits[s]
    BY <1>4 DEF ExportInv, RunHolds, Succeed
  <2>1. Grows /\ SourceHolds' /\ StoreHolds' /\ op'[s] = "succeeded"
    BY <1>2, <1>4, <2>0, TransitionInv DEF Succeed, States
  <2>2. /\ runs'[r] = At("publishing", s) \/ runs'[r] = At("failing", s)
        /\ \A q \in Runs : q # r => runs'[q] = runs[q]
    BY <1>0, <1>4, OnlyOneAnswered DEF Succeed
  <2>3. RunHolds(r)'
    <3>1. CASE runs'[r] = At("publishing", s)
      BY <1>2, <2>1, <3>1 DEF At, RunHolds, Publishing
    <3>2. CASE runs'[r] = At("failing", s)
      BY <1>2, <3>2, RestingRun
    <3> QED BY <2>2, <3>1, <3>2
  <2> QED BY <1>1, <2>1, <2>2, <2>3, StepKeepsInv
<1>5. CASE MarkFailed(r)
  <2>1. Grows /\ SourceHolds' /\ StoreHolds'
    BY <1>2, <1>5, TransitionInv DEF MarkFailed, States
  <2>2. runs'[r] = Ended /\ \A q \in Runs : q # r => runs'[q] = runs[q]
    BY <1>0, <1>5, OnlyOneRun DEF MarkFailed
  <2>3. RunHolds(r)'
    BY <1>2, <2>2, RestingRun
  <2> QED BY <1>1, <2>1, <2>2, <2>3, StepKeepsInv
<1> QED BY <1>3, <1>4, <1>5

\* A step of a run that changes neither the source nor the store nor the objects.
LEMMA QuietStep ==
  ASSUME ExportInv, ExportTypeOK', UNCHANGED <<sourceVars, storeVars, objectVars>>, NEW r \in Runs,
         \A q \in Runs : q # r => runs'[q] = runs[q], RunHolds(r)'
  PROVE  ExportInv'
<1>1. latest \in Nat
  BY BackupAssumption DEF ExportInv, ExportTypeOK
<1>2. Grows
  BY <1>1 DEF Grows, sourceVars, storeVars, objectVars
<1>3. SourceHolds' /\ StoreHolds'
  BY DEF ExportInv, SourceHolds, StoreHolds, sourceVars, storeVars, objectVars, Genuine
<1> QED BY <1>2, <1>3, StepKeepsInv

LEMMA ListInv == ASSUME ExportInv, NEW r \in Runs, List(r) PROVE ExportInv'
<1>0. ExportTypeOK /\ SourceHolds
  BY DEF ExportInv
<1>1. ExportTypeOK'
  BY <1>0, ReadTypes
<1>2. runs[r] \in Run /\ runs[r].schedule \in Schedules
  BY <1>0, RunFields, WorkHasSchedule DEF List
<1>3. /\ runs'[r] = [runs[r] EXCEPT !.pc = "listed", !.todo = Present]
      /\ \A q \in Runs : q # r => runs'[q] = runs[q]
  BY <1>0, OnlyOneRun DEF List
<1>4. Canary \in Present /\ \A o \in Present : InstanceOf[o] \in instances
  BY <1>0, BackupAssumption DEF SourceHolds, Present
<1>5. UNCHANGED instances
  BY DEF List, sourceVars
<1>6. /\ runs'[r].pc = "listed" /\ runs'[r].todo = Present
      /\ runs'[r].schedule = runs[r].schedule
  BY <1>2, <1>3 DEF Run
<1>7. RunHolds(r)'
  BY <1>2, <1>4, <1>5, <1>6 DEF RunHolds, Publishing
<1> QED BY <1>1, <1>3, <1>7, QuietStep DEF List

LEMMA ReadInstanceInv == ASSUME ExportInv, NEW r \in Runs, ReadInstance(r) PROVE ExportInv'
<1>0. ExportTypeOK
  BY DEF ExportInv
<1>1. ExportTypeOK'
  BY <1>0, ReadTypes
<1>2. runs[r] \in Run /\ runs[r].schedule \in Schedules
  BY <1>0, RunFields, WorkHasSchedule DEF ReadInstance
<1>3. /\ runs'[r] = [runs[r] EXCEPT !.pc = "reading", !.draft = InstanceRows]
      /\ \A q \in Runs : q # r => runs'[q] = runs[q]
  BY <1>0, OnlyOneRun DEF ReadInstance
<1>4. InstanceRows.instances = instances /\ InstanceRows.orgs = {}
  BY DEF InstanceRows, Nothing
<1>5. Canary \in runs[r].todo /\ \A o \in runs[r].todo : InstanceOf[o] \in instances
  BY DEF ExportInv, RunHolds, ReadInstance
<1>6. /\ runs'[r].pc = "reading" /\ runs'[r].todo = runs[r].todo
      /\ runs'[r].draft = InstanceRows /\ runs'[r].schedule = runs[r].schedule
  BY <1>2, <1>3 DEF Run
<1>7. RunHolds(r)'
  BY <1>2, <1>4, <1>5, <1>6 DEF RunHolds, Publishing
<1> QED BY <1>1, <1>3, <1>7, QuietStep DEF ReadInstance

\* The canary is there to be read when its turn comes.
LEMMA ReadOrganizationInv ==
  ASSUME ExportInv, NEW r \in Runs, NEW o \in Orgs, ReadOrganization(r, o)
  PROVE  ExportInv'
<1>0. ExportTypeOK
  BY DEF ExportInv
<1>1. ExportTypeOK'
  BY <1>0, ReadTypes
<1>2. runs[r] \in Run /\ runs[r].schedule \in Schedules /\ runs[r].draft \in Backup
  BY <1>0, RunFields, WorkHasSchedule DEF ReadOrganization
<1>3. /\ runs'[r] = [runs[r] EXCEPT !.todo = @ \ {o}, !.draft.orgs = @ \cup ({o} \cap Present)]
      /\ \A q \in Runs : q # r => runs'[q] = runs[q]
  BY <1>0, OnlyOneRun DEF ReadOrganization
<1>4. /\ runs'[r].pc = "reading" /\ runs'[r].schedule = runs[r].schedule
      /\ runs'[r].todo = runs[r].todo \ {o}
      /\ runs'[r].draft.orgs = runs[r].draft.orgs \cup ({o} \cap Present)
      /\ runs'[r].draft.instances = runs[r].draft.instances
  BY <1>2, <1>3 DEF Run, Backup, ReadOrganization
<1>5. Canary \in Present
  BY BackupAssumption DEF ExportInv, SourceHolds, Present
<1>6. /\ Canary \in runs[r].todo \cup runs[r].draft.orgs
      /\ \A p \in runs[r].todo \cup runs[r].draft.orgs : InstanceOf[p] \in runs[r].draft.instances
      /\ o \in runs[r].todo
  BY DEF ExportInv, RunHolds, ReadOrganization
<1>7. RunHolds(r)'
  BY <1>2, <1>4, <1>5, <1>6 DEF RunHolds, Publishing
<1> QED BY <1>1, <1>3, <1>7, QuietStep DEF ReadOrganization

LEMMA StoreArtifactInv == ASSUME ExportInv, NEW r \in Runs, StoreArtifact(r) PROVE ExportInv'
<1> DEFINE s == runs[r].schedule
<1>0. ExportTypeOK
  BY DEF ExportInv
<1>1. ExportTypeOK'
  BY StoreTypes
<1>2. runs[r] \in Run /\ s \in Schedules /\ runs[r].draft \in Backup
  BY <1>0, RunFields, WorkHasSchedule DEF StoreArtifact
<1>3. /\ runs'[r] = [runs[r] EXCEPT !.pc = "stored"] \/ runs'[r] = At("failing", s)
      /\ \A q \in Runs : q # r => runs'[q] = runs[q]
  BY <1>0, OnlyOneAnswered DEF StoreArtifact
<1>4. /\ artifact[s] = None /\ artifact'[s] = runs[r].draft
      /\ \A q \in Schedules : q # s => artifact'[q] = artifact[q]
  BY <1>0, <1>2 DEF StoreArtifact, ExportTypeOK
<1>5. Genuine(runs[r].draft)
  BY DEF ExportInv, RunHolds, StoreArtifact, Genuine
<1>6. latest \in Nat
  BY <1>0, BackupAssumption DEF ExportTypeOK
<1>7. Grows
  BY <1>4, <1>6 DEF Grows, StoreArtifact, sourceVars, storeVars
<1>8. SourceHolds'
  BY DEF ExportInv, SourceHolds, StoreArtifact, sourceVars
<1>9. StoreHolds'
  <2>1. evidence[s] = None
    BY <1>2, <1>4 DEF ExportInv, StoreHolds
  <2>2. \A q \in Schedules : artifact'[q] # None => Genuine(artifact'[q])
    BY <1>4, <1>5 DEF ExportInv, StoreHolds
  <2>3. \A q \in Schedules : evidence'[q] # None => evidence'[q] = artifact'[q]
    BY <1>4, <2>1 DEF ExportInv, StoreHolds, StoreArtifact
  <2> QED BY <2>2, <2>3 DEF ExportInv, StoreHolds, StoreArtifact, storeVars, Genuine
<1>10. RunHolds(r)'
  <2>1. CASE runs'[r] = [runs[r] EXCEPT !.pc = "stored"]
    <3>1. /\ runs'[r].pc = "stored" /\ runs'[r].schedule = s
          /\ runs'[r].draft = runs[r].draft
      BY <1>2, <2>1 DEF Run
    <3> QED BY <1>2, <1>4, <3>1 DEF RunHolds, Publishing
  <2>2. CASE runs'[r] = At("failing", s)
    BY <1>2, <2>2, RestingRun
  <2> QED BY <1>3, <2>1, <2>2
<1> QED BY <1>1, <1>3, <1>7, <1>8, <1>9, <1>10, StepKeepsInv

LEMMA StoreEvidenceInv == ASSUME ExportInv, NEW r \in Runs, StoreEvidence(r) PROVE ExportInv'
<1> DEFINE s == runs[r].schedule
<1>0. ExportTypeOK
  BY DEF ExportInv
<1>1. ExportTypeOK'
  BY StoreTypes
<1>2. s \in Schedules /\ runs[r].draft \in Backup
  BY <1>0, RunFields, WorkHasSchedule DEF StoreEvidence
<1>3. /\ runs'[r] = At("evidenced", s) \/ runs'[r] = At("failing", s)
      /\ \A q \in Runs : q # r => runs'[q] = runs[q]
  BY <1>0, OnlyOneAnswered DEF StoreEvidence
<1>4. /\ evidence[s] = None /\ evidence'[s] = runs[r].draft /\ evidence'[s] # None
      /\ \A q \in Schedules : q # s => evidence'[q] = evidence[q]
  BY <1>0, <1>2, AbsentBackup DEF StoreEvidence, ExportTypeOK
<1>5. artifact[s] = runs[r].draft
  BY DEF ExportInv, RunHolds, StoreEvidence
<1>6. latest \in Nat
  BY <1>0, BackupAssumption DEF ExportTypeOK
<1>7. Grows
  BY <1>4, <1>6 DEF Grows, StoreEvidence, sourceVars, storeVars
<1>8. SourceHolds'
  BY DEF ExportInv, SourceHolds, StoreEvidence, sourceVars
<1>9. StoreHolds'
  BY <1>4, <1>5 DEF ExportInv, StoreHolds, StoreEvidence, storeVars, Genuine
<1>10. RunHolds(r)'
  <2>1. CASE runs'[r] = At("evidenced", s)
    BY <1>2, <1>4, <2>1 DEF At, RunHolds, Publishing
  <2>2. CASE runs'[r] = At("failing", s)
    BY <1>2, <2>2, RestingRun
  <2> QED BY <1>3, <2>1, <2>2
<1> QED BY <1>1, <1>3, <1>7, <1>8, <1>9, <1>10, StepKeepsInv

LEMMA RecordInv ==
  ASSUME ExportInv, NEW r \in Runs, RecordSuccess(r) \/ RecordFailure(r)
  PROVE  ExportInv'
<1> DEFINE s == runs[r].schedule
<1>0. ExportTypeOK
  BY DEF ExportInv
<1>1. ExportTypeOK'
  BY RecordTypes
<1>2. s \in Schedules
  BY WorkHasSchedule DEF RecordSuccess, RecordFailure
<1>3. \A q \in Schedules : audits[q] \subseteq audits'[q]
  BY <1>0 DEF RecordSuccess, RecordFailure, ExportTypeOK
<1>4. latest \in Nat
  BY <1>0, BackupAssumption DEF ExportTypeOK
<1>5. UNCHANGED <<sourceVars, op, expired, objectVars>>
  BY DEF RecordSuccess, RecordFailure
<1>6. Grows
  BY <1>3, <1>4, <1>5 DEF Grows, sourceVars, objectVars
<1>7. SourceHolds' /\ StoreHolds'
  BY <1>3, <1>5 DEF ExportInv, SourceHolds, StoreHolds, sourceVars, objectVars, Genuine
<1>8. CASE RecordSuccess(r)
  <2>1. /\ runs'[r] = At("audited", s) \/ runs'[r] = At("failing", s)
        /\ \A q \in Runs : q # r => runs'[q] = runs[q]
    BY <1>0, <1>8, OnlyOneAnswered DEF RecordSuccess
  <2>2. RunHolds(r)'
    <3>1. CASE runs'[r] = At("audited", s)
      <4>1. "succeeded" \in audits'[s]
        BY <1>0, <1>2, <1>8 DEF RecordSuccess, ExportTypeOK
      <4>2. evidence'[s] # None
        BY <1>8 DEF ExportInv, RunHolds, RecordSuccess, objectVars
      <4> QED BY <1>2, <3>1, <4>1, <4>2 DEF At, RunHolds, Publishing
    <3>2. CASE runs'[r] = At("failing", s)
      BY <1>2, <3>2, RestingRun
    <3> QED BY <2>1, <3>1, <3>2
  <2> QED BY <1>1, <1>6, <1>7, <2>1, <2>2, StepKeepsInv
<1>9. CASE RecordFailure(r)
  <2>1. /\ runs'[r] = At("marking", s) \/ runs'[r] = Ended
        /\ \A q \in Runs : q # r => runs'[q] = runs[q]
    BY <1>0, <1>9, OnlyOneRun DEF RecordFailure
  <2>2. RunHolds(r)'
    BY <1>2, <2>1, RestingRun
  <2> QED BY <1>1, <1>6, <1>7, <2>1, <2>2, StepKeepsInv
<1> QED BY <1>8, <1>9

LEMMA LookInv ==
  ASSUME ExportInv, NEW r \in Runs, ReadEvidence(r) \/ ReadLatest(r) \/ LoseSwap(r)
  PROVE  ExportInv'
<1> DEFINE s == runs[r].schedule
<1>0. ExportTypeOK
  BY DEF ExportInv
<1>1. ExportTypeOK'
  BY PublishTypes
<1>2. runs[r] \in Run /\ s \in Schedules
  BY <1>0, RunFields, WorkHasSchedule DEF ReadEvidence, ReadLatest, LoseSwap
<1>3. op[s] = "succeeded"
  BY DEF ExportInv, RunHolds, ReadEvidence, ReadLatest, LoseSwap, Publishing
<1>4. UNCHANGED <<sourceVars, storeVars, objectVars>>
  BY DEF ReadEvidence, ReadLatest, LoseSwap
<1>5. latest \in Nat /\ s \in Nat
  <2>1. Schedules \subseteq Nat
    BY BackupAssumption
  <2>2. latest \in Schedules \cup {0}
    BY <1>0 DEF ExportTypeOK
  <2>3. latest \in Nat
    BY <2>1, <2>2
  <2>4. s \in Nat
    BY <1>2, <2>1
  <2> QED BY <2>3, <2>4
<1>6. CASE ReadEvidence(r)
  <2>1. /\ runs'[r] = [runs[r] EXCEPT !.pc = "publishing"]
        /\ \A q \in Runs : q # r => runs'[q] = runs[q]
    BY <1>0, <1>6, OnlyOneRun DEF ReadEvidence, Reach
  <2>2. runs'[r].pc = "publishing" /\ runs'[r].schedule = s
    BY <1>2, <2>1 DEF Run
  <2>3. RunHolds(r)'
    BY <1>2, <1>3, <1>4, <2>2 DEF RunHolds, Publishing, storeVars
  <2> QED BY <1>1, <1>4, <2>1, <2>3, QuietStep
<1>7. CASE ReadLatest(r)
  <2>1. /\ runs'[r] = IF latest > s THEN At("confirmed", s)
                       ELSE [runs[r] EXCEPT !.pc = "swapping", !.seen = latest]
        /\ \A q \in Runs : q # r => runs'[q] = runs[q]
    BY <1>0, <1>7, OnlyOneRun DEF ReadLatest
  <2>2. RunHolds(r)'
    <3>1. CASE latest > s
      <4>1. runs'[r].pc = "confirmed" /\ runs'[r].schedule = s
        BY <2>1, <3>1 DEF At
      <4> QED BY <1>2, <1>3, <1>4, <1>5, <3>1, <4>1 DEF RunHolds, storeVars, objectVars
    <3>2. CASE ~(latest > s)
      <4>1. runs'[r].pc = "swapping" /\ runs'[r].schedule = s /\ runs'[r].seen = latest
        BY <1>2, <2>1, <3>2 DEF Run
      <4> QED BY <1>2, <1>3, <1>4, <1>5, <3>2, <4>1 DEF RunHolds, storeVars, objectVars
    <3> QED BY <3>1, <3>2
  <2> QED BY <1>1, <1>4, <2>1, <2>2, QuietStep
<1>8. CASE LoseSwap(r)
  <2>1. /\ \/ runs'[r] = [At("publishing", s) EXCEPT !.lost = runs[r].lost + 1]
           \/ runs'[r] = Ended
        /\ \A q \in Runs : q # r => runs'[q] = runs[q]
    BY <1>0, <1>8, OnlyOneRun DEF LoseSwap
  <2>2. RunHolds(r)'
    <3>1. CASE runs'[r] = [At("publishing", s) EXCEPT !.lost = runs[r].lost + 1]
      <4>1. runs'[r].pc = "publishing" /\ runs'[r].schedule = s
        BY <3>1 DEF At
      <4> QED BY <1>2, <1>3, <1>4, <4>1 DEF RunHolds, Publishing, storeVars
    <3>2. CASE runs'[r] = Ended
      BY <3>2 DEF Ended, At, RunHolds, Publishing
    <3> QED BY <2>1, <3>1, <3>2
  <2> QED BY <1>1, <1>4, <2>1, <2>2, QuietStep
<1> QED BY <1>6, <1>7, <1>8

\* The swap moves the pointer from where the run read it, which was not past its export.
LEMMA SwapLatestInv == ASSUME ExportInv, NEW r \in Runs, SwapLatest(r) PROVE ExportInv'
<1> DEFINE s == runs[r].schedule
<1>0. ExportTypeOK
  BY DEF ExportInv
<1>1. ExportTypeOK'
  BY PublishTypes
<1>2. s \in Schedules /\ s \in Nat /\ latest \in Nat
  <2>1. Schedules \subseteq Nat
    BY BackupAssumption
  <2>2. s \in Schedules
    BY WorkHasSchedule DEF SwapLatest
  <2>3. latest \in Schedules \cup {0}
    BY <1>0 DEF ExportTypeOK
  <2>4. latest \in Nat
    BY <2>1, <2>3
  <2>5. s \in Nat
    BY <2>1, <2>2
  <2> QED BY <2>2, <2>4, <2>5
<1>3. op[s] = "succeeded" /\ latest <= s
  BY DEF ExportInv, RunHolds, SwapLatest, PointerIs, Publishing
<1>4. UNCHANGED <<sourceVars, storeVars, artifact, evidence>> /\ latest' = s
  BY DEF SwapLatest
<1>5. Grows
  BY <1>2, <1>3, <1>4 DEF Grows, sourceVars, storeVars
<1>6. SourceHolds' /\ StoreHolds'
  BY <1>3, <1>4 DEF ExportInv, SourceHolds, StoreHolds, sourceVars, storeVars, Genuine
<1>7. /\ runs'[r] = At("confirmed", s) \/ runs'[r] = Ended
      /\ \A q \in Runs : q # r => runs'[q] = runs[q]
  BY <1>0, OnlyOneRun DEF SwapLatest
<1>8. RunHolds(r)'
  <2>1. CASE runs'[r] = At("confirmed", s)
    <3>1. runs'[r].pc = "confirmed" /\ runs'[r].schedule = s
      BY <2>1 DEF At
    <3> QED BY <1>2, <1>3, <1>4, <3>1 DEF RunHolds, storeVars
  <2>2. CASE runs'[r] = Ended
    BY <2>2 DEF Ended, At, RunHolds, Publishing
  <2> QED BY <1>7, <2>1, <2>2
<1> QED BY <1>1, <1>5, <1>6, <1>7, <1>8, StepKeepsInv

LEMMA FailInv == ASSUME ExportInv, NEW r \in Runs, Fail(r) \/ Stop(r) PROVE ExportInv'
<1> DEFINE s == runs[r].schedule
<1>0. ExportTypeOK
  BY DEF ExportInv
<1>1. ExportTypeOK'
  BY PublishTypes
<1>2. s \in Schedules
  BY WorkHasSchedule DEF Fail, Stop, Executing, Publishing, AtWork
<1>3. /\ runs'[r] = At("failing", s) \/ runs'[r] = Ended
      /\ \A q \in Runs : q # r => runs'[q] = runs[q]
  BY <1>0, OnlyOneRun DEF Fail, Stop
<1>4. RunHolds(r)'
  BY <1>2, <1>3, RestingRun
<1> QED BY <1>1, <1>3, <1>4, QuietStep DEF Fail, Stop

LEMMA ExportInitInv == ExportInit => ExportInv
<1> SUFFICES ASSUME ExportInit PROVE ExportInv
  OBVIOUS
<1>1. ExportTypeOK
  BY ExportInitTypes
<1>2. SourceHolds
  BY BackupAssumption DEF ExportInit, SourceHolds
<1>3. StoreHolds
  BY DEF ExportInit, StoreHolds
<1>4. \A r \in Runs : RunHolds(r)
  BY DEF ExportInit, Idle, At, RunHolds, Publishing
<1> QED BY <1>1, <1>2, <1>3, <1>4 DEF ExportInv

LEMMA ExportNextInv == ExportInv /\ ExportNext => ExportInv'
<1> SUFFICES ASSUME ExportInv, ExportNext PROVE ExportInv'
  OBVIOUS
<1>1. CASE SourceStep
  BY <1>1, SourceStepInv
<1>2. CASE \E s \in Schedules : Expire(s)
  BY <1>2, ExpireInv
<1>3. ASSUME NEW r \in Runs, RunStep(r) PROVE ExportInv'
  BY <1>3, InvokeInv, InvokeAgainInv, OperationStepInv, ListInv, ReadInstanceInv,
     ReadOrganizationInv, StoreArtifactInv, StoreEvidenceInv, RecordInv, LookInv,
     SwapLatestInv, FailInv DEF RunStep
<1> QED BY <1>1, <1>2, <1>3 DEF ExportNext

LEMMA ExportStutterInv == ExportInv /\ UNCHANGED exportVars => ExportInv'
BY DEF ExportInv, ExportTypeOK, SourceHolds, StoreHolds, RunHolds, Genuine, Present,
   exportVars, sourceVars, storeVars, objectVars

-----------------------------------------------------------------------------
(* The restores: the inductive invariant.                                  *)

\* An import that got the journal marker, unless it ended.
Past == Importing \cup {"failing", "restored"}

Copied == {"copied", "opened", "begun", "noted", "finished"}

\* The target holds all that the backup has to give.
Whole(backup) ==
  /\ target.instances = backup.instances
  /\ Restored = backup.orgs
  /\ target.claims = ImportableClaims(backup)

\* What the journal says of the target.
TargetHolds ==
  /\ journal = None => target = Fresh
  /\ \A o \in Restored : journal # None /\ target.orgs[o] = journal.export
  /\ journal # None => artifact[journal.export] # None
  /\ journal # None /\ journal.status = "succeeded" =>
       Whole(artifact[journal.export]) /\ importOp = "succeeded" /\ audited

\* What an import knows at its place.
ImportHolds(i) ==
  /\ imports[i].pc \in {"verified", "proved"} \cup Importing =>
       imports[i].export \in Schedules /\ Plan(i) # None
  /\ imports[i].pc = "proved" => lock = i /\ journal = None
  /\ imports[i].pc \in {"verified", "proved", "armed"} => imports[i].pending = Plan(i).orgs
  /\ imports[i].pc \in Importing => journal = [export |-> imports[i].export, status |-> "running"]
  /\ imports[i].pc \in Past => journal # None
  /\ imports[i].pc = "armed" => target = Fresh
  /\ imports[i].pc = "copying" =>
       /\ target.instances = Plan(i).instances
       /\ imports[i].pending \subseteq Plan(i).orgs
       /\ Restored = Plan(i).orgs \ imports[i].pending
  /\ imports[i].pc \in Copied => Whole(Plan(i))
  /\ imports[i].pc \in {"noted", "finished"} => audited
  /\ imports[i].pc = "finished" => importOp = "succeeded"
  /\ imports[i].pc = "restored" => journal = [export |-> imports[i].export, status |-> "succeeded"]

OneImport == \A i, j \in Imports : imports[i].pc \in Past /\ imports[j].pc \in Past => i = j

RestoreTypeOK ==
  /\ journal \in Journal \cup {None}
  /\ lock \in Imports \cup {None}
  /\ target \in Target
  /\ importOp \in States \cup {"absent"}
  /\ audited \in BOOLEAN
  /\ imports \in [Imports -> Import]

Inv ==
  /\ ExportInv
  /\ RestoreTypeOK
  /\ TargetHolds
  /\ OneImport
  /\ \A i \in Imports : ImportHolds(i)

-----------------------------------------------------------------------------
(* The restores: what a step leaves alone.                                 *)

LEMMA OnlyOneImport ==
  ASSUME RestoreTypeOK, NEW i \in Imports, NEW import, Arrive(i, import)
  PROVE  imports'[i] = import /\ \A j \in Imports : j # i => imports'[j] = imports[j]
  BY DEF RestoreTypeOK, Arrive

LEMMA ArrivesImport ==
  ASSUME RestoreTypeOK, NEW i \in Imports, NEW import \in Import, Arrive(i, import)
  PROVE  imports' \in [Imports -> Import]
  BY DEF RestoreTypeOK, Arrive

LEMMA ImportFields ==
  ASSUME RestoreTypeOK, NEW i \in Imports
  PROVE  /\ imports[i] \in Import
         /\ imports[i].export \in Schedules \cup {0}
         /\ imports[i].pending \subseteq Orgs
  BY DEF RestoreTypeOK, Import

LEMMA RestingImport ==
  ASSUME NEW p \in {"idle", "ended", "failing"} PROVE ImportAt(p) \in Import
  BY DEF ImportAt, Import, Restoring

LEMMA MovedImport ==
  ASSUME RestoreTypeOK, NEW i \in Imports, NEW p \in Restoring \cup {"idle", "restored", "ended"}
  PROVE  [imports[i] EXCEPT !.pc = p] \in Import
  BY ImportFields DEF Import

LEMMA AdvancedImport ==
  ASSUME RestoreTypeOK, NEW i \in Imports, NEW next \in Restoring \cup {"restored"},
         NEW lost \in {"ended", "failing"}, Advance(i, next, lost)
  PROVE  /\ imports' \in [Imports -> Import]
         /\ \A j \in Imports : j # i => imports'[j] = imports[j]
         /\ \/ imports'[i] = ImportAt(lost)
            \/ /\ imports'[i] = [imports[i] EXCEPT !.pc = next]
               /\ imports'[i].pc = next
               /\ imports'[i].export = imports[i].export
               /\ imports'[i].pending = imports[i].pending
<1>1. imports' \in [Imports -> Import]
  BY MovedImport, RestingImport, ArrivesImport DEF Advance
<1>2. /\ \A j \in Imports : j # i => imports'[j] = imports[j]
      /\ imports'[i] = ImportAt(lost) \/ imports'[i] = [imports[i] EXCEPT !.pc = next]
  BY OnlyOneImport DEF Advance
<1>3. /\ [imports[i] EXCEPT !.pc = next].pc = next
      /\ [imports[i] EXCEPT !.pc = next].export = imports[i].export
      /\ [imports[i] EXCEPT !.pc = next].pending = imports[i].pending
  BY ImportFields DEF Import
<1> QED BY <1>1, <1>2, <1>3

\* An import asks nothing once it has ended, and only for the marker once it fails.
LEMMA LostImport ==
  ASSUME NEW i \in Imports, \/ imports'[i] = ImportAt("ended")
                            \/ imports'[i] = ImportAt("failing") /\ journal' # None
  PROVE  ImportHolds(i)'
<1>1. CASE imports'[i] = ImportAt("ended")
  <2>1. imports'[i].pc = "ended"
    BY <1>1 DEF ImportAt
  <2> QED BY <2>1 DEF ImportHolds, Importing, Past, Copied
<1>2. CASE imports'[i] = ImportAt("failing") /\ journal' # None
  <2>1. imports'[i].pc = "failing"
    BY <1>2 DEF ImportAt
  <2> QED BY <1>2, <2>1 DEF ImportHolds, Importing, Past, Copied
<1> QED BY <1>1, <1>2

\* Artifacts are never overwritten.
ArtifactsKept == \A s \in Schedules : artifact[s] # None => artifact'[s] = artifact[s]

\* An import that does not move keeps what it knows when the database stays, or when
\* what it knows is not about the database.
LEMMA OtherKept ==
  ASSUME Inv, NEW j \in Imports, imports'[j] = imports[j], ArtifactsKept,
         \/ imports[j].pc \notin Past \cup {"proved"}
         \/ /\ UNCHANGED <<journal, target, importOp, audited>>
            /\ imports[j].pc = "proved" => lock' = lock
  PROVE  ImportHolds(j)'
<1>1. ImportHolds(j)
  BY DEF Inv
<1>2. imports[j].pc \in {"verified", "proved"} \cup Importing =>
        imports[j].export \in Schedules /\ Plan(j) # None /\ Plan(j)' = Plan(j)
  BY <1>1 DEF ImportHolds, ArtifactsKept, Plan
<1>3. CASE imports[j].pc \notin Past \cup {"proved"}
  BY <1>1, <1>2, <1>3 DEF ImportHolds, Importing, Past, Copied
<1>4. CASE /\ UNCHANGED <<journal, target, importOp, audited>>
           /\ imports[j].pc = "proved" => lock' = lock
  <2>1. Restored' = Restored
    BY <1>4 DEF Restored
  <2>2. imports[j].pc \in {"copying"} \cup Copied => Plan(j)' = Plan(j)
    BY <1>2 DEF Importing, Copied
  <2>3. imports[j].pc \in Copied => Whole(Plan(j))'
    BY <1>1, <1>4, <2>1, <2>2 DEF ImportHolds, Whole, ImportableClaims
  <2> QED BY <1>1, <1>2, <1>4, <2>1, <2>2, <2>3 DEF ImportHolds, Importing
<1> QED BY <1>3, <1>4

\* No other import passes the marker when this one did before.
LEMMA StillOneImport ==
  ASSUME OneImport, NEW i \in Imports, \A j \in Imports : j # i => imports'[j] = imports[j],
         imports'[i].pc \in Past => imports[i].pc \in Past
  PROVE  OneImport'
  BY DEF OneImport

\* A step of one import leaves the exports alone.
LEMMA ImportStepKeepsInv ==
  ASSUME Inv, UNCHANGED exportVars, RestoreTypeOK', TargetHolds', OneImport', NEW i \in Imports,
         ImportHolds(i)',
         \A j \in Imports : j # i =>
           /\ imports'[j] = imports[j]
           /\ \/ imports[j].pc \notin Past \cup {"proved"}
              \/ /\ UNCHANGED <<journal, target, importOp, audited>>
                 /\ imports[j].pc = "proved" => lock' = lock
  PROVE  Inv'
<1>1. ExportInv'
  BY ExportStutterInv DEF Inv
<1>2. ArtifactsKept
  BY DEF ArtifactsKept, exportVars, objectVars
<1>3. \A j \in Imports : ImportHolds(j)'
  BY <1>2, OtherKept
<1> QED BY <1>1, <1>3 DEF Inv

\* When an import past the marker moves, no other import is past it or at the proof.
LEMMA OthersWait ==
  ASSUME Inv, NEW i \in Imports, imports[i].pc \in Past
  PROVE  \A j \in Imports : j # i => imports[j].pc \notin Past \cup {"proved"}
<1>1. journal # None
  BY DEF Inv, ImportHolds
<1> QED BY <1>1 DEF Inv, ImportHolds, OneImport

-----------------------------------------------------------------------------
(* The restores: every step keeps the invariant.                           *)

\* Past the marker, what is to be shown is about the database and this import.
LEMMA PastStepKeepsInv ==
  ASSUME Inv, UNCHANGED exportVars, RestoreTypeOK', TargetHolds', NEW i \in Imports,
         imports[i].pc \in Past, ImportHolds(i)',
         \A j \in Imports : j # i => imports'[j] = imports[j]
  PROVE  Inv'
<1>1. \A j \in Imports : j # i => imports[j].pc \notin Past \cup {"proved"}
  BY OthersWait
<1>2. OneImport'
  BY StillOneImport DEF Inv
<1> QED BY <1>1, <1>2, ImportStepKeepsInv

LEMMA VerifyInv == ASSUME Inv, NEW i \in Imports, NEW s \in Schedules, Verify(i, s) PROVE Inv'
<1> DEFINE import == [pc |-> "verified", export |-> s, pending |-> artifact[s].orgs]
<1>0. RestoreTypeOK /\ TargetHolds /\ OneImport /\ ExportTypeOK
  BY DEF Inv, ExportInv
<1>1. artifact[s] \in Backup /\ artifact[s].orgs \in SUBSET Orgs
  BY <1>0 DEF Verify, ExportTypeOK, Backup
<1>2. import \in Import
  BY <1>1 DEF Import, Restoring
<1>3. imports'[i] = import /\ \A j \in Imports : j # i => imports'[j] = imports[j]
  BY <1>0, OnlyOneImport DEF Verify
<1>4. UNCHANGED <<exportVars, journal, lock, target, importOp, audited>> /\ UNCHANGED artifact
  BY DEF Verify, exportVars, objectVars
<1>5. RestoreTypeOK'
  BY <1>0, <1>2, <1>4, ArrivesImport DEF RestoreTypeOK, Verify
<1>6. TargetHolds'
  BY <1>0, <1>4 DEF TargetHolds, Whole, Restored, ImportableClaims
<1>7. imports'[i].pc = "verified" /\ imports'[i].export = s /\ imports'[i].pending = artifact[s].orgs
  BY <1>3
<1>8. ImportHolds(i)'
  BY <1>4, <1>7 DEF ImportHolds, Plan, Past, Importing, Copied, Verify
<1>9. OneImport'
  BY <1>0, <1>3, <1>7, StillOneImport DEF Past, Importing
<1> QED BY <1>3, <1>4, <1>5, <1>6, <1>8, <1>9, ImportStepKeepsInv

LEMMA ProveInv == ASSUME Inv, NEW i \in Imports, Prove(i) PROVE Inv'
<1>0. RestoreTypeOK /\ TargetHolds /\ OneImport /\ ImportHolds(i)
  BY DEF Inv
<1>1. [imports[i] EXCEPT !.pc = "proved"] \in Import
  BY <1>0, MovedImport DEF Restoring
<1>2. /\ imports'[i] = [imports[i] EXCEPT !.pc = "proved"]
      /\ \A j \in Imports : j # i => imports'[j] = imports[j]
  BY <1>0, OnlyOneImport DEF Prove
<1>3. /\ imports'[i].pc = "proved" /\ imports'[i].export = imports[i].export
      /\ imports'[i].pending = imports[i].pending
  BY <1>0, <1>2, ImportFields DEF Import
<1>4. UNCHANGED <<exportVars, journal, target, importOp, audited>> /\ UNCHANGED artifact
  BY DEF Prove, exportVars, objectVars
<1>5. RestoreTypeOK'
  BY <1>0, <1>1, <1>4, ArrivesImport DEF RestoreTypeOK, Prove
<1>6. TargetHolds'
  BY <1>0, <1>4 DEF TargetHolds, Whole, Restored, ImportableClaims
<1>7. ImportHolds(i)'
  BY <1>0, <1>3, <1>4 DEF ImportHolds, Plan, Past, Importing, Copied, Prove, IsFresh
<1>8. OneImport'
  BY <1>0, <1>2, <1>3, StillOneImport DEF Past, Importing
<1>9. \A j \in Imports : imports[j].pc # "proved"
  BY AbsentRestore DEF Inv, ImportHolds, Prove
<1> QED BY <1>2, <1>4, <1>5, <1>6, <1>7, <1>8, <1>9, ImportStepKeepsInv

\* The lock and the absent journal make the marker the first one.
LEMMA ArmInv == ASSUME Inv, NEW i \in Imports, Arm(i) PROVE Inv'
<1>0. RestoreTypeOK /\ TargetHolds /\ OneImport /\ ImportHolds(i)
  BY DEF Inv
<1>1. /\ imports' \in [Imports -> Import]
      /\ \A j \in Imports : j # i => imports'[j] = imports[j]
      /\ \/ imports'[i] = ImportAt("ended")
         \/ /\ imports'[i].pc = "armed"
            /\ imports'[i].export = imports[i].export
            /\ imports'[i].pending = imports[i].pending
  BY <1>0, AdvancedImport DEF Arm, Restoring, Importing
<1>2. /\ UNCHANGED <<exportVars, target, importOp, audited>> /\ UNCHANGED artifact
      /\ journal = None /\ journal' = [export |-> imports[i].export, status |-> "running"]
      /\ lock' = None
  BY DEF Arm, exportVars, objectVars
<1>3. imports[i].export \in Schedules /\ Plan(i) # None /\ imports[i].pending = Plan(i).orgs
  BY <1>0 DEF Arm, ImportHolds
<1>4. journal' \in Journal /\ journal' # None
  BY <1>2, <1>3, AbsentRestore DEF Journal
<1>5. RestoreTypeOK'
  BY <1>0, <1>1, <1>2, <1>4 DEF RestoreTypeOK
<1>6. target = Fresh /\ Restored = {}
  BY <1>0, <1>2 DEF TargetHolds, Restored, Fresh
<1>7. TargetHolds'
  <2>1. Restored' = {}
    BY <1>2, <1>6 DEF Restored
  <2>2. journal'.export = imports[i].export /\ journal'.status = "running"
    BY <1>2
  <2>3. artifact'[journal'.export] # None
    BY <1>2, <1>3, <2>2 DEF Plan
  <2> QED BY <1>4, <2>1, <2>2, <2>3 DEF TargetHolds
<1>8. ImportHolds(i)'
  <2>1. CASE imports'[i] = ImportAt("ended")
    BY <2>1, LostImport
  <2>2. CASE imports'[i] # ImportAt("ended")
    BY <1>1, <1>2, <1>3, <1>4, <1>6, <2>2 DEF ImportHolds, Plan, Past, Importing, Copied
  <2> QED BY <2>1, <2>2
<1>9. \A j \in Imports : imports[j].pc \notin Past
  BY <1>2 DEF Inv, ImportHolds
<1>10. OneImport'
  BY <1>1, <1>9 DEF OneImport
<1>11. \A j \in Imports : j # i => imports[j].pc # "proved"
  BY DEF Inv, ImportHolds, Arm
<1> QED BY <1>1, <1>2, <1>5, <1>7, <1>8, <1>9, <1>10, <1>11, ImportStepKeepsInv

LEMMA CopyInstanceInv == ASSUME Inv, NEW i \in Imports, CopyInstance(i) PROVE Inv'
<1>0. RestoreTypeOK /\ TargetHolds /\ OneImport /\ ImportHolds(i) /\ ExportTypeOK
  BY DEF Inv, ExportInv
<1>1. /\ imports' \in [Imports -> Import]
      /\ \A j \in Imports : j # i => imports'[j] = imports[j]
      /\ \/ imports'[i] = ImportAt("failing")
         \/ /\ imports'[i].pc = "copying"
            /\ imports'[i].export = imports[i].export
            /\ imports'[i].pending = imports[i].pending
  BY <1>0, AdvancedImport DEF CopyInstance, Restoring, Importing
<1>2. /\ UNCHANGED <<exportVars, journal, lock, importOp, audited>> /\ UNCHANGED artifact
      /\ target' = [target EXCEPT !.instances = Plan(i).instances]
  BY DEF CopyInstance, exportVars, objectVars
<1>3. /\ imports[i].export \in Schedules /\ Plan(i) # None /\ imports[i].pending = Plan(i).orgs
      /\ journal = [export |-> imports[i].export, status |-> "running"] /\ journal # None
      /\ target = Fresh /\ imports[i].pc \in Past
  BY <1>0 DEF CopyInstance, ImportHolds, Importing, Past
<1>4. Plan(i) \in Backup
  BY <1>0, <1>3 DEF Plan, ExportTypeOK
<1>5. target' \in Target /\ target'.instances = Plan(i).instances /\ target'.orgs = target.orgs
  BY <1>0, <1>2, <1>4 DEF RestoreTypeOK, Target, Backup
<1>6. RestoreTypeOK'
  BY <1>0, <1>1, <1>2, <1>5 DEF RestoreTypeOK
<1>7. Restored' = {}
  BY <1>3, <1>5 DEF Restored, Fresh
<1>8. TargetHolds'
  BY <1>0, <1>2, <1>3, <1>7 DEF TargetHolds
<1>9. ImportHolds(i)'
  <2>1. CASE imports'[i] = ImportAt("failing")
    BY <1>2, <1>3, <2>1, LostImport
  <2>2. CASE imports'[i] # ImportAt("failing")
    BY <1>1, <1>2, <1>3, <1>5, <1>7, <2>2 DEF ImportHolds, Plan, Past, Importing, Copied
  <2> QED BY <2>1, <2>2
<1> QED BY <1>1, <1>2, <1>3, <1>6, <1>8, <1>9, PastStepKeepsInv

LEMMA CopyOrganizationInv ==
  ASSUME Inv, NEW i \in Imports, NEW o \in Orgs, CopyOrganization(i, o)
  PROVE  Inv'
<1> DEFINE copied == [imports[i] EXCEPT !.pending = @ \ {o}]
<1>0. RestoreTypeOK /\ TargetHolds /\ OneImport /\ ImportHolds(i) /\ ExportTypeOK
  BY DEF Inv, ExportInv
<1>1. copied \in Import /\ ImportAt("failing") \in Import
  BY <1>0, ImportFields, RestingImport DEF Import
<1>2. /\ imports' \in [Imports -> Import]
      /\ \A j \in Imports : j # i => imports'[j] = imports[j]
      /\ imports'[i] = copied \/ imports'[i] = ImportAt("failing")
  BY <1>0, <1>1, OnlyOneImport, ArrivesImport DEF CopyOrganization
<1>3. /\ copied.pc = "copying" /\ copied.export = imports[i].export
      /\ copied.pending = imports[i].pending \ {o}
  BY <1>0, ImportFields DEF Import, CopyOrganization
<1>4. /\ UNCHANGED <<exportVars, journal, lock, importOp, audited>> /\ UNCHANGED artifact
      /\ target' = [target EXCEPT !.orgs[o] = imports[i].export]
      /\ o \in imports[i].pending
  BY DEF CopyOrganization, exportVars, objectVars
<1>5. /\ imports[i].export \in Schedules /\ Plan(i) # None /\ imports[i].pc \in Past
      /\ journal = [export |-> imports[i].export, status |-> "running"] /\ journal # None
      /\ target.instances = Plan(i).instances
      /\ imports[i].pending \subseteq Plan(i).orgs
      /\ Restored = Plan(i).orgs \ imports[i].pending
  BY <1>0 DEF CopyOrganization, ImportHolds, Importing, Past
<1>6. /\ target' \in Target /\ target'.instances = target.instances
      /\ target'.orgs = [target.orgs EXCEPT ![o] = imports[i].export]
  BY <1>0, <1>4, <1>5 DEF RestoreTypeOK, Target
<1>7. target.orgs \in [Orgs -> Schedules \cup {None}] /\ imports[i].export # None
  BY <1>0, <1>5, AbsentBackup DEF RestoreTypeOK, Target
<1>8. Restored' = Restored \cup {o}
  BY <1>6, <1>7 DEF Restored
<1>9. RestoreTypeOK'
  BY <1>0, <1>2, <1>4, <1>6 DEF RestoreTypeOK
<1>10. TargetHolds'
  <2>1. journal.export = imports[i].export /\ journal.status = "running"
    BY <1>5
  <2>2. \A p \in Restored' : target'.orgs[p] = journal.export
    BY <1>0, <1>6, <1>7, <1>8, <2>1 DEF TargetHolds, Restored
  <2> QED BY <1>0, <1>4, <1>5, <2>1, <2>2 DEF TargetHolds
<1>11. ImportHolds(i)'
  <2>1. CASE imports'[i] = ImportAt("failing")
    BY <1>4, <1>5, <2>1, LostImport
  <2>2. CASE imports'[i] = copied
    <3>1. Plan(i)' = Plan(i)
      BY <1>3, <1>4, <2>2 DEF Plan
    <3>2. Restored' = Plan(i).orgs \ (imports[i].pending \ {o})
      BY <1>4, <1>5, <1>8
    <3> QED BY <1>3, <1>4, <1>5, <1>6, <2>2, <3>1, <3>2 DEF ImportHolds, Past, Importing, Copied
  <2> QED BY <1>2, <2>1, <2>2
<1> QED BY <1>2, <1>4, <1>5, <1>9, <1>10, <1>11, PastStepKeepsInv

LEMMA CopyClaimsInv == ASSUME Inv, NEW i \in Imports, CopyClaims(i) PROVE Inv'
<1>0. RestoreTypeOK /\ TargetHolds /\ OneImport /\ ImportHolds(i) /\ ExportTypeOK
  BY DEF Inv, ExportInv
<1>1. /\ imports' \in [Imports -> Import]
      /\ \A j \in Imports : j # i => imports'[j] = imports[j]
      /\ \/ imports'[i] = ImportAt("failing")
         \/ imports'[i].pc = "copied" /\ imports'[i].export = imports[i].export
  BY <1>0, AdvancedImport DEF CopyClaims, Restoring, Importing
<1>2. /\ UNCHANGED <<exportVars, journal, lock, importOp, audited>> /\ UNCHANGED artifact
      /\ target' = [target EXCEPT !.claims = ImportableClaims(Plan(i))]
  BY DEF CopyClaims, exportVars, objectVars
<1>3. /\ imports[i].export \in Schedules /\ Plan(i) # None /\ imports[i].pc \in Past
      /\ journal = [export |-> imports[i].export, status |-> "running"] /\ journal # None
      /\ target.instances = Plan(i).instances
      /\ Restored = Plan(i).orgs
  BY <1>0 DEF CopyClaims, ImportHolds, Importing, Past
<1>4. ImportableClaims(Plan(i)) \subseteq Orgs
  BY <1>0, <1>3 DEF Plan, ExportTypeOK, Backup, ImportableClaims
<1>5. /\ target' \in Target /\ target'.instances = target.instances /\ target'.orgs = target.orgs
      /\ target'.claims = ImportableClaims(Plan(i))
  BY <1>0, <1>2, <1>4 DEF RestoreTypeOK, Target
<1>6. RestoreTypeOK'
  BY <1>0, <1>1, <1>2, <1>5 DEF RestoreTypeOK
<1>7. Restored' = Restored
  BY <1>5 DEF Restored
<1>8. TargetHolds'
  BY <1>0, <1>2, <1>3, <1>5, <1>7 DEF TargetHolds
<1>9. ImportHolds(i)'
  <2>1. CASE imports'[i] = ImportAt("failing")
    BY <1>2, <1>3, <2>1, LostImport
  <2>2. CASE imports'[i] # ImportAt("failing")
    <3>1. Plan(i)' = Plan(i)
      BY <1>1, <1>2, <2>2 DEF Plan
    <3>2. Whole(Plan(i))'
      BY <1>3, <1>5, <1>7, <3>1 DEF Whole, ImportableClaims
    <3> QED BY <1>1, <1>2, <1>3, <2>2, <3>1, <3>2 DEF ImportHolds, Past, Importing, Copied
  <2> QED BY <2>1, <2>2
<1> QED BY <1>1, <1>2, <1>3, <1>6, <1>8, <1>9, PastStepKeepsInv

\* The record concerns the Operation and the audit event while the journal still runs.
LEMMA RecordStepInv ==
  ASSUME Inv, NEW i \in Imports,
         OpenOperation(i) \/ BeginOperation(i) \/ RecordImport(i) \/ FinishOperation(i)
  PROVE  Inv'
<1>0. RestoreTypeOK /\ TargetHolds /\ OneImport /\ ImportHolds(i)
  BY DEF Inv
<1>1. UNCHANGED <<exportVars, journal, lock, target>> /\ UNCHANGED artifact
  BY DEF OpenOperation, BeginOperation, RecordImport, FinishOperation, exportVars, objectVars
<1>2. /\ imports[i].export \in Schedules /\ Plan(i) # None /\ imports[i].pc \in Past
      /\ journal = [export |-> imports[i].export, status |-> "running"] /\ journal # None
      /\ Whole(Plan(i))
  BY <1>0 DEF OpenOperation, BeginOperation, RecordImport, FinishOperation, ImportHolds,
     Importing, Past, Copied
<1>3. importOp' \in States \cup {"absent"} /\ audited' \in BOOLEAN
  BY <1>0 DEF RestoreTypeOK, OpenOperation, BeginOperation, RecordImport, FinishOperation, States
<1>4. TargetHolds'
  BY <1>0, <1>1, <1>2 DEF TargetHolds, Restored
<1>5. \E next \in {"opened", "begun", "noted", "finished"} :
        /\ Advance(i, next, "failing")
        /\ next \in {"noted", "finished"} => audited'
        /\ next = "finished" => importOp' = "succeeded"
  BY <1>0 DEF OpenOperation, BeginOperation, RecordImport, FinishOperation, ImportHolds
<1>6. PICK next \in {"opened", "begun", "noted", "finished"} :
        /\ Advance(i, next, "failing")
        /\ next \in {"noted", "finished"} => audited'
        /\ next = "finished" => importOp' = "succeeded"
  BY <1>5
<1>7. /\ imports' \in [Imports -> Import]
      /\ \A j \in Imports : j # i => imports'[j] = imports[j]
      /\ \/ imports'[i] = ImportAt("failing")
         \/ imports'[i].pc = next /\ imports'[i].export = imports[i].export
  BY <1>0, <1>6, AdvancedImport DEF Restoring, Importing
<1>8. RestoreTypeOK'
  BY <1>0, <1>1, <1>3, <1>7 DEF RestoreTypeOK
<1>9. ImportHolds(i)'
  <2>1. CASE imports'[i] = ImportAt("failing")
    BY <1>1, <1>2, <2>1, LostImport
  <2>2. CASE imports'[i] # ImportAt("failing")
    <3>1. Plan(i)' = Plan(i)
      BY <1>1, <1>7, <2>2 DEF Plan
    <3>2. Whole(Plan(i))'
      BY <1>1, <1>2, <3>1 DEF Whole, Restored, ImportableClaims
    <3> QED BY <1>1, <1>2, <1>6, <1>7, <2>2, <3>1, <3>2 DEF ImportHolds, Past, Importing, Copied
  <2> QED BY <2>1, <2>2
<1> QED BY <1>1, <1>2, <1>4, <1>7, <1>8, <1>9, PastStepKeepsInv

LEMMA CompleteInv == ASSUME Inv, NEW i \in Imports, CompleteJournal(i) PROVE Inv'
<1> DEFINE done == [export |-> imports[i].export, status |-> "succeeded"]
<1>0. RestoreTypeOK /\ TargetHolds /\ OneImport /\ ImportHolds(i)
  BY DEF Inv
<1>1. UNCHANGED <<exportVars, lock, target, importOp, audited>> /\ UNCHANGED artifact
  BY DEF CompleteJournal, exportVars, objectVars
<1>2. /\ imports[i].export \in Schedules /\ Plan(i) # None /\ imports[i].pc \in Past
      /\ journal = [export |-> imports[i].export, status |-> "running"]
      /\ Whole(Plan(i)) /\ importOp = "succeeded" /\ audited
  BY <1>0 DEF CompleteJournal, IsRecorded, ImportHolds, Importing, Past, Copied
<1>3. journal' = done
  BY <1>2 DEF CompleteJournal, Completed
<1>4. journal' \in Journal /\ journal' # None
  BY <1>2, <1>3, AbsentRestore DEF Journal
<1>5. /\ imports' \in [Imports -> Import]
      /\ \A j \in Imports : j # i => imports'[j] = imports[j]
      /\ \/ imports'[i] = ImportAt("failing")
         \/ imports'[i].pc = "restored" /\ imports'[i].export = imports[i].export
  BY <1>0, AdvancedImport DEF CompleteJournal
<1>6. RestoreTypeOK'
  BY <1>0, <1>1, <1>4, <1>5 DEF RestoreTypeOK
<1>7. TargetHolds'
  <2>1. journal'.export = imports[i].export /\ journal.export = imports[i].export
    BY <1>2, <1>3
  <2>2. artifact'[journal'.export] = Plan(i)
    BY <1>1, <2>1 DEF Plan
  <2>3. Restored' = Restored
    BY <1>1 DEF Restored
  <2>4. \A o \in Restored' : target'.orgs[o] = journal'.export
    BY <1>0, <1>1, <2>1, <2>3 DEF TargetHolds
  <2>5. /\ target'.instances = artifact'[journal'.export].instances
        /\ Restored' = artifact'[journal'.export].orgs
        /\ target'.claims = ImportableClaims(artifact'[journal'.export])
    BY <1>1, <1>2, <2>2, <2>3 DEF Whole
  <2> QED BY <1>1, <1>2, <1>4, <2>2, <2>4, <2>5 DEF TargetHolds, Whole, ImportableClaims
<1>8. ImportHolds(i)'
  <2>1. CASE imports'[i] = ImportAt("failing")
    BY <1>4, <2>1, LostImport
  <2>2. CASE imports'[i] # ImportAt("failing")
    BY <1>3, <1>4, <1>5, <2>2 DEF ImportHolds, Past, Importing, Copied
  <2> QED BY <2>1, <2>2
<1> QED BY <1>1, <1>2, <1>5, <1>6, <1>7, <1>8, PastStepKeepsInv

\* A journal that says succeeded is not marked failed by the import that lost its answer.
LEMMA MarkJournalInv == ASSUME Inv, NEW i \in Imports, MarkJournalFailed(i) PROVE Inv'
<1>0. RestoreTypeOK /\ TargetHolds /\ OneImport /\ ImportHolds(i)
  BY DEF Inv
<1>1. UNCHANGED <<exportVars, lock, target, importOp, audited>> /\ UNCHANGED artifact
  BY DEF MarkJournalFailed, exportVars, objectVars
<1>2. imports[i].pc \in Past /\ journal # None /\ journal \in Journal
  BY <1>0 DEF MarkJournalFailed, ImportHolds, Past, RestoreTypeOK
<1>3. /\ journal' \in Journal /\ journal' # None /\ journal'.export = journal.export
      /\ journal'.status = "succeeded" => journal.status = "succeeded"
  BY <1>2, AbsentRestore DEF MarkJournalFailed, Completed, Journal
<1>4. ImportAt("ended") \in Import
  BY RestingImport
<1>5. imports'[i] = ImportAt("ended") /\ \A j \in Imports : j # i => imports'[j] = imports[j]
  BY <1>0, OnlyOneImport DEF MarkJournalFailed
<1>6. RestoreTypeOK'
  BY <1>0, <1>1, <1>3, <1>4, ArrivesImport DEF RestoreTypeOK, MarkJournalFailed
<1>7. TargetHolds'
  BY <1>0, <1>1, <1>2, <1>3 DEF TargetHolds, Whole, Restored, ImportableClaims
<1>8. ImportHolds(i)'
  BY <1>5, LostImport
<1> QED BY <1>1, <1>2, <1>5, <1>6, <1>7, <1>8, PastStepKeepsInv

LEMMA StopImportInv == ASSUME Inv, NEW i \in Imports, FailImport(i) \/ StopImport(i) PROVE Inv'
<1>0. RestoreTypeOK /\ TargetHolds /\ OneImport /\ ImportHolds(i)
  BY DEF Inv
<1>1. UNCHANGED <<exportVars, journal, target, importOp, audited>> /\ UNCHANGED artifact
  BY DEF FailImport, StopImport, exportVars, objectVars
<1>2. ImportAt("ended") \in Import /\ ImportAt("failing") \in Import
  BY RestingImport
<1>3. /\ imports' \in [Imports -> Import]
      /\ \A j \in Imports : j # i => imports'[j] = imports[j]
      /\ \/ imports'[i] = ImportAt("ended")
         \/ imports'[i] = ImportAt("failing") /\ imports[i].pc \in Importing
  BY <1>0, <1>2, OnlyOneImport, ArrivesImport DEF FailImport, StopImport
<1>4. /\ lock' \in Imports \cup {None}
      /\ lock # i => lock' = lock
  BY <1>0 DEF FailImport, StopImport, RestoreTypeOK
<1>5. RestoreTypeOK'
  BY <1>0, <1>1, <1>3, <1>4 DEF RestoreTypeOK
<1>6. TargetHolds'
  BY <1>0, <1>1 DEF TargetHolds, Whole, Restored, ImportableClaims
<1>7. imports[i].pc \in Importing => journal' # None
  BY <1>0, <1>1 DEF ImportHolds, Past
<1>8. ImportHolds(i)'
  BY <1>3, <1>7, LostImport
<1>9. \A j \in Imports : j # i /\ imports[j].pc = "proved" => lock' = lock
  BY <1>4 DEF Inv, ImportHolds
<1>10. OneImport'
  BY <1>0, <1>3, StillOneImport DEF Past, Importing, ImportAt
<1> QED BY <1>1, <1>3, <1>5, <1>6, <1>8, <1>9, <1>10, ImportStepKeepsInv

LEMMA ExportsKeepArtifacts == ASSUME ExportNext PROVE ArtifactsKept
<1>1. CASE SourceStep \/ \E s \in Schedules : Expire(s)
  <2>1. UNCHANGED artifact
    BY <1>1 DEF SourceStep, Bootstrap, Onboard, Delete, Expire, objectVars
  <2> QED BY <2>1 DEF ArtifactsKept
<1>2. ASSUME NEW r \in Runs, RunStep(r) PROVE ArtifactsKept
  <2>1. CASE StoreArtifact(r)
    BY <2>1 DEF StoreArtifact, ArtifactsKept
  <2>2. CASE ~StoreArtifact(r)
    <3>1. UNCHANGED artifact
      BY <1>2, <2>2 DEF RunStep, Invoke, InvokeAgain, Start, List, ReadInstance, ReadOrganization,
         StoreEvidence, RecordSuccess, Succeed, ReadEvidence, ReadLatest, SwapLatest, LoseSwap,
         Fail, RecordFailure, MarkFailed, Stop, objectVars
    <3> QED BY <3>1 DEF ArtifactsKept
  <2> QED BY <2>1, <2>2
<1> QED BY <1>1, <1>2 DEF ExportNext

\* The exports go on beside the restores, on objects that no import reads.
LEMMA ExportStepInv == ASSUME Inv, ExportNext, UNCHANGED restoreVars PROVE Inv'
<1>0. RestoreTypeOK /\ TargetHolds /\ OneImport
  BY DEF Inv
<1>1. ExportInv' /\ ArtifactsKept
  BY ExportNextInv, ExportsKeepArtifacts DEF Inv
<1>2. UNCHANGED <<journal, lock, target, importOp, audited, imports>>
  BY DEF restoreVars
<1>3. RestoreTypeOK' /\ OneImport'
  BY <1>0, <1>2 DEF RestoreTypeOK, OneImport
<1>4. journal # None => journal.export \in Schedules /\ artifact'[journal.export] = artifact[journal.export]
  BY <1>0, <1>1 DEF RestoreTypeOK, Journal, TargetHolds, ArtifactsKept
<1>5. TargetHolds'
  BY <1>0, <1>2, <1>4 DEF TargetHolds, Whole, Restored, ImportableClaims
<1>6. \A j \in Imports : ImportHolds(j)'
  BY <1>1, <1>2, OtherKept
<1> QED BY <1>1, <1>3, <1>5, <1>6 DEF Inv

LEMMA InitInv == Init => Inv
<1> SUFFICES ASSUME Init PROVE Inv
  OBVIOUS
<1>1. ExportInv
  BY ExportInitInv DEF Init
<1>2. ImportAt("idle") \in Import
  BY RestingImport
<1>3. Fresh \in Target
  BY DEF Fresh, Target
<1>4. RestoreTypeOK
  BY <1>2, <1>3 DEF Init, RestoreTypeOK
<1>5. Restored = {}
  BY DEF Init, Restored, Fresh
<1>6. TargetHolds
  BY <1>5 DEF Init, TargetHolds
<1>7. \A i \in Imports : imports[i].pc = "idle"
  BY DEF Init, ImportAt
<1>8. OneImport /\ \A i \in Imports : ImportHolds(i)
  BY <1>7 DEF OneImport, ImportHolds, Past, Importing, Copied
<1> QED BY <1>1, <1>4, <1>6, <1>8 DEF Inv

LEMMA NextInv == Inv /\ [Next]_vars => Inv'
<1> SUFFICES ASSUME Inv, [Next]_vars PROVE Inv'
  OBVIOUS
<1>1. CASE ExportNext /\ UNCHANGED restoreVars
  BY <1>1, ExportStepInv
<1>2. ASSUME NEW i \in Imports, ImportStep(i) PROVE Inv'
  BY <1>2, VerifyInv, ProveInv, ArmInv, CopyInstanceInv, CopyOrganizationInv, CopyClaimsInv,
     RecordStepInv, CompleteInv, MarkJournalInv, StopImportInv DEF ImportStep
<1>3. CASE UNCHANGED vars
  <2>1. UNCHANGED exportVars /\ UNCHANGED <<journal, lock, target, importOp, audited, imports>>
    BY <1>3 DEF vars, restoreVars
  <2>2. ExportInv' /\ ArtifactsKept
    BY <2>1, ExportStutterInv DEF Inv, ArtifactsKept, exportVars, objectVars
  <2>3. UNCHANGED artifact
    BY <2>1 DEF exportVars, objectVars
  <2>4. RestoreTypeOK' /\ OneImport' /\ TargetHolds'
    BY <2>1, <2>3 DEF Inv, RestoreTypeOK, OneImport, TargetHolds, Whole, Restored, ImportableClaims
  <2>5. \A j \in Imports : ImportHolds(j)'
    BY <2>1, <2>2, OtherKept
  <2> QED BY <2>2, <2>4, <2>5 DEF Inv
<1> QED BY <1>1, <1>2, <1>3 DEF Next

-----------------------------------------------------------------------------
(* The theorems.                                                           *)

LEMMA SpecInv == Spec => []Inv
BY InitInv, NextInv, PTL DEF Spec

\* Every variable of the exports and the restores keeps its type.
THEOREM BackupTypeCorrect == Spec => []BackupTypeOK
<1>1. Inv => BackupTypeOK
  BY DEF Inv, ExportInv, RestoreTypeOK, BackupTypeOK
<1> QED BY <1>1, SpecInv, PTL

\* Whoever moves the pointer to the latest export, the run that made the export or
\* a replay after its death, moves it to a complete one.
THEOREM LatestExportIsComplete == Spec => []LatestIsComplete
<1>1. Inv => LatestIsComplete
  <2> SUFFICES ASSUME Inv, latest # 0 PROVE
        /\ artifact[latest] # None /\ evidence[latest] = artifact[latest]
        /\ op[latest] = "succeeded" /\ "succeeded" \in audits[latest]
    BY DEF LatestIsComplete
  <2>1. latest \in Schedules
    BY DEF Inv, ExportInv, ExportTypeOK
  <2> QED BY <2>1 DEF Inv, ExportInv, StoreHolds
<1> QED BY <1>1, SpecInv, PTL

\* The pointer never goes back behind an export that a run has published.
THEOREM LatestExportIsNewest == Spec => []LatestIsNewest
<1>1. Inv => LatestIsNewest
  BY DEF Inv, ExportInv, RunHolds, LatestIsNewest
<1> QED BY <1>1, SpecInv, PTL

\* What a restore leaves behind is one export, whole when the journal says so,
\* however many imports start on the same target and wherever they are cut off.
THEOREM RestoresAreWhole == Spec => []RestoreIsWhole
<1>1. Inv => RestoreIsWhole
  <2> SUFFICES ASSUME Inv PROVE RestoreIsWhole
    OBVIOUS
  <2>1. \A o \in Restored : journal # None /\ target.orgs[o] = journal.export
    BY DEF Inv, TargetHolds
  <2>2. journal # None /\ journal.status = "succeeded" =>
          Whole(artifact[journal.export]) /\ importOp = "succeeded" /\ audited
    BY DEF Inv, TargetHolds
  <2>3. \A i \in Imports : imports[i].pc = "restored" =>
          journal = [export |-> imports[i].export, status |-> "succeeded"]
    BY DEF Inv, ImportHolds
  <2> QED BY <2>1, <2>2, <2>3 DEF RestoreIsWhole, Whole, ImportableClaims
<1> QED BY <1>1, SpecInv, PTL

\* An artifact that was read while the source moved has the canary in it and fits
\* the constraints of a fresh target at every point of its import.
THEOREM ArtifactsCanBeRestored == Spec => []GenuineArtifactsImport
<1>1. Inv => GenuineArtifactsImport
  <2> SUFFICES ASSUME Inv PROVE GenuineArtifactsImport
    OBVIOUS
  <2>1. \A s \in Schedules : artifact[s] # None => Genuine(artifact[s])
    BY DEF Inv, ExportInv, StoreHolds
  <2>2. ASSUME NEW i \in Imports, imports[i].pc = "copying"
        PROVE  /\ \A o \in imports[i].pending : OrganizationFits(o)
               /\ imports[i].pending = {} => ClaimsFit(i)
    <3>1. /\ imports[i].export \in Schedules /\ Plan(i) # None
          /\ target.instances = Plan(i).instances
          /\ imports[i].pending \subseteq Plan(i).orgs
          /\ Restored = Plan(i).orgs \ imports[i].pending
      BY <2>2 DEF Inv, ImportHolds, Importing
    <3>2. imports[i].pending \subseteq Orgs
      BY ImportFields DEF Inv
    <3>3. \A o \in Plan(i).orgs : InstanceOf[o] \in target.instances
      BY <2>1, <3>1 DEF Plan, Genuine
    <3>4. \A o \in imports[i].pending : OrganizationFits(o)
      BY <3>1, <3>2, <3>3 DEF OrganizationFits, Restored
    <3>5. imports[i].pending = {} => ClaimsFit(i)
      BY <3>1 DEF ClaimsFit, ImportableClaims
    <3> QED BY <3>4, <3>5
  <2> QED BY <2>1, <2>2 DEF GenuineArtifactsImport, Genuine
<1> QED BY <1>1, SpecInv, PTL

-----------------------------------------------------------------------------
(* BackupRestore implements BackupService.                                 *)

\* A step of one run that is not reported as published before or after it.
LEMMA ReportsKept ==
  ASSUME ExportTypeOK, NEW r \in Runs, NEW run, Become(r, run),
         runs[r].pc # "confirmed", run.pc # "confirmed"
  PROVE  Published' = Published
<1>1. runs' = [runs EXCEPT ![r] = run] /\ runs \in [Runs -> Run]
  BY DEF Become, ExportTypeOK
<1>2. \A q \in Runs : runs'[q].pc = "confirmed" <=> runs[q].pc = "confirmed"
  BY <1>1
<1>3. \A q \in Runs : runs[q].pc = "confirmed" => runs'[q] = runs[q]
  BY <1>1
<1> QED BY <1>2, <1>3 DEF Published

\* A run whose step reports it as published.
LEMMA ReportAdded ==
  ASSUME ExportTypeOK, NEW r \in Runs, NEW s \in Schedules, Become(r, At("confirmed", s)),
         runs[r].pc # "confirmed"
  PROVE  Published' = Published \cup {s}
<1>1. runs' = [runs EXCEPT ![r] = At("confirmed", s)] /\ runs \in [Runs -> Run]
  BY DEF Become, ExportTypeOK
<1>2. runs'[r].pc = "confirmed" /\ runs'[r].schedule = s
  BY <1>1 DEF At
<1>3. \A q \in Runs \ {r} : runs'[q] = runs[q]
  BY <1>1
<1> QED BY <1>2, <1>3 DEF Published

\* A transition to another state than "succeeded" completes nothing, and a complete
\* export stays so.
LEMMA CompleteKept ==
  ASSUME ExportTypeOK, NEW s \in Schedules, NEW to, to # "succeeded",
         op[s] # "succeeded", op' = [op EXCEPT ![s] = to]
  PROVE  Complete' = Complete
BY DEF ExportTypeOK, Complete

LEMMA TransitionStarts ==
  ASSUME ExportTypeOK, NEW s \in Schedules, NEW to, Transition(s, to)
  PROVE  op[s] # "succeeded" /\ op' = [op EXCEPT ![s] = to]
BY DEF Transition, Allowed

LEMMA ServiceStutters ==
  ASSUME UNCHANGED <<artifact, latest>>, Complete' = Complete, Published' = Published,
         RestoredCopy' = RestoredCopy
  PROVE  [Service!Next]_(Service!vars)
BY DEF Service!vars

\* The target and its journal are all that a restored copy depends on.
LEMMA CopyKept ==
  ASSUME UNCHANGED <<journal, target>>
  PROVE  RestoredCopy' = RestoredCopy
BY DEF RestoredCopy, IsRestored, TargetRows, Restored

\* The steps of a run that change neither an artifact, the pointer nor the complete
\* exports, and report nothing.
LEMMA SilentRunStep ==
  ASSUME Inv, NEW r \in Runs, NEW run, Become(r, run),
         runs[r].pc # "confirmed", run.pc # "confirmed",
         UNCHANGED <<artifact, latest, op, restoreVars>>
  PROVE  [Service!Next]_(Service!vars)
<1>1. Published' = Published
  BY ReportsKept DEF Inv, ExportInv
<1>2. Complete' = Complete
  BY DEF Complete
<1>3. RestoredCopy' = RestoredCopy
  BY CopyKept DEF restoreVars
<1> QED BY <1>1, <1>2, <1>3, ServiceStutters

LEMMA SealsOnce ==
  ASSUME Inv, NEW r \in Runs, StoreArtifact(r), UNCHANGED restoreVars
  PROVE  [Service!Next]_(Service!vars)
<1> DEFINE s == runs[r].schedule
<1>1. ExportTypeOK /\ RunHolds(r) /\ runs[r] \in Run
  BY DEF Inv, ExportInv, ExportTypeOK
<1>2. s \in Schedules /\ artifact[s] = None /\ artifact' = [artifact EXCEPT ![s] = runs[r].draft]
  BY <1>1 DEF RunHolds, StoreArtifact
<1>3. artifact'[s] = runs[r].draft
  BY <1>1, <1>2 DEF ExportTypeOK
<1>4. runs[r].draft \in Importable
  <2>1. runs[r].draft \in Backup
    BY <1>1 DEF Run
  <2>2. /\ Canary \in runs[r].draft.orgs
        /\ \A o \in runs[r].draft.orgs : InstanceOf[o] \in runs[r].draft.instances
    BY <1>1 DEF StoreArtifact, RunHolds
  <2> QED BY <2>1, <2>2 DEF Importable
<1>5. Published' = Published
  <2>1. PICK run \in {[runs[r] EXCEPT !.pc = "stored"], At("failing", s)} : Become(r, run)
    BY DEF StoreArtifact, Answered
  <2>2. run.pc # "confirmed" /\ runs[r].pc # "confirmed"
    BY <1>1, <2>1 DEF StoreArtifact, Run, At
  <2> QED BY <1>1, <2>1, <2>2, ReportsKept
<1>6. Complete' = Complete /\ RestoredCopy' = RestoredCopy /\ latest' = latest
  BY CopyKept DEF Complete, StoreArtifact, storeVars, restoreVars
<1>7. Service!Seal(s)
  BY <1>2, <1>3, <1>4, <1>5, <1>6 DEF Service!Seal
<1> QED BY <1>2, <1>7 DEF Service!Next

LEMMA CompletesSealed ==
  ASSUME Inv, NEW r \in Runs, Succeed(r), UNCHANGED restoreVars
  PROVE  [Service!Next]_(Service!vars)
<1> DEFINE s == runs[r].schedule
<1>1. ExportTypeOK /\ StoreHolds /\ RunHolds(r) /\ runs[r] \in Run
  BY DEF Inv, ExportInv, ExportTypeOK
<1>2. s \in Schedules /\ runs[r].pc = "audited" /\ Transition(s, "succeeded")
  BY <1>1 DEF RunHolds, Succeed
<1>3. artifact[s] # None
  BY <1>1, <1>2 DEF RunHolds, StoreHolds
<1>4. s \notin Complete /\ Complete' = Complete \cup {s}
  BY <1>1, <1>2, TransitionStarts DEF Complete, ExportTypeOK
<1>5. Published' = Published
  <2>1. PICK run \in {At("publishing", s), At("failing", s)} : Become(r, run)
    BY DEF Succeed, Answered
  <2>2. run.pc # "confirmed"
    BY <2>1 DEF At
  <2> QED BY <1>1, <1>2, <2>1, <2>2, ReportsKept
<1>6. UNCHANGED <<artifact, latest>> /\ RestoredCopy' = RestoredCopy
  BY CopyKept DEF Succeed, objectVars, restoreVars
<1>7. Service!Complete(s)
  BY <1>3, <1>4, <1>5, <1>6 DEF Service!Complete
<1> QED BY <1>2, <1>7 DEF Service!Next

LEMMA PublishesForward ==
  ASSUME Inv, NEW r \in Runs, SwapLatest(r), UNCHANGED restoreVars
  PROVE  [Service!Next]_(Service!vars)
<1> DEFINE s == runs[r].schedule
<1>1. ExportTypeOK /\ RunHolds(r) /\ runs[r] \in Run
  BY DEF Inv, ExportInv, ExportTypeOK
<1>2. s \in Schedules /\ runs[r].pc = "swapping" /\ latest = runs[r].seen /\ latest' = s
  BY <1>1 DEF RunHolds, SwapLatest, PointerIs
<1>3. s \in Complete /\ latest <= s
  BY <1>1, <1>2 DEF RunHolds, Complete, Publishing
<1>4. Published' \in {Published, Published \cup {s}}
  <2>1. PICK run \in {At("confirmed", s), Ended} : Become(r, run)
    BY DEF SwapLatest
  <2>2. CASE run = At("confirmed", s)
    BY <1>1, <1>2, <2>1, <2>2, ReportAdded
  <2>3. CASE run = Ended
    <3>1. run.pc # "confirmed"
      BY <2>3 DEF Ended, At
    <3> QED BY <1>1, <1>2, <2>1, <3>1, ReportsKept
  <2> QED BY <2>1, <2>2, <2>3
<1>5. artifact' = artifact /\ Complete' = Complete /\ RestoredCopy' = RestoredCopy
  BY CopyKept DEF SwapLatest, Complete, storeVars, restoreVars
<1>6. Service!Publish(s)
  BY <1>2, <1>3, <1>4, <1>5 DEF Service!Publish
<1> QED BY <1>2, <1>6 DEF Service!Next

LEMMA LooksBeforeSwap ==
  ASSUME Inv, NEW r \in Runs, ReadLatest(r), UNCHANGED restoreVars
  PROVE  [Service!Next]_(Service!vars)
<1> DEFINE s == runs[r].schedule
<1>1. ExportTypeOK /\ RunHolds(r) /\ runs[r] \in Run
  BY DEF Inv, ExportInv, ExportTypeOK
<1>2. s \in Schedules /\ runs[r].pc = "publishing" /\ s \in Complete
  BY <1>1 DEF RunHolds, ReadLatest, Complete, Publishing
<1>3. UNCHANGED <<artifact, latest, op, restoreVars>>
  BY DEF ReadLatest, storeVars, objectVars
<1>4. latest \in Nat /\ s \in Nat
  <2>1. Schedules \subseteq Nat
    BY BackupAssumption
  <2>2. latest \in Schedules \cup {0}
    BY <1>1 DEF ExportTypeOK
  <2>3. latest \in Nat
    BY <2>1, <2>2
  <2>4. s \in Nat
    BY <1>2, <2>1
  <2> QED BY <2>3, <2>4
<1>5. CASE latest > s
  <2>1. Published' = Published \cup {s}
    BY <1>1, <1>2, <1>5, ReportAdded DEF ReadLatest
  <2>2. Complete' = Complete /\ RestoredCopy' = RestoredCopy
    BY <1>3, CopyKept DEF Complete, restoreVars
  <2>3. Service!Overtaken(s)
    BY <1>2, <1>3, <1>5, <1>4, <2>1, <2>2 DEF Service!Overtaken
  <2> QED BY <1>2, <2>3 DEF Service!Next
<1>6. CASE ~(latest > s)
  <2> DEFINE run == [runs[r] EXCEPT !.pc = "swapping", !.seen = latest]
  <2>1. Become(r, run)
    BY <1>6 DEF ReadLatest
  <2>2. run.pc = "swapping"
    BY <1>1 DEF Run
  <2> HIDE DEF run
  <2> QED BY <1>2, <1>3, <2>1, <2>2, SilentRunStep
<1> QED BY <1>5, <1>6

\* The steps of a run that move its Operation, short of completing it.
LEMMA OperationRunStep ==
  ASSUME Inv, NEW r \in Runs, NEW run, Become(r, run), NEW s \in Schedules, NEW to,
         runs[r].pc # "confirmed", run.pc # "confirmed", to # "succeeded",
         op[s] # "succeeded", op' = [op EXCEPT ![s] = to],
         UNCHANGED <<artifact, latest, restoreVars>>
  PROVE  [Service!Next]_(Service!vars)
<1>1. Published' = Published
  BY ReportsKept DEF Inv, ExportInv
<1>2. Complete' = Complete
  BY CompleteKept DEF Inv, ExportInv
<1>3. RestoredCopy' = RestoredCopy
  BY CopyKept DEF restoreVars
<1> QED BY <1>1, <1>2, <1>3, ServiceStutters

LEMMA InvocationsServe ==
  ASSUME Inv, NEW r \in Runs, NEW s \in Schedules, Invoke(r, s) \/ InvokeAgain(r, s),
         UNCHANGED restoreVars
  PROVE  [Service!Next]_(Service!vars)
<1>1. UNCHANGED <<artifact, latest, restoreVars>> /\ runs[r].pc # "confirmed"
  BY DEF Invoke, InvokeAgain, objectVars
<1>2. CASE Invoke(r, s)
  <2>1. PICK run \in {At("created", s), Ended} : Become(r, run)
    BY <1>2 DEF Invoke
  <2>2. run.pc # "confirmed"
    BY <2>1 DEF At, Ended
  <2>3. op[s] # "succeeded" /\ op' = [op EXCEPT ![s] = "pending"]
    BY <1>2 DEF Invoke
  <2> QED BY <1>1, <2>1, <2>2, <2>3, OperationRunStep
<1>3. CASE InvokeAgain(r, s)
  <2>1. PICK run \in {At("republishing", s), Ended} : Become(r, run)
    BY <1>3 DEF InvokeAgain
  <2>2. run.pc # "confirmed"
    BY <2>1 DEF At, Ended
  <2>3. CASE s \in expired
    <3>1. op[s] # "succeeded"
      BY <2>3 DEF Inv, ExportInv, StoreHolds
    <3>2. op' = [op EXCEPT ![s] = "incomplete"]
      BY <1>3, <2>3 DEF InvokeAgain
    <3> QED BY <1>1, <2>1, <2>2, <3>1, <3>2, OperationRunStep
  <2>4. CASE s \notin expired
    <3>1. op' = op
      BY <1>3, <2>4 DEF InvokeAgain
    <3> QED BY <1>1, <2>1, <2>2, <3>1, SilentRunStep
  <2> QED BY <2>3, <2>4
<1> QED BY <1>2, <1>3

LEMMA OperationStepsServe ==
  ASSUME Inv, NEW r \in Runs, Start(r) \/ MarkFailed(r), UNCHANGED restoreVars
  PROVE  [Service!Next]_(Service!vars)
<1> DEFINE s == runs[r].schedule
<1>1. ExportTypeOK /\ RunHolds(r)
  BY DEF Inv, ExportInv
<1>2. /\ UNCHANGED <<artifact, latest, restoreVars>>
      /\ runs[r].pc \in {"created", "marking"}
  BY DEF Start, MarkFailed, objectVars
<1>3. s \in Schedules /\ runs[r].pc # "confirmed"
  BY <1>1, <1>2 DEF RunHolds
<1>4. PICK run \in {At("started", s), At("failing", s), Ended} : Become(r, run)
  BY DEF Start, MarkFailed, Answered
<1>5. run.pc # "confirmed"
  BY <1>4 DEF At, Ended
<1>6. PICK to \in {"running", "failed"} : Transition(s, to)
  BY DEF Start, MarkFailed
<1>7. op[s] # "succeeded" /\ op' = [op EXCEPT ![s] = to] /\ to # "succeeded"
  BY <1>1, <1>3, <1>6, TransitionStarts
<1> QED BY <1>2, <1>3, <1>4, <1>5, <1>7, OperationRunStep

\* Reading the source, evidence and audits, losing a swap, failing and stopping.
LEMMA SilentStepsServe ==
  ASSUME Inv, NEW r \in Runs, UNCHANGED restoreVars,
         \/ List(r) \/ ReadInstance(r) \/ (\E o \in Orgs : ReadOrganization(r, o))
         \/ StoreEvidence(r) \/ RecordSuccess(r) \/ ReadEvidence(r) \/ LoseSwap(r)
         \/ Fail(r) \/ RecordFailure(r) \/ Stop(r)
  PROVE  [Service!Next]_(Service!vars)
<1> DEFINE s == runs[r].schedule
<1>1. runs[r] \in Run
  BY DEF Inv, ExportInv, ExportTypeOK
<1>2. UNCHANGED <<artifact, latest, op, restoreVars>> /\ runs[r].pc # "confirmed"
  <2>1. ASSUME NEW o \in Orgs, ReadOrganization(r, o)
        PROVE  UNCHANGED <<artifact, latest, op>> /\ runs[r].pc = "reading"
    BY <2>1, ZenonT(30) DEF ReadOrganization, storeVars, objectVars
  <2>2. CASE \E o \in Orgs : ReadOrganization(r, o)
    BY <2>1, <2>2
  <2>3. CASE List(r) \/ ReadInstance(r) \/ ReadEvidence(r)
    BY <2>3 DEF List, ReadInstance, ReadEvidence, storeVars, objectVars
  <2>4. CASE StoreEvidence(r) \/ RecordSuccess(r) \/ RecordFailure(r)
    BY <2>4 DEF StoreEvidence, RecordSuccess, RecordFailure, storeVars, objectVars
  <2>5. CASE LoseSwap(r) \/ Fail(r) \/ Stop(r)
    BY <2>5 DEF LoseSwap, Fail, Stop, storeVars, objectVars, AtWork, Executing, Publishing
  <2> QED BY <2>2, <2>3, <2>4, <2>5
<1>3. \E run : Become(r, run) /\ run.pc # "confirmed"
  <2>1. CASE List(r)
    <3> DEFINE run == [runs[r] EXCEPT !.pc = "listed", !.todo = Present]
    <3>1. Become(r, run)
      BY <2>1 DEF List
    <3>2. run.pc # "confirmed"
      BY <1>1 DEF Run
    <3> QED BY <3>1, <3>2
  <2>2. CASE ReadInstance(r)
    <3> DEFINE run == [runs[r] EXCEPT !.pc = "reading", !.draft = InstanceRows]
    <3>1. Become(r, run)
      BY <2>2 DEF ReadInstance
    <3>2. run.pc # "confirmed"
      BY <1>1 DEF Run
    <3> QED BY <3>1, <3>2
  <2>3. ASSUME NEW o \in Orgs, ReadOrganization(r, o)
        PROVE  \E run : Become(r, run) /\ run.pc # "confirmed"
    <3> DEFINE run == [runs[r] EXCEPT !.todo = @ \ {o}, !.draft.orgs = @ \cup ({o} \cap Present)]
    <3>1. Become(r, run)
      BY <2>3, Zenon DEF ReadOrganization
    <3>2. run.pc # "confirmed"
      BY <1>1, <1>2 DEF Run
    <3> QED BY <3>1, <3>2
  <2>4. CASE StoreEvidence(r)
    BY <2>4 DEF StoreEvidence, Answered, At
  <2>5. CASE RecordSuccess(r)
    BY <2>5 DEF RecordSuccess, Answered, At
  <2>6. CASE ReadEvidence(r)
    BY <1>1, <2>6 DEF ReadEvidence, Reach, Run
  <2>7. CASE LoseSwap(r)
    BY <2>7 DEF LoseSwap, At, Ended
  <2>8. CASE Fail(r)
    BY <2>8 DEF Fail, At
  <2>9. CASE RecordFailure(r)
    BY <2>9 DEF RecordFailure, At, Ended
  <2>10. CASE Stop(r)
    BY <2>10 DEF Stop, Ended, At
  <2> QED BY <2>1, <2>2, <2>3, <2>4, <2>5, <2>6, <2>7, <2>8, <2>9, <2>10
<1>4. PICK run : Become(r, run) /\ run.pc # "confirmed"
  BY <1>3
<1> QED BY <1>2, <1>4, SilentRunStep

LEMMA ExportsServe ==
  ASSUME Inv, ExportNext, UNCHANGED restoreVars
  PROVE  [Service!Next]_(Service!vars)
<1>1. CASE SourceStep \/ \E s \in Schedules : Expire(s)
  <2>1. UNCHANGED <<op, artifact, latest, runs>>
    BY <1>1 DEF SourceStep, Bootstrap, Onboard, Delete, Expire, storeVars, objectVars
  <2>2. Complete' = Complete /\ Published' = Published /\ RestoredCopy' = RestoredCopy
    BY <2>1, CopyKept DEF Complete, Published, restoreVars
  <2> QED BY <2>1, <2>2, ServiceStutters
<1>2. ASSUME NEW r \in Runs, RunStep(r)
      PROVE  [Service!Next]_(Service!vars)
  <2>1. CASE \E s \in Schedules : Invoke(r, s) \/ InvokeAgain(r, s)
    BY <2>1, InvocationsServe
  <2>2. CASE Start(r) \/ MarkFailed(r)
    BY <2>2, OperationStepsServe
  <2>3. CASE StoreArtifact(r)
    BY <2>3, SealsOnce
  <2>4. CASE Succeed(r)
    BY <2>4, CompletesSealed
  <2>5. CASE ReadLatest(r)
    BY <2>5, LooksBeforeSwap
  <2>6. CASE SwapLatest(r)
    BY <2>6, PublishesForward
  <2>7. CASE \/ List(r) \/ ReadInstance(r) \/ (\E o \in Orgs : ReadOrganization(r, o))
             \/ StoreEvidence(r) \/ RecordSuccess(r) \/ ReadEvidence(r) \/ LoseSwap(r)
             \/ Fail(r) \/ RecordFailure(r) \/ Stop(r)
    BY <2>7, SilentStepsServe
  <2> QED BY <1>2, <2>1, <2>2, <2>3, <2>4, <2>5, <2>6, <2>7 DEF RunStep
<1> QED BY <1>1, <1>2 DEF ExportNext

\* What an import makes of a backup.
LEMMA ImportableRows ==
  ASSUME NEW backup \in Backup
  PROVE  [backup EXCEPT !.claims = @ \cap backup.orgs]
           = [instances |-> backup.instances, claims |-> backup.claims \cap backup.orgs,
              orgs |-> backup.orgs]
BY DEF Backup

\* An import copies, records and fails while its journal is not succeeded, and the
\* step that marks the journal finds all of the export in the target.
LEMMA ImportsServe ==
  ASSUME Inv, NEW i \in Imports, ImportStep(i)
  PROVE  [Service!Next]_(Service!vars)
<1> DEFINE s == imports[i].export
<1>1. RestoreTypeOK /\ ImportHolds(i) /\ TargetHolds /\ ExportTypeOK
  BY DEF Inv, ExportInv
<1>2. UNCHANGED <<artifact, latest, op, runs>>
  BY DEF ImportStep, Verify, Prove, Arm, CopyInstance, CopyOrganization, CopyClaims, OpenOperation,
     BeginOperation, RecordImport, FinishOperation, CompleteJournal, FailImport, MarkJournalFailed,
     StopImport, exportVars, sourceVars, storeVars, objectVars
<1>3. Complete' = Complete /\ Published' = Published
  BY <1>2 DEF Complete, Published
<1>4. RestoredCopy' = RestoredCopy => [Service!Next]_(Service!vars)
  BY <1>2, <1>3, ServiceStutters
<1>5. CASE Arm(i)
  <2>1. ~IsRestored
    BY <1>5 DEF Arm, IsRestored
  <2>2. ~IsRestored'
    BY <1>5 DEF Arm, IsRestored
  <2>3. RestoredCopy' = RestoredCopy
    BY <2>1, <2>2 DEF RestoredCopy
  <2> QED BY <1>4, <2>3
<1>6. CASE CopyInstance(i) \/ (\E o \in Orgs : CopyOrganization(i, o)) \/ CopyClaims(i)
  <2>1. imports[i].pc \in Importing /\ journal' = journal
    BY <1>6 DEF CopyInstance, CopyOrganization, CopyClaims, Importing
  <2>2. journal.status = "running"
    BY <1>1, <2>1 DEF ImportHolds
  <2>3. ~IsRestored /\ ~IsRestored'
    BY <2>1, <2>2 DEF IsRestored
  <2>4. RestoredCopy' = RestoredCopy
    BY <2>3 DEF RestoredCopy
  <2> QED BY <1>4, <2>4
<1>7. CASE CompleteJournal(i)
  <2>1. /\ imports[i].pc = "finished" /\ s \in Schedules /\ Plan(i) # None
        /\ journal = [export |-> s, status |-> "running"] /\ Whole(Plan(i))
    BY <1>1, <1>7 DEF CompleteJournal, IsRecorded, ImportHolds, Importing, Copied
  <2>2. /\ journal' = [export |-> s, status |-> "succeeded"]
        /\ target' = target
    BY <1>7, <2>1 DEF CompleteJournal, Completed
  <2>3. ~IsRestored
    BY <2>1 DEF IsRestored
  <2>4. IsRestored' /\ journal'.export = s
    <3>1. journal' \in Journal
      BY <2>1, <2>2 DEF Journal
    <3> QED BY <2>2, <3>1, AbsentRestore DEF IsRestored
  <2>5. artifact[s] \in Backup /\ artifact[s] = Plan(i)
    BY <1>1, <2>1 DEF ExportTypeOK, Plan
  <2>6. TargetRows' = [artifact[s] EXCEPT !.claims = @ \cap artifact[s].orgs]
    <3>1. TargetRows' = TargetRows
      BY <2>2 DEF TargetRows, Restored
    <3>2. TargetRows = [instances |-> artifact[s].instances,
                        claims    |-> artifact[s].claims \cap artifact[s].orgs,
                        orgs      |-> artifact[s].orgs]
      BY <2>1, <2>5 DEF TargetRows, Whole, ImportableClaims
    <3>3. [artifact[s] EXCEPT !.claims = @ \cap artifact[s].orgs]
            = [instances |-> artifact[s].instances,
               claims    |-> artifact[s].claims \cap artifact[s].orgs,
               orgs      |-> artifact[s].orgs]
      BY <2>5, ImportableRows
    <3> QED BY <3>1, <3>2, <3>3
  <2>7. Service!Restore(s)
    BY <1>2, <1>3, <2>1, <2>3, <2>4, <2>5, <2>6 DEF Service!Restore, RestoredCopy
  <2> QED BY <2>1, <2>7 DEF Service!Next
<1>8. CASE MarkJournalFailed(i)
  <2>1. CASE journal.status = "running"
    <3>1. journal # None
      BY <1>1, <1>8 DEF MarkJournalFailed, ImportHolds, Past
    <3>2. journal \in Journal
      BY <1>1, <3>1 DEF RestoreTypeOK
    <3>3. journal'.status = "failed"
      BY <1>8, <2>1, <3>2 DEF MarkJournalFailed, Completed, Journal
    <3>4. ~IsRestored /\ ~IsRestored'
      BY <2>1, <3>3 DEF IsRestored
    <3>5. RestoredCopy' = RestoredCopy
      BY <3>4 DEF RestoredCopy
    <3> QED BY <1>4, <3>5
  <2>2. CASE journal.status # "running"
    <3>1. UNCHANGED <<journal, target>>
      BY <1>8, <2>2 DEF MarkJournalFailed, Completed
    <3> QED BY <1>4, <3>1, CopyKept
  <2> QED BY <2>1, <2>2
<1>9. CASE \/ (\E t \in Schedules : Verify(i, t)) \/ Prove(i) \/ OpenOperation(i)
           \/ BeginOperation(i) \/ RecordImport(i) \/ FinishOperation(i) \/ FailImport(i)
           \/ StopImport(i)
  <2>1. UNCHANGED <<journal, target>>
    BY <1>9 DEF Verify, Prove, OpenOperation, BeginOperation, RecordImport, FinishOperation,
       FailImport, StopImport
  <2> QED BY <1>4, <2>1, CopyKept
<1> QED BY <1>5, <1>6, <1>7, <1>8, <1>9 DEF ImportStep

\* For any number of runs, replays, organizations and imports, what a source sealed
\* in many reads, what the pointer names and what a target was declared to hold
\* change as the one-step service does.
THEOREM BackupsKeepService == Spec => ImplementsBackupService
<1>1. Init => Service!Init
  <2> SUFFICES ASSUME Init PROVE Service!Init
    OBVIOUS
  <2>1. Complete = {}
    BY DEF Init, ExportInit, Complete
  <2>2. Published = {}
    BY DEF Init, ExportInit, Published, Idle, At
  <2>3. RestoredCopy = None
    BY DEF Init, RestoredCopy, IsRestored
  <2> QED BY <2>1, <2>2, <2>3 DEF Service!Init, Init, ExportInit
<1>2. Inv /\ [Next]_vars => [Service!Next]_(Service!vars)
  <2> SUFFICES ASSUME Inv, [Next]_vars PROVE [Service!Next]_(Service!vars)
    OBVIOUS
  <2>1. CASE ExportNext /\ UNCHANGED restoreVars
    BY <2>1, ExportsServe
  <2>2. CASE \E i \in Imports : ImportStep(i)
    BY <2>2, ImportsServe
  <2>3. CASE UNCHANGED vars
    <3>1. UNCHANGED <<op, artifact, latest, runs, journal, target>>
      BY <2>3 DEF vars, exportVars, storeVars, objectVars, restoreVars
    <3>2. Complete' = Complete /\ Published' = Published /\ RestoredCopy' = RestoredCopy
      BY <3>1, CopyKept DEF Complete, Published
    <3> QED BY <3>1, <3>2, ServiceStutters
  <2> QED BY <2>1, <2>2, <2>3 DEF Next
<1> QED BY <1>1, <1>2, SpecInv, PTL DEF Spec, ImplementsBackupService, Service!Spec

-----------------------------------------------------------------------------
(* The Operations of exports and of the import.                            *)

\* The Operation of every export and, at 0, the one of the restore.
OperationStatesNow == [s \in Schedules \cup {0} |-> IF s = 0 THEN importOp ELSE op[s]]

Lifecycle ==
  INSTANCE OperationLifecycle WITH Operations <- Schedules \cup {0}, state <- OperationStatesNow

\* A run and an import that record found or created their Operation.
OperationsExist ==
  /\ \A r \in Runs : runs[r].pc \notin {"idle", "ended"} => op[runs[r].schedule] # "absent"
  /\ \A i \in Imports : imports[i].pc \in {"opened", "begun", "noted"} => importOp # "absent"

\* What a step may do to an Operation.
Moves(from, to) ==
  \/ to = from
  \/ from = "absent" /\ to = "pending"
  \/ from \in States /\ to \in Allowed[from]

MovesOne ==
  \E o \in Schedules \cup {0} :
    /\ Moves(OperationStatesNow[o], OperationStatesNow'[o])
    /\ \A p \in Schedules \cup {0} : p # o => OperationStatesNow'[p] = OperationStatesNow[p]

\* A run that goes on stays with its Operation.
StaysWithOperation(r) ==
  /\ \A q \in Runs : q # r => runs'[q] = runs[q]
  /\ runs'[r].pc \notin {"idle", "ended"} =>
       runs[r].pc \notin {"idle", "ended"} /\ runs'[r].schedule = runs[r].schedule

\* No Operation moves.
LEMMA NoOperationMoves ==
  ASSUME UNCHANGED <<op, importOp>>
  PROVE  MovesOne /\ \A s \in Schedules : op[s] # "absent" => op'[s] # "absent"
BY DEF MovesOne, Moves, OperationStatesNow

\* The steps of a run that only record where it is, and the ones that change its
\* objects.
LEMMA RunStaysWithOperation ==
  ASSUME ExportTypeOK, NEW r \in Runs,
         \/ List(r) \/ ReadInstance(r) \/ (\E o \in Orgs : ReadOrganization(r, o))
         \/ StoreArtifact(r) \/ StoreEvidence(r) \/ RecordSuccess(r) \/ ReadEvidence(r)
         \/ ReadLatest(r) \/ SwapLatest(r) \/ LoseSwap(r) \/ Fail(r) \/ RecordFailure(r) \/ Stop(r)
  PROVE  StaysWithOperation(r) /\ op' = op
<1>0. runs[r] \in Run
  BY RunFields
<1>1. ASSUME NEW run, Become(r, run), runs[r].pc \notin {"idle", "ended"},
             run.pc = "ended" \/ run.schedule = runs[r].schedule
      PROVE  StaysWithOperation(r)
  BY <1>1, OnlyOneRun DEF StaysWithOperation
<1>2. ASSUME NEW run, Answered(r, run), runs[r].pc \notin {"idle", "ended"},
             run.schedule = runs[r].schedule
      PROVE  StaysWithOperation(r)
  <2>1. /\ runs'[r] = run \/ runs'[r] = At("failing", runs[r].schedule)
        /\ \A q \in Runs : q # r => runs'[q] = runs[q]
    BY <1>2, OnlyOneAnswered
  <2>2. runs'[r].schedule = runs[r].schedule
    BY <1>2, <2>1 DEF At
  <2> QED BY <1>2, <2>1, <2>2 DEF StaysWithOperation
<1>3. CASE List(r)
  BY <1>0, <1>1, <1>3 DEF List, Run, storeVars
<1>4. CASE ReadInstance(r)
  BY <1>0, <1>1, <1>4 DEF ReadInstance, Run, storeVars
<1>5. ASSUME NEW o \in Orgs, ReadOrganization(r, o) PROVE StaysWithOperation(r) /\ op' = op
  <2> DEFINE run == [runs[r] EXCEPT !.todo = @ \ {o}, !.draft.orgs = @ \cup ({o} \cap Present)]
  <2>1. run.schedule = runs[r].schedule
    BY <1>0 DEF Run, Backup
  <2>2. Become(r, run)
    BY <1>5, Zenon DEF ReadOrganization
  <2> HIDE DEF run
  <2>3. runs[r].pc = "reading" /\ UNCHANGED <<sourceVars, storeVars, objectVars>>
    BY <1>5, Zenon DEF ReadOrganization
  <2> QED BY <1>1, <2>1, <2>2, <2>3 DEF storeVars
<1>6. CASE StoreArtifact(r)
  BY <1>0, <1>2, <1>6 DEF StoreArtifact, Run, storeVars
<1>7. CASE StoreEvidence(r)
  BY <1>0, <1>2, <1>7 DEF StoreEvidence, At, storeVars
<1>8. CASE RecordSuccess(r)
  BY <1>0, <1>2, <1>8 DEF RecordSuccess, At
<1>9. CASE ReadEvidence(r)
  BY <1>0, <1>1, <1>9 DEF ReadEvidence, Reach, Run, storeVars
<1>10. CASE ReadLatest(r)
  BY <1>0, <1>1, <1>10 DEF ReadLatest, At, Run, storeVars
<1>11. CASE SwapLatest(r)
  BY <1>0, <1>1, <1>11 DEF SwapLatest, At, Ended, storeVars
<1>12. CASE LoseSwap(r)
  BY <1>0, <1>1, <1>12 DEF LoseSwap, At, Ended, storeVars
<1>13. CASE Fail(r)
  BY <1>0, <1>1, <1>13 DEF Fail, Executing, At, storeVars
<1>14. CASE RecordFailure(r)
  BY <1>0, <1>1, <1>14 DEF RecordFailure, At, Ended
<1>15. CASE Stop(r)
  BY <1>0, <1>1, <1>15 DEF Stop, AtWork, Executing, Publishing, At, Ended, storeVars
<1> QED
  BY <1>3, <1>4, <1>5, <1>6, <1>7, <1>8, <1>9, <1>10, <1>11, <1>12, <1>13, <1>14, <1>15

\* A run keeps what it found.
LEMMA FoundOperationsStay ==
  ASSUME ExportInv, OperationsExist, NEW r \in Runs, StaysWithOperation(r),
         \A s \in Schedules : op[s] # "absent" => op'[s] # "absent",
         UNCHANGED restoreVars
  PROVE  OperationsExist'
<1>1. ASSUME NEW q \in Runs, runs'[q].pc \notin {"idle", "ended"}
      PROVE  op'[runs'[q].schedule] # "absent"
  <2>1. runs[q].pc \notin {"idle", "ended"} /\ runs'[q].schedule = runs[q].schedule
    BY <1>1 DEF StaysWithOperation
  <2> QED BY <2>1, WorkHasSchedule DEF OperationsExist
<1> QED BY <1>1 DEF OperationsExist, restoreVars

\* A transition of a run's Operation.
LEMMA TransitionMovesOne ==
  ASSUME ExportInv, OperationsExist, NEW r \in Runs, runs[r].pc \notin {"idle", "ended"},
         NEW to \in States, Transition(runs[r].schedule, to), StaysWithOperation(r),
         UNCHANGED restoreVars
  PROVE  MovesOne /\ OperationsExist'
<1> DEFINE s == runs[r].schedule
<1>1. s \in Schedules /\ s # 0 /\ ExportTypeOK
  BY WorkHasSchedule, BackupAssumption DEF ExportInv
<1>2. op[s] \in States /\ to \in Allowed[op[s]] /\ op' = [op EXCEPT ![s] = to]
  BY <1>1 DEF OperationsExist, Transition, ExportTypeOK
<1>3. Moves(op[s], op'[s]) /\ \A p \in Schedules : p # s => op'[p] = op[p]
  BY <1>1, <1>2 DEF Moves, ExportTypeOK
<1>4. MovesOne
  <2> HIDE DEF s
  <2>1. importOp' = importOp
    BY DEF restoreVars
  <2> QED BY <1>1, <1>3, <2>1 DEF MovesOne, OperationStatesNow
<1>5. to # "absent"
  BY DEF States
<1> QED BY <1>1, <1>2, <1>4, <1>5, FoundOperationsStay DEF ExportTypeOK

\* The steps of the exports.
LEMMA ExportsMoveOne ==
  ASSUME ExportInv, OperationsExist, ExportNext, UNCHANGED restoreVars
  PROVE  MovesOne /\ OperationsExist'
<1>0. ExportTypeOK /\ importOp' = importOp /\ \A s \in Schedules : s # 0
  BY BackupAssumption DEF ExportInv, restoreVars
<1>1. CASE UNCHANGED <<op, runs>>
  BY <1>0, <1>1, NoOperationMoves DEF OperationsExist, restoreVars
<1>2. ASSUME NEW r \in Runs, NEW s \in Schedules, Invoke(r, s)
      PROVE  MovesOne /\ OperationsExist'
  <2>1. op[s] = "absent" /\ op' = [op EXCEPT ![s] = "pending"]
    BY <1>2 DEF Invoke
  <2>2. Moves(op[s], op'[s])
    BY <1>0, <2>1 DEF Moves, ExportTypeOK
  <2>3. MovesOne
    BY <1>0, <2>1, <2>2 DEF MovesOne, OperationStatesNow, ExportTypeOK
  <2>4. /\ runs'[r] = At("created", s) \/ runs'[r] = Ended
        /\ \A q \in Runs : q # r => runs'[q] = runs[q]
    BY <1>0, <1>2, OnlyOneRun DEF Invoke
  <2>5. ASSUME NEW q \in Runs, runs'[q].pc \notin {"idle", "ended"}
        PROVE  op'[runs'[q].schedule] # "absent"
    <3>1. CASE q = r
      BY <1>0, <2>1, <2>4, <2>5, <3>1 DEF At, Ended, ExportTypeOK
    <3>2. CASE q # r
      BY <1>0, <2>1, <2>4, <2>5, <3>2, WorkHasSchedule DEF OperationsExist, ExportTypeOK
    <3> QED BY <3>1, <3>2
  <2> QED BY <2>3, <2>5 DEF OperationsExist, restoreVars
<1>3. ASSUME NEW r \in Runs, NEW s \in Schedules, InvokeAgain(r, s)
      PROVE  MovesOne /\ OperationsExist'
  <2>1. op[s] # "absent" /\ op' = IF s \in expired THEN [op EXCEPT ![s] = "incomplete"] ELSE op
    BY <1>3 DEF InvokeAgain
  <2>2. Moves(op[s], op'[s])
    BY <1>0, <2>1 DEF Moves, ExportTypeOK, ExportInv, StoreHolds, States, Allowed
  <2>3. MovesOne
    BY <1>0, <2>1, <2>2 DEF MovesOne, OperationStatesNow, ExportTypeOK
  <2>4. /\ runs'[r] = At("republishing", s) \/ runs'[r] = Ended
        /\ \A q \in Runs : q # r => runs'[q] = runs[q]
    BY <1>0, <1>3, OnlyOneRun DEF InvokeAgain
  <2>5. \A p \in Schedules : op[p] # "absent" => op'[p] # "absent"
    BY <1>0, <2>1 DEF ExportTypeOK
  <2>6. ASSUME NEW q \in Runs, runs'[q].pc \notin {"idle", "ended"}
        PROVE  op'[runs'[q].schedule] # "absent"
    <3>1. CASE q = r
      BY <2>1, <2>4, <2>5, <2>6, <3>1 DEF At, Ended
    <3>2. CASE q # r
      BY <2>4, <2>5, <2>6, <3>2, WorkHasSchedule DEF OperationsExist
    <3> QED BY <3>1, <3>2
  <2> QED BY <2>3, <2>6 DEF OperationsExist, restoreVars
<1>4. ASSUME NEW r \in Runs, Start(r) \/ Succeed(r) \/ MarkFailed(r)
      PROVE  MovesOne /\ OperationsExist'
  <2>1. /\ runs[r].pc \notin {"idle", "ended"}
        /\ \E to \in States : Transition(runs[r].schedule, to)
    BY <1>4 DEF Start, Succeed, MarkFailed, States
  <2>2. StaysWithOperation(r)
    <3>1. CASE Start(r)
      <4>1. /\ \/ runs'[r] = At("started", runs[r].schedule)
               \/ runs'[r] = At("failing", runs[r].schedule)
            /\ \A q \in Runs : q # r => runs'[q] = runs[q]
        BY <1>0, <3>1, OnlyOneAnswered DEF Start
      <4>2. runs'[r].schedule = runs[r].schedule
        BY <4>1 DEF At
      <4> QED BY <2>1, <4>1, <4>2 DEF StaysWithOperation
    <3>2. CASE Succeed(r)
      <4>1. /\ \/ runs'[r] = At("publishing", runs[r].schedule)
               \/ runs'[r] = At("failing", runs[r].schedule)
            /\ \A q \in Runs : q # r => runs'[q] = runs[q]
        BY <1>0, <3>2, OnlyOneAnswered DEF Succeed
      <4>2. runs'[r].schedule = runs[r].schedule
        BY <4>1 DEF At
      <4> QED BY <2>1, <4>1, <4>2 DEF StaysWithOperation
    <3>3. CASE MarkFailed(r)
      BY <1>0, <3>3, OnlyOneRun DEF MarkFailed, StaysWithOperation, At, Ended
    <3> QED BY <1>4, <3>1, <3>2, <3>3
  <2> QED BY <2>1, <2>2, TransitionMovesOne
<1>5. ASSUME NEW r \in Runs, StaysWithOperation(r), op' = op
      PROVE  MovesOne /\ OperationsExist'
  BY <1>0, <1>5, NoOperationMoves, FoundOperationsStay
<1>6. ASSUME NEW r \in Runs, RunStep(r) PROVE MovesOne /\ OperationsExist'
  BY <1>0, <1>2, <1>3, <1>4, <1>5, <1>6, RunStaysWithOperation DEF RunStep
<1>7. CASE SourceStep \/ \E s \in Schedules : Expire(s)
  BY <1>1, <1>7 DEF SourceStep, Bootstrap, Onboard, Delete, Expire, storeVars
<1> QED BY <1>6, <1>7 DEF ExportNext

\* The steps of the imports.
LEMMA ImportsMoveOne ==
  ASSUME Inv, OperationsExist, NEW i \in Imports, ImportStep(i)
  PROVE  MovesOne /\ OperationsExist'
<1>0. /\ imports \in [Imports -> Import] /\ importOp \in States \cup {"absent"}
      /\ \A s \in Schedules : s # 0
  BY BackupAssumption DEF Inv, RestoreTypeOK
<1>a. UNCHANGED <<op, runs>>
  BY DEF ImportStep, Verify, Prove, Arm, CopyInstance, CopyOrganization, CopyClaims, OpenOperation,
         BeginOperation, RecordImport, FinishOperation, CompleteJournal, FailImport,
         MarkJournalFailed, StopImport, exportVars, storeVars
<1>b. ASSUME NEW import, Arrive(i, import),
             import.pc \in {"opened", "begun", "noted"} => importOp' # "absent",
             importOp # "absent" => importOp' # "absent", Moves(importOp, importOp')
      PROVE  MovesOne /\ OperationsExist'
  <2>1. MovesOne
    BY <1>0, <1>a, <1>b DEF MovesOne, OperationStatesNow
  <2>2. imports'[i] = import /\ \A j \in Imports : j # i => imports'[j] = imports[j]
    BY <1>0, <1>b DEF Arrive
  <2> QED BY <1>a, <1>b, <2>1, <2>2 DEF OperationsExist
<1>c. ASSUME NEW next, NEW lost \in {"failing", "ended"}, Advance(i, next, lost),
             next \in {"opened", "begun", "noted"} => importOp' # "absent",
             importOp # "absent" => importOp' # "absent", Moves(importOp, importOp')
      PROVE  MovesOne /\ OperationsExist'
  <2>1. [imports[i] EXCEPT !.pc = next].pc = next /\ ImportAt(lost).pc \in {"failing", "ended"}
    BY <1>0 DEF Import, ImportAt
  <2> QED BY <1>b, <1>c, <2>1 DEF Advance
<1>d. importOp' = importOp => /\ importOp # "absent" => importOp' # "absent"
                              /\ Moves(importOp, importOp')
  BY DEF Moves
<1>1. ASSUME NEW s \in Schedules, Verify(i, s) PROVE MovesOne /\ OperationsExist'
  BY <1>1, <1>b, <1>d DEF Verify
<1>2. CASE Prove(i)
  BY <1>0, <1>2, <1>b, <1>d DEF Prove, Import
<1>3. CASE Arm(i)
  BY <1>3, <1>c, <1>d DEF Arm
<1>4. CASE CopyInstance(i)
  BY <1>4, <1>c, <1>d DEF CopyInstance
<1>5. ASSUME NEW o \in Orgs, CopyOrganization(i, o) PROVE MovesOne /\ OperationsExist'
  <2>1. importOp' = importOp /\ imports[i].pc = "copying"
    BY <1>5 DEF CopyOrganization
  <2>2. [imports[i] EXCEPT !.pending = @ \ {o}].pc = "copying" /\ ImportAt("failing").pc = "failing"
    BY <1>0, <2>1 DEF Import, ImportAt
  <2> QED BY <1>5, <1>b, <1>d, <2>1, <2>2 DEF CopyOrganization
<1>6. CASE CopyClaims(i)
  BY <1>6, <1>c, <1>d DEF CopyClaims
<1>7. CASE OpenOperation(i)
  BY <1>7, <1>c DEF OpenOperation, Moves
<1>8. CASE BeginOperation(i)
  <2>1. importOp \in States
    BY <1>0, <1>8 DEF BeginOperation, OperationsExist
  <2> QED BY <1>8, <1>c, <2>1 DEF BeginOperation, Moves
<1>9. CASE RecordImport(i)
  BY <1>9, <1>c, <1>d DEF RecordImport, OperationsExist
<1>10. CASE FinishOperation(i)
  <2>1. importOp \in States
    BY <1>0, <1>10 DEF FinishOperation, OperationsExist
  <2> QED BY <1>10, <1>c, <2>1 DEF FinishOperation, Moves
<1>11. CASE CompleteJournal(i)
  BY <1>11, <1>c, <1>d DEF CompleteJournal
<1>12. CASE FailImport(i) \/ MarkJournalFailed(i) \/ StopImport(i)
  BY <1>12, <1>b, <1>d DEF FailImport, MarkJournalFailed, StopImport, ImportAt
<1> QED
  BY <1>1, <1>2, <1>3, <1>4, <1>5, <1>6, <1>7, <1>8, <1>9, <1>10, <1>11, <1>12 DEF ImportStep

\* Backup Operations move as OperationLifecycle promises their callers.
BackupsImplementLifecycle == Lifecycle!Spec

\* For any number of exports, replays and imports the parking of an abandoned export
\* by a replay is an arm of the transition table, and no run, however late, writes
\* to an Operation that is terminal.
THEOREM BackupOperationsKeepLifecycle == Spec => BackupsImplementLifecycle
<1>1. Init => Lifecycle!Init /\ OperationsExist
  BY BackupAssumption
  DEF Init, ExportInit, Lifecycle!Init, OperationStatesNow, OperationsExist, Idle, At, ImportAt
<1>2. Inv /\ OperationsExist /\ [Next]_vars
        => [Lifecycle!Next]_OperationStatesNow /\ OperationsExist'
  <2> SUFFICES ASSUME Inv, OperationsExist, [Next]_vars
               PROVE  [Lifecycle!Next]_OperationStatesNow /\ OperationsExist'
    OBVIOUS
  <2>1. CASE UNCHANGED vars
    BY <2>1 DEF vars, exportVars, storeVars, restoreVars, OperationStatesNow, OperationsExist
  <2>2. CASE Next
    <3>1. MovesOne /\ OperationsExist'
      BY <2>2, ExportsMoveOne, ImportsMoveOne DEF Next, Inv
    <3>2. PICK o \in Schedules \cup {0} :
             /\ Moves(OperationStatesNow[o], OperationStatesNow'[o])
             /\ \A p \in Schedules \cup {0} : p # o => OperationStatesNow'[p] = OperationStatesNow[p]
      BY <3>1 DEF MovesOne
    <3> DEFINE from == OperationStatesNow[o]
               to   == OperationStatesNow'[o]
    <3>3. OperationStatesNow' = [OperationStatesNow EXCEPT ![o] = to]
      BY <3>2 DEF OperationStatesNow
    <3>4. CASE to = from
      <4>1. \A p \in Schedules \cup {0} : OperationStatesNow'[p] = OperationStatesNow[p]
        BY <3>2, <3>4
      <4>2. OperationStatesNow' = OperationStatesNow
        BY <4>1 DEF OperationStatesNow
      <4> QED BY <3>1, <4>2
    <3> HIDE DEF to
    <3>5. CASE from = "absent" /\ to = "pending"
      <4>1. Lifecycle!Create(o)
        BY <3>3, <3>5 DEF Lifecycle!Create
      <4> QED BY <3>1, <4>1 DEF Lifecycle!Next
    <3>6. CASE from \in States /\ to \in Allowed[from]
      <4>1. Lifecycle!Move(o)
        BY <3>3, <3>6 DEF Lifecycle!Move, Lifecycle!States, Lifecycle!Allowed, States, Allowed
      <4> QED BY <3>1, <4>1 DEF Lifecycle!Next
    <3> QED BY <3>1, <3>2, <3>4, <3>5, <3>6 DEF Moves, to
  <2> QED BY <2>1, <2>2
<1> QED BY <1>1, <1>2, SpecInv, PTL DEF Spec, BackupsImplementLifecycle, Lifecycle!Spec
=============================================================================
