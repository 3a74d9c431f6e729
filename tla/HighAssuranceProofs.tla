------------------------- MODULE HighAssuranceProofs -------------------------
(***************************************************************************)
(* Theorems about HighAssurance, for any number of Operations, challenges, *)
(* users, kinds of mutation and clients.                                   *)
(***************************************************************************)
EXTENDS HighAssurance, TLAPS

-----------------------------------------------------------------------------
(* The inductive invariant.                                                *)

\* The challenge in a row was raised for it.
RowHolds(o) ==
  ops[o] # None /\ ops[o].challenge # None =>
    /\ evidence[ops[o].challenge] # None
    /\ evidence[ops[o].challenge].op = o

\* Evidence is that of the user and the mutation its Operation was created for.
\* It is consumed after a clear only, and denied evidence stays in a canceled row.
EvidenceHolds(h) ==
  evidence[h] # None =>
    /\ ops[evidence[h].op] # None
    /\ evidence[h].user = ops[evidence[h].op].creator
    /\ evidence[h].kind = ops[evidence[h].op].intent
    /\ evidence[h].consumed => evidence[h].cleared
    /\ evidence[h].denier # None =>
         /\ ~evidence[h].cleared
         /\ ops[evidence[h].op].state = "canceled"
         /\ ops[evidence[h].op].challenge = h

\* What a call in the middle of its work knows about its Operation, ...
JobKnowsRow(j) ==
  /\ j.phase # "idle" => j.op \in Ops /\ j.user \in Users /\ ops[j.op] # None
  /\ j.phase \in {"requesting", "raising"} => j.user = ops[j.op].creator
  /\ j.phase \in {"requesting", "raising", "resuming", "consuming", "mutating"} =>
       j.kind = ops[j.op].intent
  /\ j.phase = "resuming" => ops[j.op].challenge # None

\* ... about its challenge, ...
JobKnowsChallenge(j) ==
  /\ j.phase \in {"clearing", "denying", "consuming", "auditing", "mutating"} =>
       /\ j.challenge \in Challenges
       /\ evidence[j.challenge] # None
       /\ evidence[j.challenge].op = j.op
  /\ j.phase \in {"consuming", "mutating"} => j.user = evidence[j.challenge].user
  /\ j.phase = "mutating" => evidence[j.challenge].consumed

\* ... and about the events it still has to write.
JobKnowsAudits(j) ==
  /\ j.todo # {} => j.phase \in {"auditing", "mutating"}
  /\ "clear" \in j.todo => evidence[j.challenge].cleared
  /\ "deny" \in j.todo => evidence[j.challenge].denier # None
  /\ "consume" \in j.todo => j.phase = "mutating"
  /\ j.phase \in {"auditing", "mutating"} /\ "request" \notin j.todo =>
       "request" \in audit[j.challenge]
  /\ "consume" \in j.todo /\ "clear" \notin j.todo => "clear" \in audit[j.challenge]
  /\ j.phase = "mutating" /\ "consume" \notin j.todo => "consume" \in audit[j.challenge]

JobHolds(j) == JobKnowsRow(j) /\ JobKnowsChallenge(j) /\ JobKnowsAudits(j)

\* One mutation per challenge is about to run, and none has run before it.
SingleUse ==
  /\ \A c \in Clients : In(c, "mutating") =>
       /\ effects[jobs[c].challenge] = 0
       /\ \A d \in Clients \ {c} : In(d, "mutating") => jobs[d].challenge # jobs[c].challenge
  /\ \A h \in Challenges : effects[h] > 0 =>
       effects[h] = 1 /\ evidence[h] # None /\ evidence[h].consumed

RecordsHold ==
  /\ \A o \in Ops : RowHolds(o)
  /\ \A h \in Challenges : EvidenceHolds(h)

JobsHold == \A c \in Clients : JobHolds(jobs[c])

HAInv == HATypeOK /\ RecordsHold /\ JobsHold /\ SingleUse /\ AuditTrailIsOrdered

-----------------------------------------------------------------------------
(* What no step takes back.                                                *)

\* Operations keep what they were created for, evidence what was decided about it,
\* and the log its events.
Grown ==
  /\ \A o \in Ops : ops[o] # None =>
       /\ ops'[o] # None /\ ops'[o].creator = ops[o].creator /\ ops'[o].intent = ops[o].intent
       /\ ops[o].challenge # None => ops'[o].challenge # None
  /\ \A h \in Challenges : evidence[h] # None =>
       /\ evidence'[h] # None
       /\ evidence'[h].op = evidence[h].op
       /\ evidence'[h].user = evidence[h].user
       /\ evidence[h].cleared => evidence'[h].cleared
       /\ evidence[h].consumed => evidence'[h].consumed
       /\ evidence[h].denier # None => evidence'[h].denier # None
  /\ \A h \in Challenges : audit[h] \subseteq audit'[h]

\* What a call knows stays true while others work.
LEMMA JobStillHolds ==
  ASSUME Grown, NEW j \in Job, JobHolds(j)
  PROVE  JobHolds(j)'
<1>1. JobKnowsRow(j)'
  BY DEF Grown, JobHolds, JobKnowsRow
<1>2. JobKnowsChallenge(j)'
  BY DEF Grown, JobHolds, JobKnowsRow, JobKnowsChallenge
<1>3. JobKnowsAudits(j)'
  BY DEF Grown, JobHolds, JobKnowsRow, JobKnowsChallenge, JobKnowsAudits
<1> QED BY <1>1, <1>2, <1>3 DEF JobHolds

\* A step of client c that leaves it with a job that holds keeps JobsHold.
LEMMA JobsStillHold ==
  ASSUME HATypeOK, JobsHold, Grown, NEW c \in Clients, NEW j \in Job, JobHolds(j)',
         jobs' = [jobs EXCEPT ![c] = j]
  PROVE  JobsHold'
<1> SUFFICES ASSUME NEW d \in Clients PROVE JobHolds(jobs[d])'
  BY DEF JobsHold
<1>1. PICK i \in Job : jobs'[d] = i /\ JobHolds(i)'
  <2>1. CASE d = c
    BY <2>1 DEF HATypeOK
  <2>2. CASE d # c
    <3>1. PICK i \in Job : jobs[d] = i /\ jobs'[d] = i
      BY <2>2 DEF HATypeOK
    <3>2. JobHolds(i)
      BY <3>1 DEF JobsHold
    <3> QED BY <3>1, <3>2, JobStillHolds
  <2> QED BY <2>1, <2>2
<1> QED BY <1>1 DEF JobHolds, JobKnowsRow, JobKnowsChallenge, JobKnowsAudits

\* The step of a call that writes nothing but its own progress.
LEMMA OnlyItsJob ==
  ASSUME HAInv, NEW c \in Clients, NEW j \in Job, JobHolds(j), j.phase # "mutating",
         jobs' = [jobs EXCEPT ![c] = j],
         UNCHANGED <<ops, evidence, expired, audit, effects>>
  PROVE  HAInv'
<1>1. HATypeOK'
  BY DEF HAInv, HATypeOK
<1>2. Grown
  BY DEF Grown
<1>3. RecordsHold'
  BY DEF HAInv, RecordsHold, RowHolds, EvidenceHolds
<1>4. JobsHold'
  BY <1>2, JobStillHolds, JobsStillHold DEF HAInv
<1>5. SingleUse'
  <2>1. \A d \in Clients : In(d, "mutating")' => In(d, "mutating") /\ jobs'[d] = jobs[d]
    BY DEF HAInv, HATypeOK, In
  <2> QED BY <2>1 DEF HAInv, SingleUse, In
<1>6. AuditTrailIsOrdered'
  BY DEF HAInv, AuditTrailIsOrdered
<1> QED BY <1>1, <1>3, <1>4, <1>5, <1>6 DEF HAInv

\* A step that changes no evidence, effect or event and no call.
LEMMA OnlyRows ==
  ASSUME HAInv, HATypeOK', Grown, RecordsHold', UNCHANGED <<evidence, audit, jobs, effects>>
  PROVE  HAInv'
<1>1. JobsHold'
  <2> SUFFICES ASSUME NEW d \in Clients PROVE JobHolds(jobs[d])'
    BY DEF JobsHold
  <2>1. PICK i \in Job : jobs[d] = i /\ jobs'[d] = i
    BY DEF HAInv, HATypeOK
  <2>2. JobHolds(i)
    BY <2>1 DEF HAInv, JobsHold
  <2>3. JobHolds(i)'
    BY <2>1, <2>2, JobStillHolds
  <2> QED BY <2>1, <2>3 DEF JobHolds, JobKnowsRow, JobKnowsChallenge, JobKnowsAudits
<1>2. SingleUse' /\ AuditTrailIsOrdered'
  BY DEF HAInv, SingleUse, In, AuditTrailIsOrdered
<1> QED BY <1>1, <1>2 DEF HAInv

-----------------------------------------------------------------------------
(* One lemma per action.                                                   *)

\* What Start writes.
StartedJob(phase, o, u, k, h, todo) ==
  [phase |-> phase, op |-> o, user |-> u, kind |-> k, challenge |-> h, todo |-> todo]

LEMMA CreateOperationStep ==
  ASSUME HAInv, NEW c \in Clients, NEW o \in Ops, NEW u \in Users, NEW k \in Kinds,
         CreateOperation(c, o, u, k)
  PROVE  HAInv'
<1> DEFINE j == StartedJob("requesting", o, u, k, None, {})
<1>1. j \in Job
  BY DEF StartedJob, Job, Phases, AuditKinds
<1>2. /\ ops[o] = None
      /\ ops' = [ops EXCEPT ![o] = [state |-> "pending", creator |-> u, intent |-> k,
                                    challenge |-> None]]
      /\ jobs' = [jobs EXCEPT ![c] = j]
      /\ UNCHANGED <<evidence, expired, audit, effects>>
  BY DEF CreateOperation, Start, StartedJob, Exists
<1> HIDE DEF j
<1>3. ops' \in [Ops -> Row \cup {None}] /\ ops'[o] \in Row
  <2>1. [state |-> "pending", creator |-> u, intent |-> k, challenge |-> None] \in Row
    BY DEF Row, GateStates
  <2> QED BY <1>2, <2>1 DEF HAInv, HATypeOK
<1>4. HATypeOK'
  BY <1>1, <1>2, <1>3 DEF HAInv, HATypeOK
<1>5. Grown
  BY <1>2 DEF Grown, HAInv, HATypeOK
<1>6. RecordsHold'
  BY <1>2, <1>3, AbsentAssumption DEF HAInv, HATypeOK, RecordsHold, RowHolds, EvidenceHolds
<1>7. JobsHold'
  <2>1. JobHolds(j)'
    BY <1>2, <1>3, AbsentAssumption
    DEF HAInv, HATypeOK, j, StartedJob, JobHolds, JobKnowsRow, JobKnowsChallenge, JobKnowsAudits
  <2> QED BY <1>1, <1>2, <1>5, <2>1, JobsStillHold DEF HAInv
<1>8. SingleUse'
  <2>1. \A d \in Clients : In(d, "mutating")' => In(d, "mutating") /\ jobs'[d] = jobs[d]
    BY <1>2 DEF HAInv, HATypeOK, In, j, StartedJob
  <2> QED BY <1>2, <2>1 DEF HAInv, SingleUse, In
<1>9. AuditTrailIsOrdered'
  BY <1>2 DEF HAInv, AuditTrailIsOrdered
<1> QED BY <1>4, <1>6, <1>7, <1>8, <1>9 DEF HAInv

LEMMA RetryRequestStep ==
  ASSUME HAInv, NEW c \in Clients, NEW o \in Ops, RetryRequest(c, o)
  PROVE  HAInv'
<1> DEFINE j == StartedJob("requesting", o, ops[o].creator, ops[o].intent, None, {})
<1>1. ops[o] # None /\ ops[o] \in Row
  BY DEF RetryRequest, Exists, HAInv, HATypeOK
<1>2. PICK i \in Job : i = j
  BY <1>1 DEF StartedJob, Job, Phases, AuditKinds, Row
<1>3. JobHolds(i)
  BY <1>1, <1>2 DEF StartedJob, JobHolds, JobKnowsRow, JobKnowsChallenge, JobKnowsAudits, Row
<1>4. jobs' = [jobs EXCEPT ![c] = i] /\ UNCHANGED <<ops, evidence, expired, audit, effects>>
  BY <1>2 DEF RetryRequest, Start, StartedJob
<1> QED BY <1>2, <1>3, <1>4, OnlyItsJob DEF StartedJob

LEMMA ReadForRequestStep ==
  ASSUME HAInv, NEW c \in Clients, ReadForRequest(c)
  PROVE  HAInv'
<1> DEFINE job == jobs[c]
           o   == job.op
<1>1. /\ job \in Job /\ JobHolds(job)
      /\ job.phase = "requesting"
      /\ UNCHANGED <<ops, evidence, expired, audit, effects>>
  BY DEF HAInv, HATypeOK, JobsHold, ReadForRequest, In
<1>2. /\ o \in Ops /\ job.user \in Users /\ ops[o] # None /\ ops[o] \in Row
      /\ job.user = ops[o].creator /\ job.kind = ops[o].intent /\ job.kind \in Kinds
  BY <1>1 DEF HAInv, HATypeOK, JobHolds, JobKnowsRow, Row
<1>3. CASE IsRequested(o)
  <2> DEFINE j == StartedJob("auditing", o, job.user, job.kind, ops[o].challenge, {"request"})
  <2>1. ops[o].challenge \in Challenges /\ evidence[ops[o].challenge] # None
        /\ evidence[ops[o].challenge].op = o
    BY <1>2, <1>3 DEF IsRequested, HasEvidence, HAInv, RecordsHold, RowHolds, Row
  <2>2. PICK i \in Job : i = j
    BY <1>2, <2>1 DEF StartedJob, Job, Phases, AuditKinds
  <2>3. JobHolds(i)
    BY <1>2, <2>1, <2>2
    DEF StartedJob, JobHolds, JobKnowsRow, JobKnowsChallenge, JobKnowsAudits
  <2>4. jobs' = [jobs EXCEPT ![c] = i]
    BY <1>3, <2>2 DEF ReadForRequest, Start, StartedJob
  <2> QED BY <1>1, <2>2, <2>3, <2>4, OnlyItsJob DEF StartedJob
<1>4. CASE ~IsRequested(o)
  <2> DEFINE j == StartedJob("raising", o, job.user, job.kind, None, {})
  <2>1. PICK i \in Job : i = j
    BY <1>2 DEF StartedJob, Job, Phases, AuditKinds
  <2>2. JobHolds(i)
    BY <1>2, <2>1
    DEF StartedJob, JobHolds, JobKnowsRow, JobKnowsChallenge, JobKnowsAudits
  <2>3. jobs' = [jobs EXCEPT ![c] = i]
    BY <1>4, <2>1 DEF ReadForRequest, Start, StartedJob
  <2> QED BY <1>1, <2>1, <2>2, <2>3, OnlyItsJob DEF StartedJob
<1> QED BY <1>3, <1>4

LEMMA RaiseChallengeStep ==
  ASSUME HAInv, NEW c \in Clients, NEW h \in Challenges, RaiseChallenge(c, h)
  PROVE  HAInv'
<1> DEFINE job == jobs[c]
           o   == job.op
           j   == StartedJob("auditing", o, job.user, job.kind, h, {"request"})
<1>1. /\ job \in Job /\ JobHolds(job) /\ job.phase = "raising"
      /\ o \in Ops /\ job.user \in Users /\ ops[o] # None /\ ops[o] \in Row
      /\ job.user = ops[o].creator /\ job.kind = ops[o].intent /\ job.kind \in Kinds
  BY DEF HAInv, HATypeOK, JobsHold, RaiseChallenge, In, JobHolds, JobKnowsRow, Row
<1>2. /\ evidence[h] = None
      /\ ops[o].state # "canceled"
      /\ ops' = [ops EXCEPT ![o].state = "waiting_for_human", ![o].challenge = h]
      /\ evidence' = [evidence EXCEPT ![h] =
                        [op |-> o, user |-> job.user, kind |-> job.kind, cleared |-> FALSE,
                         consumed |-> FALSE, denier |-> None]]
      /\ UNCHANGED <<expired, audit, effects>>
  BY DEF RaiseChallenge, Terminal
<1>3. PICK i \in Job : i = j
  BY <1>1 DEF StartedJob, Job, Phases, AuditKinds
<1>4. jobs' = [jobs EXCEPT ![c] = i]
  BY <1>3 DEF RaiseChallenge, Start, StartedJob
<1>5. /\ evidence'[h] \in Evidence
      /\ evidence'[h].op = o /\ evidence'[h].user = ops[o].creator
      /\ evidence'[h].kind = ops[o].intent
      /\ ~evidence'[h].consumed /\ evidence'[h].denier = None
      /\ \A g \in Challenges \ {h} : evidence'[g] = evidence[g]
  <2>1. [op |-> o, user |-> job.user, kind |-> job.kind, cleared |-> FALSE,
         consumed |-> FALSE, denier |-> None] \in Evidence
    BY <1>1 DEF Evidence
  <2> QED BY <1>1, <1>2, <2>1 DEF HAInv, HATypeOK
<1>6. /\ ops'[o] \in Row
      /\ ops'[o].creator = ops[o].creator /\ ops'[o].intent = ops[o].intent
      /\ ops'[o].challenge = h
      /\ \A p \in Ops \ {o} : ops'[p] = ops[p]
  BY <1>1, <1>2 DEF HAInv, HATypeOK, Row, GateStates
<1>7. HATypeOK'
  <2>1. ops' \in [Ops -> Row \cup {None}]
    BY <1>2, <1>6 DEF HAInv, HATypeOK
  <2>2. evidence' \in [Challenges -> Evidence \cup {None}]
    BY <1>2, <1>5 DEF HAInv, HATypeOK
  <2>3. jobs' \in [Clients -> Job]
    BY <1>3, <1>4 DEF HAInv, HATypeOK
  <2> QED BY <1>2, <2>1, <2>2, <2>3 DEF HAInv, HATypeOK
<1>8. Grown
  <2>1. ops'[o] # None /\ ops'[o].challenge # None
    BY <1>6, AbsentAssumption, ChallengeAssumption
  <2>2. \A p \in Ops : ops[p] # None =>
          /\ ops'[p] # None /\ ops'[p].creator = ops[p].creator /\ ops'[p].intent = ops[p].intent
          /\ ops[p].challenge # None => ops'[p].challenge # None
    BY <1>6, <2>1
  <2>3. \A g \in Challenges : evidence[g] # None => evidence'[g] = evidence[g]
    BY <1>2, <1>5
  <2> QED BY <1>2, <2>2, <2>3 DEF Grown
<1>9. RecordsHold'
  <2>1. ASSUME NEW p \in Ops PROVE RowHolds(p)'
    <3>1. CASE p = o
      BY <1>5, <1>6, <3>1, AbsentAssumption DEF RowHolds
    <3>2. CASE p # o
      <4>1. RowHolds(p) /\ ops'[p] = ops[p]
        BY <1>6, <3>2 DEF HAInv, RecordsHold
      <4>2. ops[p] # None => ops[p].challenge \in Challenges \cup {None}
        BY DEF HAInv, HATypeOK, Row
      <4> QED BY <1>2, <1>5, <4>1, <4>2 DEF RowHolds
    <3> QED BY <3>1, <3>2
  <2>2. ASSUME NEW g \in Challenges PROVE EvidenceHolds(g)'
    <3>1. CASE g = h
      BY <1>5, <1>6, <3>1, AbsentAssumption DEF EvidenceHolds
    <3>2. CASE g # h
      <4>1. evidence'[g] = evidence[g] /\ EvidenceHolds(g)
        BY <1>5, <3>2 DEF HAInv, RecordsHold
      <4>2. CASE evidence[g] = None
        BY <4>1, <4>2 DEF EvidenceHolds
      <4>3. CASE evidence[g] # None
        <5>1. evidence[g].op \in Ops
          BY <4>3 DEF HAInv, HATypeOK, Evidence
        <5>2. evidence[g].denier # None => evidence[g].op # o
          BY <1>2, <4>1, <4>3 DEF EvidenceHolds
        <5> QED BY <1>6, <4>1, <4>3, <5>1, <5>2, AbsentAssumption DEF EvidenceHolds
      <4> QED BY <4>2, <4>3
    <3> QED BY <3>1, <3>2
  <2> QED BY <2>1, <2>2 DEF RecordsHold
<1>10. JobsHold'
  <2>1. JobHolds(i)'
    BY <1>1, <1>3, <1>5, <1>6, AbsentAssumption
    DEF StartedJob, JobHolds, JobKnowsRow, JobKnowsChallenge, JobKnowsAudits
  <2> QED BY <1>3, <1>4, <1>8, <2>1, JobsStillHold DEF HAInv
<1>11. SingleUse'
  <2>1. \A d \in Clients : In(d, "mutating")' => In(d, "mutating") /\ jobs'[d] = jobs[d]
    BY <1>3, <1>4 DEF HAInv, HATypeOK, In, StartedJob
  <2> QED BY <1>2, <1>5, <2>1 DEF HAInv, SingleUse, In
<1>12. AuditTrailIsOrdered'
  BY <1>2, <1>5 DEF HAInv, AuditTrailIsOrdered, SingleUse
<1> QED BY <1>7, <1>9, <1>10, <1>11, <1>12 DEF HAInv

LEMMA BeginClearStep ==
  ASSUME HAInv, NEW c \in Clients, NEW o \in Ops, NEW u \in Users, BeginClear(c, o, u)
  PROVE  HAInv'
<1>1. /\ ops[o] # None /\ ops[o] \in Row
      /\ ops[o].challenge \in Challenges /\ evidence[ops[o].challenge] # None
      /\ evidence[ops[o].challenge].op = o
      /\ UNCHANGED <<ops, evidence, expired, audit, effects>>
  BY DEF BeginClear, HasEvidence, Exists, HAInv, HATypeOK, RecordsHold, RowHolds, Row
<1>2. PICK phase \in {"auditing", "clearing"}, todo \in SUBSET AuditKinds :
        /\ Start(c, phase, o, u, None, ops[o].challenge, todo)
        /\ \/ phase = "auditing" /\ todo = {"request", "clear"} /\ evidence[ops[o].challenge].cleared
           \/ phase = "clearing" /\ todo = {}
  BY DEF BeginClear, DurableClear, AuditKinds, Held
<1>3. PICK i \in Job : i = StartedJob(phase, o, u, None, ops[o].challenge, todo)
  BY <1>1, <1>2 DEF StartedJob, Job, Phases
<1>4. JobHolds(i)
  BY <1>1, <1>2, <1>3
  DEF StartedJob, JobHolds, JobKnowsRow, JobKnowsChallenge, JobKnowsAudits
<1>5. jobs' = [jobs EXCEPT ![c] = i]
  BY <1>2, <1>3 DEF Start, StartedJob
<1> QED BY <1>1, <1>2, <1>3, <1>4, <1>5, OnlyItsJob DEF StartedJob

LEMMA BeginDenyStep ==
  ASSUME HAInv, NEW c \in Clients, NEW o \in Ops, NEW u \in Users, BeginDeny(c, o, u)
  PROVE  HAInv'
<1>1. /\ ops[o] # None /\ ops[o] \in Row
      /\ ops[o].challenge \in Challenges /\ evidence[ops[o].challenge] # None
      /\ evidence[ops[o].challenge].op = o
      /\ UNCHANGED <<ops, evidence, expired, audit, effects>>
  BY DEF BeginDeny, HasEvidence, Exists, HAInv, HATypeOK, RecordsHold, RowHolds, Row
<1>2. PICK phase \in {"auditing", "denying"}, todo \in SUBSET AuditKinds :
        /\ Start(c, phase, o, u, None, ops[o].challenge, todo)
        /\ \/ /\ phase = "auditing" /\ todo = {"request", "deny"}
              /\ evidence[ops[o].challenge].denier # None
           \/ phase = "denying" /\ todo = {}
  BY ChallengeAssumption DEF BeginDeny, AuditKinds, Held
<1>3. PICK i \in Job : i = StartedJob(phase, o, u, None, ops[o].challenge, todo)
  BY <1>1, <1>2 DEF StartedJob, Job, Phases
<1>4. JobHolds(i)
  BY <1>1, <1>2, <1>3
  DEF StartedJob, JobHolds, JobKnowsRow, JobKnowsChallenge, JobKnowsAudits
<1>5. jobs' = [jobs EXCEPT ![c] = i]
  BY <1>2, <1>3 DEF Start, StartedJob
<1> QED BY <1>1, <1>2, <1>3, <1>4, <1>5, OnlyItsJob DEF StartedJob

LEMMA BeginResumeStep ==
  ASSUME HAInv, NEW c \in Clients, NEW o \in Ops, NEW u \in Users, NEW k \in Kinds,
         BeginResume(c, o, u, k)
  PROVE  HAInv'
<1>1. /\ ops[o] # None /\ ops[o].challenge # None
      /\ evidence[ops[o].challenge].kind = k /\ ops[o].challenge \in Challenges
      /\ evidence[ops[o].challenge].op = o /\ evidence[ops[o].challenge] # None
      /\ UNCHANGED <<ops, evidence, expired, audit, effects>>
  BY DEF BeginResume, HasEvidence, Held, Exists, HAInv, HATypeOK, RecordsHold, RowHolds, Row
<1>2. k = ops[o].intent
  BY <1>1 DEF HAInv, RecordsHold, EvidenceHolds
<1>3. PICK i \in Job : i = StartedJob("resuming", o, u, k, None, {})
  BY DEF StartedJob, Job, Phases, AuditKinds
<1>4. JobHolds(i)
  BY <1>1, <1>2, <1>3
  DEF StartedJob, JobHolds, JobKnowsRow, JobKnowsChallenge, JobKnowsAudits
<1>5. jobs' = [jobs EXCEPT ![c] = i]
  BY <1>3 DEF BeginResume, Start, StartedJob
<1> QED BY <1>1, <1>3, <1>4, <1>5, OnlyItsJob DEF StartedJob

LEMMA ValidateEvidenceStep ==
  ASSUME HAInv, NEW c \in Clients, ValidateEvidence(c)
  PROVE  HAInv'
<1> DEFINE o == jobs[c].op
           h == ops[o].challenge
<1>1. /\ jobs[c] \in Job /\ JobHolds(jobs[c]) /\ jobs[c].phase = "resuming"
      /\ o \in Ops /\ ops[o] # None /\ ops[o] \in Row
      /\ jobs[c].user \in Users /\ jobs[c].kind = ops[o].intent
      /\ jobs[c].todo = {} /\ h # None
  BY DEF HAInv, HATypeOK, JobsHold, ValidateEvidence, In, JobHolds, JobKnowsRow, JobKnowsAudits
<1>2. /\ evidence[h].user = jobs[c].user
      /\ UNCHANGED <<ops, evidence, expired, audit, effects>>
  BY DEF ValidateEvidence, Held
<1>3. h \in Challenges /\ evidence[h] # None /\ evidence[h].op = o
  BY <1>1 DEF HAInv, RecordsHold, RowHolds, Row
<1>4. PICK i \in Job : i = [jobs[c] EXCEPT !.phase = "consuming", !.challenge = h]
  BY <1>1, <1>3 DEF Job, Phases
<1>5. JobHolds(i)
  BY <1>1, <1>2, <1>3, <1>4
  DEF Job, JobHolds, JobKnowsRow, JobKnowsChallenge, JobKnowsAudits
<1>6. jobs' = [jobs EXCEPT ![c] = i]
  BY <1>4 DEF ValidateEvidence, HAInv, HATypeOK
<1> QED BY <1>2, <1>4, <1>5, <1>6, OnlyItsJob DEF Job

\* A decision about evidence h of the row o: more is known of it, or the row is
\* canceled with its denial; client c goes on with the job i.
Decides(c, h, i, o) ==
  /\ evidence[h] # None /\ evidence[h].op = o /\ evidence[h].denier = None
  /\ evidence'[h] \in Evidence
  /\ evidence'[h].op = o
  /\ evidence'[h].user = evidence[h].user
  /\ evidence'[h].kind = evidence[h].kind
  /\ evidence[h].cleared => evidence'[h].cleared
  /\ evidence[h].consumed => evidence'[h].consumed
  /\ evidence'[h].consumed => evidence'[h].cleared
  /\ evidence'[h].denier # None =>
       /\ ~evidence'[h].cleared
       /\ ops'[o].state = "canceled"
       /\ ops'[o].challenge = h
  /\ evidence' = [evidence EXCEPT ![h] = evidence'[h]]
  /\ ops[o] # None /\ ops[o].state # "canceled"
  /\ ops'[o] \in Row
  /\ ops'[o].challenge = ops[o].challenge
  /\ ops'[o].creator = ops[o].creator
  /\ ops'[o].intent = ops[o].intent
  /\ ops' = [ops EXCEPT ![o] = ops'[o]]
  /\ jobs' = [jobs EXCEPT ![c] = i]
  /\ UNCHANGED <<expired, audit, effects>>

LEMMA DecisionStep ==
  ASSUME HAInv, NEW c \in Clients, NEW h \in Challenges, NEW i \in Job, NEW o \in Ops,
         Decides(c, h, i, o)
  PROVE  /\ HATypeOK' /\ RecordsHold' /\ AuditTrailIsOrdered'
         /\ JobHolds(i)' => JobsHold'
         /\ i.phase # "mutating" => SingleUse'
<1>1. HATypeOK'
  BY DEF HAInv, HATypeOK, Decides
<1>2. \A g \in Challenges \ {h} : evidence'[g] = evidence[g]
  BY DEF HAInv, HATypeOK, Decides
<1>3. \A p \in Ops \ {o} : ops'[p] = ops[p]
  BY DEF HAInv, HATypeOK, Decides
<1>4. evidence'[h] # None /\ ops'[o] # None
  BY AbsentAssumption DEF Decides
<1>5. Grown
  BY <1>2, <1>3, <1>4 DEF Grown, Decides
<1>6. RecordsHold'
  <2>1. ASSUME NEW p \in Ops PROVE RowHolds(p)'
    <3>1. (ops'[p] # None => ops[p] # None /\ ops'[p].challenge = ops[p].challenge)
      BY <1>3 DEF Decides
    <3>2. RowHolds(p) /\ (ops'[p] # None /\ ops'[p].challenge # None => ops'[p].challenge \in Challenges)
      BY <1>1 DEF HAInv, RecordsHold, HATypeOK, Row
    <3> QED BY <1>2, <1>4, <3>1, <3>2 DEF RowHolds, Decides
  <2>2. ASSUME NEW g \in Challenges PROVE EvidenceHolds(g)'
    <3>1. CASE g = h
      BY <1>4, <3>1 DEF EvidenceHolds, HAInv, RecordsHold, Decides
    <3>2. CASE g # h
      <4>1. evidence'[g] = evidence[g] /\ EvidenceHolds(g)
        BY <1>2, <3>2 DEF HAInv, RecordsHold
      <4>2. CASE evidence[g] = None
        BY <4>1, <4>2 DEF EvidenceHolds
      <4>3. CASE evidence[g] # None
        <5>1. evidence[g].op \in Ops
          BY <4>3 DEF HAInv, HATypeOK, Evidence
        <5>2. evidence[g].denier # None => evidence[g].op # o
          BY <4>1, <4>3 DEF EvidenceHolds, Decides
        <5> QED BY <1>3, <1>4, <4>1, <4>3, <5>1, <5>2 DEF EvidenceHolds, Decides
      <4> QED BY <4>2, <4>3
    <3> QED BY <3>1, <3>2
  <2> QED BY <2>1, <2>2 DEF RecordsHold
<1>7. AuditTrailIsOrdered'
  BY <1>2, <1>4 DEF HAInv, AuditTrailIsOrdered, Decides
<1>8. JobHolds(i)' => JobsHold'
  BY <1>5, JobsStillHold DEF HAInv, Decides
<1>9. i.phase # "mutating" => SingleUse'
  <2>1. i.phase # "mutating" =>
          \A d \in Clients : In(d, "mutating")' => In(d, "mutating") /\ jobs'[d] = jobs[d]
    BY DEF HAInv, HATypeOK, In, Decides
  <2>2. \A g \in Challenges : evidence[g] # None /\ evidence[g].consumed =>
          evidence'[g] # None /\ evidence'[g].consumed
    BY <1>2, <1>4 DEF Decides
  <2> QED BY <2>1, <2>2 DEF HAInv, SingleUse, In, Decides
<1> QED BY <1>1, <1>6, <1>7, <1>8, <1>9

\* The row a call in the middle of a decision is about.
LEMMA DecidingJob ==
  ASSUME HAInv, NEW c \in Clients, jobs[c].phase \in {"clearing", "denying", "consuming"},
         ops[jobs[c].op].state # "canceled"
  PROVE  /\ jobs[c] \in Job /\ JobHolds(jobs[c])
         /\ jobs[c].challenge \in Challenges /\ jobs[c].op \in Ops /\ jobs[c].user \in Users
         /\ jobs[c].todo = {}
         /\ ops[jobs[c].op] \in Row /\ ops[jobs[c].op] # None
         /\ evidence[jobs[c].challenge] \in Evidence
         /\ evidence[jobs[c].challenge] # None
         /\ evidence[jobs[c].challenge].op = jobs[c].op
         /\ evidence[jobs[c].challenge].denier = None
         /\ evidence[jobs[c].challenge].consumed => evidence[jobs[c].challenge].cleared
<1>1. jobs[c] \in Job /\ JobHolds(jobs[c])
  BY DEF HAInv, HATypeOK, JobsHold
<1>2. /\ jobs[c].challenge \in Challenges /\ jobs[c].op \in Ops /\ jobs[c].user \in Users
      /\ jobs[c].todo = {} /\ ops[jobs[c].op] # None
      /\ evidence[jobs[c].challenge] # None
      /\ evidence[jobs[c].challenge].op = jobs[c].op
  BY <1>1 DEF JobHolds, JobKnowsRow, JobKnowsChallenge, JobKnowsAudits
<1>3. EvidenceHolds(jobs[c].challenge)
  BY <1>2 DEF HAInv, RecordsHold
<1> QED BY <1>1, <1>2, <1>3 DEF HAInv, HATypeOK, EvidenceHolds

LEMMA CommitClearStep ==
  ASSUME HAInv, NEW c \in Clients, CommitClear(c)
  PROVE  HAInv'
<1> DEFINE h == jobs[c].challenge
           o == jobs[c].op
<1>1. /\ jobs[c].phase = "clearing" /\ ops[o].state # "canceled"
      /\ evidence' = [evidence EXCEPT ![h].cleared = TRUE]
      /\ UNCHANGED <<ops, expired, audit, effects>>
  BY DEF CommitClear, In, ClearCas, Waiting
<1>2. /\ jobs[c] \in Job /\ JobHolds(jobs[c])
      /\ h \in Challenges /\ o \in Ops /\ ops[o] \in Row /\ ops[o] # None
      /\ evidence[h] \in Evidence /\ evidence[h] # None
      /\ evidence[h].op = o /\ evidence[h].denier = None /\ jobs[c].user \in Users
  BY <1>1, DecidingJob
<1>3. PICK i \in Job : i = [jobs[c] EXCEPT !.phase = "auditing", !.todo = {"request", "clear"}]
  BY <1>2 DEF Job, Phases, AuditKinds
<1>4. jobs' = [jobs EXCEPT ![c] = i]
  BY <1>3 DEF CommitClear, HAInv, HATypeOK
<1>5. /\ evidence'[h] \in Evidence
      /\ evidence'[h].op = o /\ evidence'[h].user = evidence[h].user
      /\ evidence'[h].kind = evidence[h].kind /\ evidence'[h].cleared
      /\ evidence'[h].consumed = evidence[h].consumed
      /\ evidence'[h].denier = None
      /\ evidence' = [evidence EXCEPT ![h] = evidence'[h]]
  BY <1>1, <1>2 DEF HAInv, HATypeOK, Evidence
<1>6. ops'[o] = ops[o] /\ ops' = [ops EXCEPT ![o] = ops'[o]]
  BY <1>1, <1>2 DEF HAInv, HATypeOK
<1>7. JobHolds(i)'
  <2>1. /\ i.op = o /\ i.user = jobs[c].user /\ i.challenge = h
        /\ i.phase = "auditing" /\ i.todo = {"request", "clear"}
    BY <1>2, <1>3 DEF Job
  <2>2. ops'[o] # None /\ evidence'[h] # None
    BY <1>2, <1>5, <1>6, AbsentAssumption
  <2>3. JobKnowsRow(i)'
    BY <1>2, <2>1, <2>2 DEF JobKnowsRow
  <2>4. JobKnowsChallenge(i)'
    BY <1>2, <1>5, <2>1, <2>2 DEF JobKnowsChallenge
  <2>5. JobKnowsAudits(i)'
    BY <1>5, <2>1 DEF JobKnowsAudits
  <2> QED BY <2>3, <2>4, <2>5 DEF JobHolds
<1>8. HATypeOK' /\ RecordsHold' /\ AuditTrailIsOrdered' /\ JobsHold' /\ SingleUse'
  <2>1. i.phase # "mutating"
    BY <1>2, <1>3 DEF Job
  <2>2. Decides(c, h, i, o)
    BY <1>1, <1>2, <1>4, <1>5, <1>6 DEF Decides
  <2> QED BY <1>2, <1>3, <1>7, <2>1, <2>2, DecisionStep
<1> QED BY <1>8 DEF HAInv

LEMMA CommitDenyStep ==
  ASSUME HAInv, NEW c \in Clients, CommitDeny(c)
  PROVE  HAInv'
<1> DEFINE h == jobs[c].challenge
           o == jobs[c].op
<1>1. /\ jobs[c].phase = "denying" /\ ops[o].state # "canceled"
      /\ ops[o].challenge = h /\ ~evidence[h].cleared /\ ~evidence[h].consumed
      /\ ops' = [ops EXCEPT ![o].state = "canceled"]
      /\ evidence' = [evidence EXCEPT ![h].denier = jobs[c].user]
      /\ UNCHANGED <<expired, audit, effects>>
  BY DEF CommitDeny, In, DenyCas, Cancelable
<1>2. /\ jobs[c] \in Job /\ JobHolds(jobs[c])
      /\ h \in Challenges /\ o \in Ops /\ jobs[c].user \in Users
      /\ ops[o] \in Row /\ ops[o] # None
      /\ evidence[h] \in Evidence /\ evidence[h] # None
      /\ evidence[h].op = o /\ evidence[h].denier = None
  BY <1>1, DecidingJob
<1>3. PICK i \in Job : i = [jobs[c] EXCEPT !.phase = "auditing", !.todo = {"request", "deny"}]
  BY <1>2 DEF Job, Phases, AuditKinds
<1>4. jobs' = [jobs EXCEPT ![c] = i]
  BY <1>3 DEF CommitDeny, HAInv, HATypeOK
<1>5. /\ evidence'[h] \in Evidence
      /\ evidence'[h].op = o /\ evidence'[h].user = evidence[h].user
      /\ evidence'[h].kind = evidence[h].kind
      /\ ~evidence'[h].cleared /\ ~evidence'[h].consumed
      /\ evidence'[h].denier # None
      /\ evidence' = [evidence EXCEPT ![h] = evidence'[h]]
  BY <1>1, <1>2, ChallengeAssumption DEF HAInv, HATypeOK, Evidence
<1>6. /\ ops'[o] \in Row /\ ops'[o].state = "canceled" /\ ops'[o].challenge = ops[o].challenge
      /\ ops'[o].creator = ops[o].creator /\ ops'[o].intent = ops[o].intent
      /\ ops' = [ops EXCEPT ![o] = ops'[o]]
  BY <1>1, <1>2 DEF HAInv, HATypeOK, Row, GateStates
<1>7. JobHolds(i)'
  BY <1>1, <1>2, <1>3, <1>5, <1>6, AbsentAssumption
  DEF Job, JobHolds, JobKnowsRow, JobKnowsChallenge, JobKnowsAudits
<1>8. HATypeOK' /\ RecordsHold' /\ AuditTrailIsOrdered' /\ JobsHold' /\ SingleUse'
  <2>1. i.phase # "mutating"
    BY <1>2, <1>3 DEF Job
  <2>2. Decides(c, h, i, o)
    BY <1>1, <1>2, <1>4, <1>5, <1>6 DEF Decides
  <2> QED BY <1>2, <1>3, <1>7, <2>1, <2>2, DecisionStep
<1> QED BY <1>8 DEF HAInv

LEMMA CommitConsumeStep ==
  ASSUME HAInv, NEW c \in Clients, CommitConsume(c)
  PROVE  HAInv'
<1> DEFINE h == jobs[c].challenge
           o == jobs[c].op
<1>1. /\ jobs[c].phase = "consuming" /\ ops[o].state # "canceled"
      /\ evidence[h].cleared /\ ~evidence[h].consumed
      /\ ops' = [ops EXCEPT ![o] = [ops[o] EXCEPT !.state = "running"]]
      /\ evidence' = [evidence EXCEPT ![h].consumed = TRUE]
      /\ UNCHANGED <<expired, audit, effects>>
  BY DEF CommitConsume, In, ConsumeCas, Waiting, Resumed
<1>2. /\ jobs[c] \in Job /\ JobHolds(jobs[c])
      /\ h \in Challenges /\ o \in Ops /\ jobs[c].user \in Users
      /\ ops[o] \in Row /\ ops[o] # None
      /\ evidence[h] \in Evidence /\ evidence[h] # None
      /\ evidence[h].op = o /\ evidence[h].denier = None
  BY <1>1, DecidingJob
<1>3. PICK i \in Job : i = [jobs[c] EXCEPT !.phase = "mutating",
                                           !.todo = {"request", "clear", "consume"}]
  BY <1>2 DEF Job, Phases, AuditKinds
<1>4. jobs' = [jobs EXCEPT ![c] = i]
  BY <1>3 DEF CommitConsume, HAInv, HATypeOK
<1>5. /\ evidence'[h] \in Evidence
      /\ evidence'[h].op = o /\ evidence'[h].user = evidence[h].user
      /\ evidence'[h].kind = evidence[h].kind
      /\ evidence'[h].cleared /\ evidence'[h].consumed
      /\ evidence'[h].denier = None
      /\ evidence' = [evidence EXCEPT ![h] = evidence'[h]]
  BY <1>1, <1>2 DEF HAInv, HATypeOK, Evidence
<1>6. /\ ops'[o] \in Row /\ ops'[o].challenge = ops[o].challenge
      /\ ops'[o].creator = ops[o].creator /\ ops'[o].intent = ops[o].intent
      /\ ops' = [ops EXCEPT ![o] = ops'[o]]
  BY <1>1, <1>2 DEF HAInv, HATypeOK, Row, GateStates
<1>7. JobHolds(i)'
  <2>1. /\ i.op = o /\ i.user = jobs[c].user /\ i.challenge = h /\ i.kind = jobs[c].kind
        /\ i.phase = "mutating" /\ i.todo = {"request", "clear", "consume"}
    BY <1>2, <1>3 DEF Job
  <2>2. JobKnowsRow(i)'
    BY <1>1, <1>2, <1>6, <2>1, AbsentAssumption DEF JobHolds, JobKnowsRow
  <2>3. JobKnowsChallenge(i)'
    <3>1. jobs[c].user = evidence[h].user
      BY <1>1, <1>2 DEF JobHolds, JobKnowsChallenge
    <3>2. evidence'[h] # None
      BY <1>5, AbsentAssumption
    <3> QED BY <1>2, <1>5, <2>1, <3>1, <3>2 DEF JobKnowsChallenge
  <2>4. JobKnowsAudits(i)'
    BY <1>5, <2>1 DEF JobKnowsAudits
  <2> QED BY <2>2, <2>3, <2>4 DEF JobHolds
<1>8. HATypeOK' /\ RecordsHold' /\ AuditTrailIsOrdered' /\ JobsHold'
  <2>1. Decides(c, h, i, o)
    BY <1>1, <1>2, <1>4, <1>5, <1>6 DEF Decides
  <2> QED BY <1>2, <1>3, <1>7, <2>1, DecisionStep
<1>9. SingleUse'
  <2>1. effects[h] = 0
    BY <1>1, <1>2 DEF HAInv, HATypeOK, SingleUse
  <2>2. \A d \in Clients : In(d, "mutating")' =>
          \/ d = c /\ jobs'[d].challenge = h
          \/ d # c /\ In(d, "mutating") /\ jobs'[d] = jobs[d]
    BY <1>2, <1>3, <1>4 DEF HAInv, HATypeOK, In, Job
  <2>3. \A d \in Clients : In(d, "mutating") => jobs[d].challenge # h
    BY <1>1 DEF HAInv, JobsHold, JobHolds, JobKnowsChallenge, In
  <2>4. \A g \in Challenges : g # h => evidence'[g] = evidence[g]
    BY <1>1 DEF HAInv, HATypeOK
  <2>5. \A g \in Challenges : effects[g] > 0 =>
          effects[g] = 1 /\ evidence'[g] # None /\ evidence'[g].consumed
    BY <1>5, <2>4, AbsentAssumption DEF HAInv, SingleUse
  <2>6. ASSUME NEW d \in Clients, In(d, "mutating")'
        PROVE  /\ effects[jobs'[d].challenge] = 0
               /\ \A e \in Clients \ {d} :
                    In(e, "mutating")' => jobs'[e].challenge # jobs'[d].challenge
    BY <2>1, <2>2, <2>3, <2>6 DEF HAInv, SingleUse
  <2> QED BY <1>1, <2>5, <2>6 DEF SingleUse, In
<1> QED BY <1>8, <1>9 DEF HAInv

\* Idle is a job that holds, whatever happened.
LEMMA IdleHolds == Idle \in Job /\ JobHolds(Idle) /\ JobHolds(Idle)'
  BY DEF Idle, Job, Phases, AuditKinds, JobHolds, JobKnowsRow, JobKnowsChallenge, JobKnowsAudits

LEMMA MutateStep ==
  ASSUME HAInv, NEW c \in Clients, Mutate(c)
  PROVE  HAInv'
<1> DEFINE h == jobs[c].challenge
<1>1. /\ jobs[c].phase = "mutating" /\ jobs[c].todo = {}
      /\ effects' = [effects EXCEPT ![h] = effects[h] + 1]
      /\ jobs' = [jobs EXCEPT ![c] = Idle]
      /\ UNCHANGED <<ops, evidence, expired, audit>>
  BY DEF Mutate, In
<1>2. /\ JobHolds(jobs[c]) /\ h \in Challenges /\ evidence[h] # None
      /\ evidence[h].consumed /\ "consume" \in audit[h]
  BY <1>1 DEF HAInv, JobsHold, JobHolds, JobKnowsChallenge, JobKnowsAudits
<1>3. effects[h] = 0 /\ effects'[h] = 1 /\ \A g \in Challenges \ {h} : effects'[g] = effects[g]
  BY <1>1, <1>2 DEF HAInv, HATypeOK, SingleUse, In
<1>4. HATypeOK'
  BY <1>1, <1>3, IdleHolds DEF HAInv, HATypeOK
<1>5. RecordsHold'
  BY <1>1 DEF HAInv, RecordsHold, RowHolds, EvidenceHolds
<1>6. JobsHold'
  <2>1. Grown
    BY <1>1 DEF Grown
  <2> QED BY <1>1, <2>1, IdleHolds, JobsStillHold DEF HAInv
<1>7. SingleUse'
  <2>1. \A d \in Clients : In(d, "mutating")' =>
          d # c /\ In(d, "mutating") /\ jobs'[d] = jobs[d]
    BY <1>1 DEF HAInv, HATypeOK, In, Idle
  <2>2. \A d \in Clients \ {c} : In(d, "mutating") => jobs[d].challenge # h
    BY <1>1 DEF HAInv, SingleUse, In
  <2>3. \A d \in Clients : In(d, "mutating") => jobs[d].challenge \in Challenges
    BY DEF HAInv, JobsHold, JobHolds, JobKnowsChallenge, In
  <2>4. ASSUME NEW d \in Clients, In(d, "mutating")'
        PROVE  /\ effects'[jobs'[d].challenge] = 0
               /\ \A e \in Clients \ {d} :
                    In(e, "mutating")' => jobs'[e].challenge # jobs'[d].challenge
    BY <1>3, <2>1, <2>2, <2>3, <2>4 DEF HAInv, SingleUse
  <2>5. \A g \in Challenges : effects'[g] > 0 =>
          effects'[g] = 1 /\ evidence[g] # None /\ evidence[g].consumed
    BY <1>2, <1>3 DEF HAInv, SingleUse
  <2> QED BY <1>1, <2>4, <2>5 DEF SingleUse, In
<1>8. AuditTrailIsOrdered'
  BY <1>1, <1>2, <1>3 DEF HAInv, AuditTrailIsOrdered
<1> QED BY <1>4, <1>5, <1>6, <1>7, <1>8 DEF HAInv

LEMMA WriteAuditStep ==
  ASSUME HAInv, NEW c \in Clients, NEW a \in AuditKinds, WriteAudit(c, a)
  PROVE  HAInv'
<1> DEFINE j    == jobs[c]
           h    == j.challenge
           rest == j.todo \ {a}
<1>1. /\ a \in j.todo
      /\ a # "request" => "request" \notin j.todo
      /\ a \in {"deny", "consume"} => "clear" \notin j.todo
      /\ audit' = [audit EXCEPT ![h] = audit[h] \cup {a}]
      /\ UNCHANGED <<ops, evidence, expired, effects>>
  BY DEF WriteAudit, IsNext
<1>2. /\ j \in Job /\ JobHolds(j) /\ j.phase \in {"auditing", "mutating"}
      /\ h \in Challenges /\ evidence[h] # None
  BY <1>1 DEF HAInv, HATypeOK, JobsHold, JobHolds, JobKnowsChallenge, JobKnowsAudits
<1>3. PICK i \in Job : /\ jobs' = [jobs EXCEPT ![c] = i]
                       /\ i = IF In(c, "auditing") /\ rest = {} THEN Idle
                              ELSE [j EXCEPT !.todo = rest]
  <2>1. [j EXCEPT !.todo = rest] \in Job
    BY <1>2 DEF Job
  <2> QED BY <1>2, <2>1, IdleHolds DEF WriteAudit, HAInv, HATypeOK
<1>4. audit'[h] = audit[h] \cup {a} /\ \A g \in Challenges \ {h} : audit'[g] = audit[g]
  BY <1>1, <1>2 DEF HAInv, HATypeOK
<1>5. HATypeOK'
  BY <1>1, <1>2, <1>3 DEF HAInv, HATypeOK
<1>6. Grown
  BY <1>1, <1>4 DEF Grown
<1>7. RecordsHold'
  BY <1>1 DEF HAInv, RecordsHold, RowHolds, EvidenceHolds
<1>8. JobsHold'
  <2>1. CASE i = Idle
    BY <1>3, <1>6, <2>1, IdleHolds, JobsStillHold DEF HAInv
  <2>2. CASE i = [j EXCEPT !.todo = rest]
    <3>1. /\ i.op = j.op /\ i.user = j.user /\ i.challenge = h /\ i.kind = j.kind
          /\ i.phase = j.phase /\ i.todo = rest
      BY <1>2, <2>2 DEF Job
    <3>2. JobKnowsRow(i)' /\ JobKnowsChallenge(i)'
      BY <1>1, <1>2, <3>1 DEF JobHolds, JobKnowsRow, JobKnowsChallenge
    <3>3. JobKnowsAudits(i)'
      BY <1>1, <1>2, <1>4, <3>1 DEF JobHolds, JobKnowsAudits
    <3>4. JobHolds(i)'
      BY <3>2, <3>3 DEF JobHolds
    <3> QED BY <1>3, <1>6, <3>4, JobsStillHold DEF HAInv
  <2> QED BY <1>3, <2>1, <2>2
<1>9. SingleUse'
  <2>1. i.phase = "mutating" => j.phase = "mutating" /\ i.challenge = h
    BY <1>2, <1>3 DEF Job, Idle
  <2>2. \A d \in Clients : In(d, "mutating")' =>
          In(d, "mutating") /\ jobs'[d].challenge = jobs[d].challenge
    BY <1>3, <2>1 DEF HAInv, HATypeOK, In
  <2> QED BY <1>1, <2>2 DEF HAInv, SingleUse, In
<1>10. AuditTrailIsOrdered'
  <2>1. ASSUME NEW g \in Challenges
        PROVE  /\ audit'[g] # {} => "request" \in audit'[g] /\ evidence[g] # None
               /\ "clear" \in audit'[g] => evidence[g].cleared
               /\ "deny" \in audit'[g] => evidence[g].denier # None /\ "clear" \notin audit'[g]
               /\ "consume" \in audit'[g] => "clear" \in audit'[g] /\ evidence[g].consumed
               /\ effects[g] > 0 => "consume" \in audit'[g]
    <3>1. CASE g # h
      BY <1>4, <3>1 DEF HAInv, AuditTrailIsOrdered
    <3>2. CASE g = h
      <4>1. EvidenceHolds(h) /\ (evidence[h].denier # None => ~evidence[h].cleared)
        BY <1>2 DEF HAInv, RecordsHold, EvidenceHolds
      <4>2. a # "request" => "request" \in audit[h]
        BY <1>1, <1>2 DEF JobHolds, JobKnowsAudits
      <4>3. a = "clear" => evidence[h].cleared
        BY <1>1, <1>2 DEF JobHolds, JobKnowsAudits
      <4>4. a = "deny" => evidence[h].denier # None
        BY <1>1, <1>2 DEF JobHolds, JobKnowsAudits
      <4>5. a = "consume" => "clear" \in audit[h] /\ evidence[h].consumed
        BY <1>1, <1>2 DEF JobHolds, JobKnowsChallenge, JobKnowsAudits
      <4> QED BY <1>2, <1>4, <3>2, <4>1, <4>2, <4>3, <4>4, <4>5 DEF HAInv, AuditTrailIsOrdered
    <3> QED BY <3>1, <3>2
  <2> QED BY <1>1, <2>1 DEF AuditTrailIsOrdered
<1> QED BY <1>5, <1>7, <1>8, <1>9, <1>10 DEF HAInv

\* A cancellation or a parking changes nothing but the state of an Operation that is
\* not canceled.
LEMMA CancelOrParkStep ==
  ASSUME HAInv, NEW o \in Ops, Cancel(o) \/ Park(o)
  PROVE  HAInv'
<1>1. PICK s \in GateStates :
      /\ ops[o] # None /\ ops[o] \in Row
      /\ ops[o].state # "canceled"
      /\ ops' = [ops EXCEPT ![o].state = s]
      /\ UNCHANGED <<evidence, expired, audit, jobs, effects>>
  BY DEF Cancel, Park, Exists, Cancelable, GateStates, HAInv, HATypeOK
<1>2. /\ ops'[o] \in Row /\ ops'[o].challenge = ops[o].challenge
      /\ ops'[o].creator = ops[o].creator /\ ops'[o].intent = ops[o].intent
      /\ \A p \in Ops \ {o} : ops'[p] = ops[p]
  BY <1>1 DEF HAInv, HATypeOK, Row, GateStates
<1>3. HATypeOK'
  BY <1>1, <1>2 DEF HAInv, HATypeOK
<1>4. Grown
  BY <1>1, <1>2, AbsentAssumption DEF Grown
<1>5. RecordsHold'
  <2>1. ASSUME NEW p \in Ops PROVE RowHolds(p)'
    BY <1>1, <1>2 DEF HAInv, RecordsHold, RowHolds
  <2>2. ASSUME NEW g \in Challenges PROVE EvidenceHolds(g)'
    <3>1. EvidenceHolds(g) /\ evidence'[g] = evidence[g]
      BY <1>1 DEF HAInv, RecordsHold
    <3>2. evidence[g] # None => evidence[g].op \in Ops
      BY DEF HAInv, HATypeOK, Evidence
    <3>3. CASE evidence[g] = None
      BY <3>1, <3>3 DEF EvidenceHolds
    <3>4. CASE evidence[g] # None
      <4>1. evidence[g].denier # None => evidence[g].op # o
        BY <1>1, <3>1, <3>4 DEF EvidenceHolds
      <4>2. ops'[evidence[g].op] # None
            /\ ops'[evidence[g].op].creator = ops[evidence[g].op].creator
            /\ ops'[evidence[g].op].intent = ops[evidence[g].op].intent
        BY <1>2, <3>1, <3>2, <3>4, AbsentAssumption DEF EvidenceHolds
      <4>3. evidence[g].denier # None => ops'[evidence[g].op] = ops[evidence[g].op]
        BY <1>2, <3>2, <3>4, <4>1
      <4> QED BY <3>1, <3>4, <4>2, <4>3 DEF EvidenceHolds
    <3> QED BY <3>3, <3>4
  <2> QED BY <2>1, <2>2 DEF RecordsHold
<1> QED BY <1>1, <1>3, <1>4, <1>5, OnlyRows

LEMMA ExpireStep ==
  ASSUME HAInv, NEW h \in Challenges, Expire(h)
  PROVE  HAInv'
<1>1. expired' = expired \cup {h} /\ UNCHANGED <<ops, evidence, audit, jobs, effects>>
  BY DEF Expire
<1>2. HATypeOK' /\ Grown
  BY <1>1 DEF HAInv, HATypeOK, Grown
<1>3. RecordsHold'
  BY <1>1 DEF HAInv, RecordsHold, RowHolds, EvidenceHolds
<1> QED BY <1>1, <1>2, <1>3, OnlyRows

LEMMA AbandonStep ==
  ASSUME HAInv, NEW c \in Clients, Abandon(c)
  PROVE  HAInv'
<1>1. Idle.phase # "mutating"
  BY DEF Idle
<1> QED BY <1>1, IdleHolds, OnlyItsJob DEF Abandon

-----------------------------------------------------------------------------
(* The theorems.                                                           *)

LEMMA HAInvInit == Init => HAInv
<1> SUFFICES ASSUME Init PROVE HAInv
  OBVIOUS
<1>1. HATypeOK
  BY IdleHolds DEF Init, HATypeOK
<1>2. RecordsHold
  BY DEF Init, RecordsHold, RowHolds, EvidenceHolds
<1>3. JobsHold
  <2> SUFFICES ASSUME NEW c \in Clients PROVE JobHolds(jobs[c])
    BY DEF JobsHold
  <2>1. jobs[c] = Idle
    BY DEF Init
  <2> QED BY <2>1, IdleHolds
<1>4. SingleUse /\ AuditTrailIsOrdered
  BY DEF Init, SingleUse, In, Idle, AuditTrailIsOrdered
<1> QED BY <1>1, <1>2, <1>3, <1>4 DEF HAInv

LEMMA HAInvNext == HAInv /\ [Next]_vars => HAInv'
<1> SUFFICES ASSUME HAInv, [Next]_vars PROVE HAInv'
  OBVIOUS
<1>1. CASE UNCHANGED vars
  BY <1>1 DEF vars, HAInv, HATypeOK, RecordsHold, RowHolds, EvidenceHolds, JobsHold, JobHolds,
              JobKnowsRow, JobKnowsChallenge, JobKnowsAudits, SingleUse, In, AuditTrailIsOrdered
<1>2. ASSUME NEW c \in Clients, Commit(c) \/ Abandon(c) PROVE HAInv'
  BY <1>2, ReadForRequestStep, RaiseChallengeStep, CommitClearStep, CommitDenyStep,
     ValidateEvidenceStep, CommitConsumeStep, WriteAuditStep, MutateStep, AbandonStep DEF Commit
<1>3. ASSUME NEW c \in Clients, NEW o \in Ops,
             \/ RetryRequest(c, o)
             \/ \E u \in Users : BeginClear(c, o, u) \/ BeginDeny(c, o, u)
             \/ \E u \in Users, k \in Kinds :
                  CreateOperation(c, o, u, k) \/ BeginResume(c, o, u, k)
      PROVE HAInv'
  BY <1>3, RetryRequestStep, BeginClearStep, BeginDenyStep, CreateOperationStep, BeginResumeStep
<1> QED BY <1>1, <1>2, <1>3, CancelOrParkStep, ExpireStep DEF Next

LEMMA HAInvHolds == Spec => []HAInv
  BY HAInvInit, HAInvNext, PTL DEF Spec

\* HATypeOK: the rows, the evidence, the log and the calls always have their types.
THEOREM HATypeCorrect == Spec => []HATypeOK
<1>1. HAInv => HATypeOK
  BY DEF HAInv
<1> QED BY <1>1, HAInvHolds, PTL

\* MutationIsAuthorized: a mutation that a gate let pass rests on consumed, undenied
\* evidence of its own kind and user, and no second one rests on the same challenge.
THEOREM MutationsAreAuthorized == Spec => []MutationIsAuthorized
<1>1. HAInv => MutationIsAuthorized
  <2> SUFFICES ASSUME HAInv PROVE MutationIsAuthorized
    OBVIOUS
  <2>1. ASSUME NEW c \in Clients, In(c, "mutating") PROVE Authorized(c)
    <3> DEFINE h == jobs[c].challenge
    <3>1. JobHolds(jobs[c]) /\ h \in Challenges /\ evidence[h] # None
          /\ evidence[h].consumed /\ jobs[c].user = evidence[h].user
          /\ evidence[h].op = jobs[c].op /\ jobs[c].kind = ops[jobs[c].op].intent
      BY <2>1 DEF HAInv, JobsHold, JobHolds, JobKnowsRow, JobKnowsChallenge, In
    <3>2. EvidenceHolds(h)
      BY <3>1 DEF HAInv, RecordsHold
    <3> QED BY <3>1, <3>2 DEF EvidenceHolds, Authorized
  <2>2. ASSUME NEW h \in Challenges, effects[h] > 0
        PROVE  effects[h] = 1 /\ evidence[h] # None /\ evidence[h].consumed
               /\ evidence[h].denier = None
    <3>1. effects[h] = 1 /\ evidence[h] # None /\ evidence[h].consumed
      BY <2>2 DEF HAInv, SingleUse
    <3>2. EvidenceHolds(h)
      BY DEF HAInv, RecordsHold
    <3> QED BY <3>1, <3>2 DEF EvidenceHolds
  <2> QED BY <2>1, <2>2 DEF HAInv, SingleUse, MutationIsAuthorized
<1> QED BY <1>1, HAInvHolds, PTL

\* AuditTrailIsOrdered: the log holds a challenge's events in their order, and none
\* that did not happen, whoever writes them and however often.
THEOREM AuditTrailsAreOrdered == Spec => []AuditTrailIsOrdered
<1>1. HAInv => AuditTrailIsOrdered
  BY DEF HAInv
<1> QED BY <1>1, HAInvHolds, PTL

\* DenialIsFinal: no step of any call changes denied evidence, or the row of the
\* Operation it was denied in.
THEOREM DenialsAreFinal == Spec => DenialIsFinal
<1> DEFINE Final(h) == evidence[h] # None /\ evidence[h].denier # None =>
                         /\ evidence'[h] = evidence[h]
                         /\ ops'[evidence[h].op] = ops[evidence[h].op]
                         /\ ops[evidence[h].op].state = "canceled"
<1>1. ASSUME HAInv, [Next]_vars, NEW h \in Challenges PROVE Final(h)
  <2> SUFFICES ASSUME evidence[h] # None, evidence[h].denier # None PROVE Final(h)
    OBVIOUS
  <2> DEFINE p == evidence[h].op
  <2>1. /\ p \in Ops /\ ops[p] # None
        /\ ops[p].state = "canceled" /\ ops[p].challenge = h
    BY <1>1 DEF HAInv, HATypeOK, RecordsHold, EvidenceHolds, Evidence
  <2>2. \A c \in Clients : jobs[c].phase \in {"clearing", "denying", "consuming"} =>
          /\ jobs[c].op \in Ops /\ jobs[c].challenge \in Challenges
          /\ evidence[jobs[c].challenge].op = jobs[c].op
    BY <1>1 DEF HAInv, JobsHold, JobHolds, JobKnowsRow, JobKnowsChallenge
  <2>3. ASSUME NEW c \in Clients, CommitClear(c) \/ CommitDeny(c) \/ CommitConsume(c)
        PROVE  Final(h)
    <3>1. /\ jobs[c].phase \in {"clearing", "denying", "consuming"}
          /\ ops[jobs[c].op].state # "canceled"
      BY <2>3 DEF CommitClear, CommitDeny, CommitConsume, In, ClearCas, DenyCas, ConsumeCas,
                  Waiting, Cancelable
    <3>2. jobs[c].op # p /\ jobs[c].challenge # h
      BY <2>1, <2>2, <3>1
    <3> QED BY <1>1, <2>1, <2>3, <3>2
            DEF CommitClear, CommitDeny, CommitConsume, HAInv, HATypeOK
  <2>4. ASSUME NEW c \in Clients, NEW g \in Challenges, RaiseChallenge(c, g) PROVE Final(h)
    <3>1. jobs[c].op # p /\ g # h
      BY <2>1, <2>4 DEF RaiseChallenge, Terminal
    <3> QED BY <1>1, <2>1, <2>4, <3>1 DEF RaiseChallenge, HAInv, HATypeOK
  <2>5. ASSUME NEW c \in Clients, NEW o \in Ops, NEW u \in Users, NEW k \in Kinds,
               CreateOperation(c, o, u, k)
        PROVE  Final(h)
    BY <1>1, <2>1, <2>5 DEF CreateOperation, Exists, HAInv, HATypeOK
  <2>6. ASSUME NEW o \in Ops, Cancel(o) \/ Park(o) PROVE Final(h)
    BY <1>1, <2>1, <2>6 DEF Cancel, Park, Cancelable, HAInv, HATypeOK
  <2>7. UNCHANGED <<ops, evidence>> => Final(h)
    BY <2>1
  <2>8. ASSUME NEW c \in Clients, Commit(c) \/ Abandon(c) PROVE Final(h)
    BY <2>3, <2>4, <2>7, <2>8
    DEF Commit, ReadForRequest, ValidateEvidence, WriteAudit, Mutate, Abandon
  <2>9. ASSUME NEW c \in Clients, NEW o \in Ops,
               \/ RetryRequest(c, o)
               \/ \E u \in Users : BeginClear(c, o, u) \/ BeginDeny(c, o, u)
               \/ \E u \in Users, k \in Kinds :
                    CreateOperation(c, o, u, k) \/ BeginResume(c, o, u, k)
        PROVE  Final(h)
    BY <2>5, <2>7, <2>9 DEF RetryRequest, BeginClear, BeginDeny, BeginResume
  <2> QED BY <1>1, <2>6, <2>7, <2>8, <2>9 DEF Next, Expire, vars
<1>2. HAInv /\ [Next]_vars => [\A h \in Challenges : Final(h)]_vars
  BY <1>1
<1> QED BY <1>2, HAInvHolds, PTL DEF Spec, DenialIsFinal

-----------------------------------------------------------------------------
(* HighAssurance implements ChallengeLifecycle.                            *)

\* The state and the challenge of an Operation, to the contract.
StateOf(o) == IF Exists(o) THEN ops[o].state ELSE "absent"
HeldBy(o)  == IF Exists(o) THEN ops[o].challenge ELSE None

\* What the contract sees.
ContractVars ==
  <<[o \in Ops |-> StateOf(o)], [o \in Ops |-> HeldBy(o)], [h \in Challenges |-> Standing(h)]>>

\* The evidence in a row that is not canceled was not denied.
LEMMA HeldEvidence ==
  ASSUME HAInv, NEW o \in Ops, Exists(o), ops[o].challenge # None, ops[o].state # "canceled"
  PROVE  /\ ops[o].challenge \in Challenges
         /\ evidence[ops[o].challenge] \in Evidence
         /\ evidence[ops[o].challenge] # None
         /\ evidence[ops[o].challenge].denier = None
         /\ evidence[ops[o].challenge].consumed => evidence[ops[o].challenge].cleared
<1>1. ops[o] \in Row /\ ops[o].challenge \in Challenges
  BY DEF Exists, HAInv, HATypeOK, Row
<1>2. evidence[ops[o].challenge] # None /\ evidence[ops[o].challenge].op = o
  BY DEF Exists, HAInv, RecordsHold, RowHolds
<1>3. evidence[ops[o].challenge] \in Evidence
  BY <1>1, <1>2 DEF HAInv, HATypeOK
<1>4. EvidenceHolds(ops[o].challenge)
  BY <1>1 DEF HAInv, RecordsHold
<1> QED BY <1>1, <1>2, <1>3, <1>4 DEF EvidenceHolds

\* A decision names a challenge and an Operation that exists.
LEMMA DecisionNames ==
  ASSUME HAInv, NEW c \in Clients, jobs[c].phase \in {"clearing", "denying", "consuming"}
  PROVE  /\ jobs[c].op \in Ops /\ Exists(jobs[c].op) /\ jobs[c].user \in Users
         /\ jobs[c].challenge \in Challenges /\ jobs[c].challenge # None
<1>1. JobHolds(jobs[c])
  BY DEF HAInv, JobsHold
<1> QED BY <1>1, ChallengeAssumption DEF JobHolds, JobKnowsRow, JobKnowsChallenge, Exists

\* A new challenge is raised for an Operation that may wait for it.
LEMMA RaiseOnContract ==
  ASSUME HAInv, NEW c \in Clients, NEW h \in Challenges, RaiseChallenge(c, h)
  PROVE  \E o \in Ops : Evidences!Raise(o, h)
<1>1. PICK o \in Ops : o = jobs[c].op
  BY DEF HAInv, JobsHold, JobHolds, JobKnowsRow, RaiseChallenge, In
<1>2. ops[o] # None /\ ops[o] \in Row /\ jobs[c].user \in Users
  BY <1>1 DEF HAInv, HATypeOK, JobsHold, JobHolds, JobKnowsRow, RaiseChallenge, In
<1>3. /\ evidence[h] = None
      /\ ops[o].state \notin Terminal /\ IsTransitionAllowed(ops[o].state, "waiting_for_human")
      /\ ops' = [ops EXCEPT ![o].state = "waiting_for_human", ![o].challenge = h]
      /\ evidence' = [evidence EXCEPT ![h] =
                        [op |-> o, user |-> jobs[c].user, kind |-> jobs[c].kind,
                         cleared |-> FALSE, consumed |-> FALSE, denier |-> None]]
  BY <1>1 DEF RaiseChallenge
<1>4. /\ ops'[o] # None /\ ops'[o].state = "waiting_for_human" /\ ops'[o].challenge = h
      /\ \A p \in Ops \ {o} : ops'[p] = ops[p]
  <2>1. ops'[o] \in Row /\ ops'[o].state = "waiting_for_human" /\ ops'[o].challenge = h
    BY <1>2, <1>3 DEF HAInv, HATypeOK, Row, GateStates
  <2> QED BY <1>3, <2>1, AbsentAssumption DEF HAInv, HATypeOK
<1>5. /\ Standing(h) = "open" /\ Standing(h)' = "open"
      /\ \A g \in Challenges \ {h} : Standing(g)' = Standing(g)
  <2>1. \A g \in Challenges \ {h} : evidence'[g] = evidence[g]
    BY <1>3 DEF HAInv, HATypeOK
  <2>2. /\ evidence'[h].cleared = FALSE /\ evidence'[h].consumed = FALSE
        /\ evidence'[h].denier = None
    BY <1>3 DEF HAInv, HATypeOK
  <2> QED BY <1>3, <2>1, <2>2 DEF Standing
<1>6. \A p \in Ops : HeldBy(p) # h
  BY <1>3, ChallengeAssumption DEF HeldBy, Exists, HAInv, RecordsHold, RowHolds
<1> DEFINE seen == [p \in Ops |-> StateOf(p)]
           held == [p \in Ops |-> HeldBy(p)]
           standing == [g \in Challenges |-> Standing(g)]
<1>7. /\ seen' = [seen EXCEPT ![o] = "waiting_for_human"] /\ seen[o] = ops[o].state
      /\ held' = [held EXCEPT ![o] = h]
  BY <1>2, <1>4 DEF StateOf, HeldBy, Exists
<1>8. standing' = standing
  BY <1>5
<1>9. ops[o].state \in States \ Terminal
  BY <1>2, <1>3 DEF Row, GateStates, States
<1> QED BY <1>3, <1>5, <1>6, <1>7, <1>8, <1>9
        DEF Evidences!Raise, Evidences!States, Evidences!Terminal, Evidences!IsTransitionAllowed,
            Evidences!Allowed, States, Terminal, IsTransitionAllowed, Allowed, StateOf, HeldBy

\* A decision that commits settles the challenge its Operation holds.
LEMMA DecisionOnContract ==
  ASSUME HAInv, NEW c \in Clients, CommitClear(c) \/ CommitDeny(c) \/ CommitConsume(c)
  PROVE  Evidences!Next
<1>1. PICK o \in Ops, h \in Challenges :
        o = jobs[c].op /\ h = jobs[c].challenge /\ Exists(o) /\ jobs[c].user \in Users /\ h # None
  BY DecisionNames DEF CommitClear, CommitDeny, CommitConsume, In
<1>2. ops[o] \in Row /\ ops[o].challenge = h /\ ops[o].state # "canceled"
  BY <1>1 DEF CommitClear, CommitDeny, CommitConsume, ClearCas, DenyCas, ConsumeCas, Waiting,
              Cancelable, Exists, HAInv, HATypeOK
<1>3. /\ evidence[h] \in Evidence /\ evidence[h] # None /\ evidence[h].denier = None
      /\ evidence[h].consumed => evidence[h].cleared
  BY <1>1, <1>2, HeldEvidence
<1> DEFINE seen == [p \in Ops |-> StateOf(p)]
           held == [p \in Ops |-> HeldBy(p)]
           standing == [g \in Challenges |-> Standing(g)]
<1>4. seen[o] = ops[o].state /\ held[o] = h /\ standing[h] = Standing(h)
  BY <1>1, <1>2 DEF StateOf, HeldBy
<1>5. ASSUME NEW new \in Evidence, evidence' = [evidence EXCEPT ![h] = new]
      PROVE  /\ Standing(h)' = IF new.consumed THEN "consumed"
                               ELSE IF new.denier # None THEN "denied"
                               ELSE IF new.cleared THEN "cleared" ELSE "open"
             /\ standing' = [standing EXCEPT ![h] = Standing(h)']
  <2>1. evidence'[h] = new /\ \A g \in Challenges \ {h} : evidence'[g] = evidence[g]
    BY <1>5 DEF HAInv, HATypeOK
  <2> QED BY <1>5, <2>1, AbsentAssumption DEF Standing
<1>6. ASSUME NEW new \in GateStates, ops' = [ops EXCEPT ![o].state = new]
      PROVE  seen' = [seen EXCEPT ![o] = new] /\ held' = held
  <2>1. /\ ops'[o] \in Row /\ ops'[o].state = new /\ ops'[o].challenge = h
        /\ \A p \in Ops \ {o} : ops'[p] = ops[p]
    BY <1>2, <1>6 DEF HAInv, HATypeOK, Row
  <2> QED BY <1>1, <1>2, <2>1, AbsentAssumption DEF StateOf, HeldBy, Exists
<1>7. CASE CommitClear(c)
  <2>1. /\ ops[o].state = "waiting_for_human" /\ ~evidence[h].cleared
        /\ evidence' = [evidence EXCEPT ![h].cleared = TRUE] /\ ops' = ops
    BY <1>1, <1>7 DEF CommitClear, ClearCas, Waiting
  <2>2. PICK new \in Evidence : new = [evidence[h] EXCEPT !.cleared = TRUE]
    BY <1>3 DEF Evidence
  <2>3. evidence' = [evidence EXCEPT ![h] = new]
    BY <2>1, <2>2
  <2>4. new.cleared = TRUE /\ new.consumed = evidence[h].consumed /\ new.denier = None
    BY <1>3, <2>2 DEF Evidence
  <2>5. Standing(h) = "open" /\ Standing(h)' = "cleared"
    BY <1>3, <1>5, <2>1, <2>3, <2>4 DEF Standing, Evidence
  <2>6. seen' = seen /\ held' = held /\ standing' = [standing EXCEPT ![h] = "cleared"]
    BY <1>5, <2>1, <2>3, <2>5 DEF StateOf, HeldBy, Exists
  <2>7. seen' = [seen EXCEPT ![o] = "waiting_for_human"]
    BY <1>4, <2>1, <2>6
  <2> HIDE DEF seen, held, standing
  <2>8. Evidences!Clear(o)
    BY <1>1, <1>4, <2>1, <2>5, <2>6, <2>7
    DEF Evidences!Clear, Evidences!Settle, seen, held, standing, StateOf, HeldBy
  <2> QED BY <2>8 DEF Evidences!Next
<1>8. CASE CommitDeny(c)
  <2>1. /\ ops[o].state \in Cancelable /\ ~evidence[h].cleared
        /\ evidence' = [evidence EXCEPT ![h].denier = jobs[c].user]
        /\ ops' = [ops EXCEPT ![o].state = "canceled"]
    BY <1>1, <1>8 DEF CommitDeny, DenyCas
  <2>2. PICK new \in Evidence : new = [evidence[h] EXCEPT !.denier = jobs[c].user]
    BY <1>1, <1>3 DEF Evidence
  <2>3. evidence' = [evidence EXCEPT ![h] = new]
    BY <2>1, <2>2
  <2>4. new.consumed = evidence[h].consumed /\ new.denier # None
    BY <1>1, <1>3, <2>2, ChallengeAssumption DEF Evidence
  <2>5. Standing(h) = "open" /\ Standing(h)' = "denied"
    BY <1>3, <1>5, <2>1, <2>3, <2>4 DEF Standing, Evidence
  <2>6. standing' = [standing EXCEPT ![h] = "denied"]
    BY <1>5, <2>3, <2>5
  <2>7. seen' = [seen EXCEPT ![o] = "canceled"] /\ held' = held
    BY <1>6, <2>1 DEF GateStates
  <2> HIDE DEF seen, held, standing
  <2>8. Evidences!Deny(o)
    BY <1>1, <1>4, <2>1, <2>5, <2>6, <2>7
    DEF Evidences!Deny, Evidences!Settle, Evidences!Cancelable, Cancelable, seen, held, standing,
        StateOf, HeldBy
  <2> QED BY <2>8 DEF Evidences!Next
<1>9. CASE CommitConsume(c)
  <2>1. /\ ops[o].state = "waiting_for_human" /\ evidence[h].cleared /\ ~evidence[h].consumed
        /\ evidence' = [evidence EXCEPT ![h].consumed = TRUE]
        /\ ops' = [ops EXCEPT ![o] = Resumed(ops[o])]
    BY <1>1, <1>9 DEF CommitConsume, ConsumeCas, Waiting
  <2>2. PICK new \in Evidence : new = [evidence[h] EXCEPT !.consumed = TRUE]
    BY <1>3 DEF Evidence
  <2>3. evidence' = [evidence EXCEPT ![h] = new]
    BY <2>1, <2>2
  <2>4. new.consumed = TRUE
    BY <1>3, <2>2 DEF Evidence
  <2>5. Standing(h) = "cleared" /\ Standing(h)' = "consumed"
    BY <1>3, <1>5, <2>1, <2>3, <2>4 DEF Standing
  <2>6. standing' = [standing EXCEPT ![h] = "consumed"]
    BY <1>5, <2>3, <2>5
  <2>7. seen' = [seen EXCEPT ![o] = "running"] /\ held' = held
    <3>1. ops' = [ops EXCEPT ![o].state = "running"]
      BY <2>1 DEF Resumed
    <3> QED BY <1>6, <3>1 DEF GateStates
  <2> HIDE DEF seen, held, standing
  <2>8. Evidences!Consume(o)
    BY <1>1, <1>4, <2>1, <2>5, <2>6, <2>7
    DEF Evidences!Consume, Evidences!Settle, seen, held, standing, StateOf, HeldBy
  <2> QED BY <2>8 DEF Evidences!Next
<1> QED BY <1>7, <1>8, <1>9

\* The gates, their retries and their deaths keep the contract that the Operation
\* Store implements, for any number of requests, Operations and challenges.
THEOREM GatesKeepContract == Spec => ImplementsChallenges
<1>1. Init => Evidences!Init
  BY DEF Init, Evidences!Init, Exists, Standing
<1>2. HAInv /\ [Next]_vars => [Evidences!Next]_(Evidences!vars)
  <2> SUFFICES ASSUME HAInv, [Next]_vars
               PROVE  Evidences!Next \/ UNCHANGED ContractVars
    BY DEF ContractVars, Evidences!vars, StateOf, HeldBy
  <2> DEFINE seen == [p \in Ops |-> StateOf(p)]
             held == [p \in Ops |-> HeldBy(p)]
             standing == [g \in Challenges |-> Standing(g)]
  <2>1. UNCHANGED <<ops, evidence>> => UNCHANGED ContractVars
    BY DEF ContractVars, StateOf, HeldBy, Exists, Standing
  <2>2. ASSUME NEW c \in Clients, NEW o \in Ops, NEW u \in Users, NEW k \in Kinds,
               CreateOperation(c, o, u, k)
        PROVE  Evidences!Next
    <3>1. /\ ops[o] = None /\ evidence' = evidence
          /\ ops' = [ops EXCEPT ![o] = [state |-> "pending", creator |-> u, intent |-> k,
                                        challenge |-> None]]
      BY <2>2 DEF CreateOperation, Exists
    <3>2. /\ ops'[o] \in Row /\ ops'[o].state = "pending" /\ ops'[o].challenge = None
          /\ \A p \in Ops \ {o} : ops'[p] = ops[p]
      BY <3>1 DEF HAInv, HATypeOK, Row, GateStates
    <3>3. seen[o] = "absent" /\ seen' = [seen EXCEPT ![o] = "pending"]
          /\ held' = held /\ standing' = standing
      <4>1. StateOf(o) = "absent" /\ HeldBy(o) = None
        BY <3>1 DEF StateOf, HeldBy, Exists
      <4>2. StateOf(o)' = "pending" /\ HeldBy(o)' = None
        BY <3>2, AbsentAssumption DEF StateOf, HeldBy, Exists
      <4>3. \A p \in Ops \ {o} : StateOf(p)' = StateOf(p) /\ HeldBy(p)' = HeldBy(p)
        BY <3>2 DEF StateOf, HeldBy, Exists
      <4>4. standing' = standing
        BY <3>1 DEF Standing
      <4> QED BY <4>1, <4>2, <4>3, <4>4
    <3> HIDE DEF seen, held, standing
    <3>4. Evidences!Create(o)
      BY <3>3 DEF Evidences!Create, seen, held, standing, StateOf, HeldBy
    <3> QED BY <3>4 DEF Evidences!Next
  <2>3. ASSUME NEW o \in Ops, Cancel(o) \/ Park(o)
        PROVE  Evidences!Next
    <3>1. PICK s \in GateStates :
          /\ ops[o] \in Row /\ ops[o] # None /\ ops[o].state \in Cancelable
          /\ s = "canceled" \/ (ops[o].state = "running" /\ s = "incomplete")
          /\ ops' = [ops EXCEPT ![o].state = s] /\ evidence' = evidence
      BY <2>3 DEF Cancel, Park, Exists, Cancelable, GateStates, HAInv, HATypeOK
    <3>2. /\ ops'[o] \in Row /\ ops'[o].state = s /\ ops'[o].challenge = ops[o].challenge
          /\ \A p \in Ops \ {o} : ops'[p] = ops[p]
      BY <3>1 DEF HAInv, HATypeOK, Row, GateStates
    <3>3. s \in Evidences!Allowed[ops[o].state] /\ ops[o].state \in Evidences!States
      BY <3>1 DEF Cancelable, Evidences!Allowed, Evidences!States
    <3>4. seen[o] = ops[o].state /\ seen' = [seen EXCEPT ![o] = s]
          /\ held' = held /\ standing' = standing
      <4>1. StateOf(o) = ops[o].state /\ HeldBy(o) = ops[o].challenge
        BY <3>1 DEF StateOf, HeldBy, Exists
      <4>2. StateOf(o)' = s /\ HeldBy(o)' = HeldBy(o)
        BY <3>2, <4>1, AbsentAssumption DEF StateOf, HeldBy, Exists
      <4>3. \A p \in Ops \ {o} : StateOf(p)' = StateOf(p) /\ HeldBy(p)' = HeldBy(p)
        BY <3>2 DEF StateOf, HeldBy, Exists
      <4>4. standing' = standing
        BY <3>1 DEF Standing
      <4> QED BY <4>1, <4>2, <4>3, <4>4
    <3> HIDE DEF seen, held, standing
    <3>5. Evidences!Move(o)
      BY <3>3, <3>4 DEF Evidences!Move, seen, held, standing, StateOf, HeldBy
    <3> QED BY <3>5 DEF Evidences!Next
  <2>4. ASSUME NEW c \in Clients, NEW h \in Challenges, RaiseChallenge(c, h)
        PROVE  Evidences!Next
    BY <2>4, RaiseOnContract DEF Evidences!Next
  <2>5. ASSUME NEW c \in Clients, Commit(c) \/ Abandon(c)
        PROVE  Evidences!Next \/ UNCHANGED <<ops, evidence>>
    BY <2>4, <2>5, DecisionOnContract
    DEF Commit, ReadForRequest, ValidateEvidence, WriteAudit, Mutate, Abandon
  <2>6. ASSUME NEW c \in Clients, NEW o \in Ops,
               \/ RetryRequest(c, o)
               \/ \E u \in Users : BeginClear(c, o, u) \/ BeginDeny(c, o, u)
               \/ \E u \in Users, k \in Kinds :
                    CreateOperation(c, o, u, k) \/ BeginResume(c, o, u, k)
        PROVE  Evidences!Next \/ UNCHANGED <<ops, evidence>>
    BY <2>2, <2>6 DEF RetryRequest, BeginClear, BeginDeny, BeginResume
  <2>7. (\E h \in Challenges : Expire(h)) \/ UNCHANGED vars => UNCHANGED <<ops, evidence>>
    BY DEF Expire, vars
  <2> QED BY <2>1, <2>3, <2>5, <2>6, <2>7 DEF Next
<1> QED BY <1>1, <1>2, HAInvHolds, PTL DEF Spec, ImplementsChallenges, Evidences!Spec
=============================================================================
