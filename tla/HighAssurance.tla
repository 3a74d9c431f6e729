---------------------------- MODULE HighAssurance ----------------------------
(***************************************************************************)
(* High-Assurance Challenges (packages/high-assurance) and the gates of    *)
(* protected mutations that raise and spend them (packages/                *)
(* protected-change, app-connection, delivery-policy, runtime-injection).  *)
(*                                                                         *)
(* A call is a chain of transactions: it reads the Operation, decides on   *)
(* what it read, lets the Operation Store write with a compare-and-set     *)
(* that names the challenge, and records its audit events one by one.  A   *)
(* gate that consumed the evidence goes on to its mutation.  The Worker    *)
(* may die between any two of them.  A call of the store is one step here: *)
(* OperationStore shows that a write decides on the row it commits on.     *)
(***************************************************************************)
EXTENDS OperationStates, Naturals, FiniteSets

CONSTANTS
  Ops,         \* Operation IDs
  Challenges,  \* challenge IDs
  Users,       \* human session users
  Kinds,       \* risk reason codes, one per kind of protected mutation
  Clients,     \* concurrent Worker requests
  None         \* no row, no challenge, no user

ASSUME ChallengeAssumption ==
  /\ None \notin Users
  /\ None \notin Challenges
  /\ None \notin Ops

VARIABLES
  ops,       \* the operations table
  evidence,  \* per challenge, its evidence as it was last stored in a row
  expired,   \* the challenges whose expiresAt has passed
  audit,     \* per challenge, its success events in the audit log
  jobs,      \* per client, the call it is in the middle of
  effects    \* history: per challenge, the mutations made on its strength

vars == <<ops, evidence, expired, audit, jobs, effects>>

-----------------------------------------------------------------------------
(* Rows, evidence and jobs.                                                *)

\* The states an Operation of a gate can be in.
GateStates == {"pending", "waiting_for_human", "running", "incomplete", "canceled"}

\* "creator" and "intent" are the user and the kind the gate created it for.
Row == [state : GateStates, creator : Users, intent : Kinds, challenge : Challenges \cup {None}]

\* clearedAt, consumedAt and denyingUserId, each with its audit event ID.  Human
\* evidence is cleared by its requester, so a clearing user is not kept apart.
Evidence == [op : Ops, user : Users, kind : Kinds, cleared : BOOLEAN,
             consumed : BOOLEAN, denier : Users \cup {None}]

\* An absent row is no row.
ASSUME AbsentAssumption == None \notin Row \cup Evidence

\* In the order in which a call writes them.
AuditKinds == {"request", "clear", "deny", "consume"}

Phases == {"idle", "requesting", "raising", "clearing", "denying", "resuming", "consuming",
           "auditing", "mutating"}

Job == [phase : Phases, op : Ops \cup {None}, user : Users \cup {None}, kind : Kinds \cup {None},
        challenge : Challenges \cup {None}, todo : SUBSET AuditKinds]

Idle == [phase |-> "idle", op |-> None, user |-> None, kind |-> None,
         challenge |-> None, todo |-> {}]

In(c, phase) == jobs[c].phase = phase

Exists(o) == ops[o] # None

\* The evidence in the row of o.
Held(o) == evidence[ops[o].challenge]

HasEvidence(o) == Exists(o) /\ ops[o].challenge # None

Waiting(o) == ops[o].state = "waiting_for_human"

-----------------------------------------------------------------------------
Init ==
  /\ ops      = [o \in Ops |-> None]
  /\ evidence = [h \in Challenges |-> None]
  /\ expired  = {}
  /\ audit    = [h \in Challenges |-> {}]
  /\ jobs     = [c \in Clients |-> Idle]
  /\ effects  = [h \in Challenges |-> 0]

Start(c, phase, o, u, k, h, todo) ==
  jobs' = [jobs EXCEPT ![c] = [phase |-> phase, op |-> o, user |-> u, kind |-> k,
                               challenge |-> h, todo |-> todo]]

-----------------------------------------------------------------------------
(* requestHighAssuranceChallenge.                                          *)

\* A gate without an Operation ID creates an Operation for its mutation.
CreateOperation(c, o, u, k) ==
  /\ In(c, "idle")
  /\ ~Exists(o)
  /\ ops' = [ops EXCEPT ![o] = [state |-> "pending", creator |-> u, intent |-> k,
                                challenge |-> None]]
  /\ Start(c, "requesting", o, u, k, None, {})
  /\ UNCHANGED <<evidence, expired, audit, effects>>

\* The request is made a second time with the same input, at any later time.
RetryRequest(c, o) ==
  /\ In(c, "idle")
  /\ Exists(o)
  /\ Start(c, "requesting", o, ops[o].creator, ops[o].intent, None, {})
  /\ UNCHANGED <<ops, evidence, expired, audit, effects>>

\* hasPendingRequestAuditFinalization.
IsRequested(o) == Waiting(o) /\ HasEvidence(o) /\ ~Held(o).consumed

\* The Operation is read: a challenge it waits for is only audited again.
ReadForRequest(c) ==
  LET job == jobs[c]
      o   == job.op
  IN
  /\ In(c, "requesting")
  /\ IF IsRequested(o)
       THEN /\ Held(o).user = job.user
            /\ Held(o).kind = job.kind
            /\ Start(c, "auditing", o, job.user, job.kind, ops[o].challenge, {"request"})
       ELSE Start(c, "raising", o, job.user, job.kind, None, {})
  /\ UNCHANGED <<ops, evidence, expired, audit, effects>>

\* transitionToWaitingForHuman with a new challenge, which replaces the one the
\* row holds.
RaiseChallenge(c, h) ==
  LET job == jobs[c]
      o   == job.op
  IN
  /\ In(c, "raising")
  /\ evidence[h] = None
  /\ ops[o].state \notin Terminal
  /\ IsTransitionAllowed(ops[o].state, "waiting_for_human")
  /\ ops' = [ops EXCEPT ![o].state = "waiting_for_human", ![o].challenge = h]
  /\ evidence' = [evidence EXCEPT ![h] = [op |-> o, user |-> job.user, kind |-> job.kind,
                                          cleared |-> FALSE, consumed |-> FALSE, denier |-> None]]
  /\ Start(c, "auditing", o, job.user, job.kind, h, {"request"})
  /\ UNCHANGED <<expired, audit, effects>>

-----------------------------------------------------------------------------
(* clearHighAssuranceChallenge.                                            *)

\* completeDurableClear: neither the state nor the expiry is looked at.
DurableClear(o, u) == Held(o).cleared /\ Held(o).user = u

PendingClear(o, u) ==
  /\ Waiting(o)
  /\ ~Held(o).cleared
  /\ ops[o].challenge \notin expired
  /\ Held(o).user = u

BeginClear(c, o, u) ==
  /\ In(c, "idle")
  /\ HasEvidence(o)
  /\ \/ /\ DurableClear(o, u)
        /\ Start(c, "auditing", o, u, None, ops[o].challenge, {"request", "clear"})
     \/ /\ PendingClear(o, u)
        /\ Start(c, "clearing", o, u, None, ops[o].challenge, {})
  /\ UNCHANGED <<ops, evidence, expired, audit, effects>>

\* Mutant of ClearCas: the state is not part of the compare-and-set.
ClearCasAnywhere(o, h) == ops[o].challenge = h /\ ~evidence[h].cleared

\* recordOperationProgressClearHighAssuranceChallenge.
ClearCas(o, h) == Waiting(o) /\ ops[o].challenge = h /\ ~evidence[h].cleared

CommitClear(c) ==
  LET h == jobs[c].challenge IN
  /\ In(c, "clearing")
  /\ ClearCas(jobs[c].op, h)
  /\ evidence' = [evidence EXCEPT ![h].cleared = TRUE]
  /\ jobs' = [jobs EXCEPT ![c].phase = "auditing", ![c].todo = {"request", "clear"}]
  /\ UNCHANGED <<ops, expired, audit, effects>>

-----------------------------------------------------------------------------
(* denyHighAssuranceChallenge.                                             *)

BeginDeny(c, o, u) ==
  /\ In(c, "idle")
  /\ HasEvidence(o)
  /\ \/ /\ ops[o].state = "canceled"
        /\ Held(o).denier = u
        /\ Start(c, "auditing", o, u, None, ops[o].challenge, {"request", "deny"})
     \/ /\ Waiting(o)
        /\ ~Held(o).cleared
        /\ ops[o].challenge \notin expired
        /\ Start(c, "denying", o, u, None, ops[o].challenge, {})
  /\ UNCHANGED <<ops, evidence, expired, audit, effects>>

\* cancelOperation with highAssuranceDenyCas.
DenyCas(o, h) ==
  /\ ops[o].state \in Cancelable
  /\ ops[o].challenge = h
  /\ ~evidence[h].cleared
  /\ ~evidence[h].consumed

CommitDeny(c) ==
  LET h == jobs[c].challenge IN
  /\ In(c, "denying")
  /\ DenyCas(jobs[c].op, h)
  /\ ops' = [ops EXCEPT ![jobs[c].op].state = "canceled"]
  /\ evidence' = [evidence EXCEPT ![h].denier = jobs[c].user]
  /\ jobs' = [jobs EXCEPT ![c].phase = "auditing", ![c].todo = {"request", "deny"}]
  /\ UNCHANGED <<expired, audit, effects>>

-----------------------------------------------------------------------------
(* A gate with an Operation ID: consumeHighAssuranceEvidence and the mutation. *)

\* The gate's own read: the risk reason is that of the mutation.
BeginResume(c, o, u, k) ==
  /\ In(c, "idle")
  /\ HasEvidence(o)
  /\ Held(o).kind = k
  /\ Start(c, "resuming", o, u, k, None, {})
  /\ UNCHANGED <<ops, evidence, expired, audit, effects>>

\* The read of the consume call.  Evidence already consumed is refused: the gates
\* pass no idempotency key.
ValidateEvidence(c) ==
  LET job == jobs[c]
      o   == job.op
  IN
  /\ In(c, "resuming")
  /\ ~Held(o).consumed
  /\ ops[o].challenge \notin expired
  /\ Held(o).cleared
  /\ Held(o).user = job.user
  /\ Waiting(o)
  /\ jobs' = [jobs EXCEPT ![c].phase = "consuming", ![c].challenge = ops[o].challenge]
  /\ UNCHANGED <<ops, evidence, expired, audit, effects>>

\* Mutant of ConsumeCas: the evidence may have been consumed since it was read.
ConsumeCasTwice(o, h) == ops[o].challenge = h /\ evidence[h].cleared

\* transitionOperationConsumeHighAssuranceEvidence.
ConsumeCas(o, h) ==
  /\ Waiting(o)
  /\ ops[o].challenge = h
  /\ evidence[h].cleared
  /\ ~evidence[h].consumed

Resumed(row) == [row EXCEPT !.state = "running"]

CommitConsume(c) ==
  LET h == jobs[c].challenge IN
  /\ In(c, "consuming")
  /\ ConsumeCas(jobs[c].op, h)
  /\ ops' = [ops EXCEPT ![jobs[c].op] = Resumed(@)]
  /\ evidence' = [evidence EXCEPT ![h].consumed = TRUE]
  /\ jobs' = [jobs EXCEPT ![c].phase = "mutating", ![c].todo = {"request", "clear", "consume"}]
  /\ UNCHANGED <<expired, audit, effects>>

\* The transaction the gate guards, once every audit event is written.
Mutate(c) ==
  /\ In(c, "mutating")
  /\ jobs[c].todo = {}
  /\ effects' = [effects EXCEPT ![jobs[c].challenge] = @ + 1]
  /\ jobs' = [jobs EXCEPT ![c] = Idle]
  /\ UNCHANGED <<ops, evidence, expired, audit>>

-----------------------------------------------------------------------------
(* The audit log.                                                          *)

\* Mutant of IsNext: a decision is recorded before the events it follows.
IsNextDecision(todo, a) ==
  /\ a \in todo
  /\ a = "request" => todo = {"request"}
  /\ a = "clear" => todo \cap {"deny", "consume"} = {}

\* finalizePendingChallengeAuditsInOrder, and the call's own event after it.
IsNext(todo, a) ==
  /\ a \in todo
  /\ a # "request" => "request" \notin todo
  /\ a \in {"deny", "consume"} => "clear" \notin todo

\* writeAuditEventWithId: an ID that is in the log already counts as written.
WriteAudit(c, a) ==
  LET rest == jobs[c].todo \ {a} IN
  /\ IsNext(jobs[c].todo, a)
  /\ audit' = [audit EXCEPT ![jobs[c].challenge] = @ \cup {a}]
  /\ jobs' = [jobs EXCEPT ![c] = IF In(c, "auditing") /\ rest = {} THEN Idle
                                 ELSE [@ EXCEPT !.todo = rest]]
  /\ UNCHANGED <<ops, evidence, expired, effects>>

-----------------------------------------------------------------------------
(* The rest of the world.                                                  *)

\* insecur operations cancel.
Cancel(o) ==
  /\ Exists(o)
  /\ ops[o].state \in Cancelable
  /\ ops' = [ops EXCEPT ![o].state = "canceled"]
  /\ UNCHANGED <<evidence, expired, audit, jobs, effects>>

\* The claim of a resumed Operation expires, and the next read of it, in whatever
\* call, parks it.
Park(o) ==
  /\ Exists(o)
  /\ ops[o].state = "running"
  /\ ops' = [ops EXCEPT ![o].state = "incomplete"]
  /\ UNCHANGED <<evidence, expired, audit, jobs, effects>>

Expire(h) ==
  /\ evidence[h] # None
  /\ h \notin expired
  /\ expired' = expired \cup {h}
  /\ UNCHANGED <<ops, evidence, audit, jobs, effects>>

\* A check or a compare-and-set refuses, a write fails or the Worker dies: what is
\* committed stays.
Abandon(c) ==
  /\ ~In(c, "idle")
  /\ jobs' = [jobs EXCEPT ![c] = Idle]
  /\ UNCHANGED <<ops, evidence, expired, audit, effects>>

Commit(c) ==
  \/ ReadForRequest(c)
  \/ \E h \in Challenges : RaiseChallenge(c, h)
  \/ CommitClear(c)
  \/ CommitDeny(c)
  \/ ValidateEvidence(c)
  \/ CommitConsume(c)
  \/ \E a \in AuditKinds : WriteAudit(c, a)
  \/ Mutate(c)

Next ==
  \/ \E c \in Clients, o \in Ops :
       \/ RetryRequest(c, o)
       \/ \E u \in Users : BeginClear(c, o, u) \/ BeginDeny(c, o, u)
       \/ \E u \in Users, k \in Kinds : CreateOperation(c, o, u, k) \/ BeginResume(c, o, u, k)
  \/ \E c \in Clients : Commit(c) \/ Abandon(c)
  \/ \E o \in Ops : Cancel(o) \/ Park(o)
  \/ \E h \in Challenges : Expire(h)

Spec == Init /\ [][Next]_vars

-----------------------------------------------------------------------------
(* Properties.                                                             *)

\* Type invariant of the Operation rows, the evidence, the audit log and the calls.
HATypeOK ==
  /\ ops \in [Ops -> Row \cup {None}]
  /\ evidence \in [Challenges -> Evidence \cup {None}]
  /\ expired \subseteq Challenges
  /\ audit \in [Challenges -> SUBSET AuditKinds]
  /\ jobs \in [Clients -> Job]
  /\ effects \in [Challenges -> Nat]

\* A protected mutation rests on evidence of its own kind, raised and cleared by the
\* user who makes it, consumed by this very call and never denied.
Authorized(c) ==
  LET e == evidence[jobs[c].challenge] IN
  /\ e # None
  /\ e.cleared /\ e.consumed /\ e.denier = None
  /\ e.kind = jobs[c].kind
  /\ e.user = jobs[c].user

\* Single use: whatever clears, denials, cancellations, repeated requests and
\* concurrent resumes do in between, a mutation that is about to run is authorized,
\* no second one runs on the same challenge, and denied evidence authorizes none
\* (ADR-0032: one request consumes the evidence and runs).
MutationIsAuthorized ==
  /\ \A c \in Clients : In(c, "mutating") =>
       /\ Authorized(c)
       /\ effects[jobs[c].challenge] = 0
       /\ \A d \in Clients \ {c} : In(d, "mutating") => jobs[d].challenge # jobs[c].challenge
  /\ \A h \in Challenges : effects[h] > 0 =>
       /\ effects[h] = 1
       /\ evidence[h] # None
       /\ evidence[h].consumed
       /\ evidence[h].denier = None

\* The audit log tells a challenge's story in order and nothing that did not happen:
\* a decision only after the request, a consume only after the clear, a mutation only
\* after all three, although retries of several calls write these events.
AuditTrailIsOrdered ==
  \A h \in Challenges :
    /\ audit[h] # {} => "request" \in audit[h] /\ evidence[h] # None
    /\ "clear" \in audit[h] => evidence[h].cleared
    /\ "deny" \in audit[h] => evidence[h].denier # None /\ "clear" \notin audit[h]
    /\ "consume" \in audit[h] => "clear" \in audit[h] /\ evidence[h].consumed
    /\ effects[h] > 0 => "consume" \in audit[h]

\* A denial is final: a clear, a resume, a cancellation or a repeated request that
\* read the row before it neither clears, consumes or replaces the challenge nor
\* moves the Operation out of "canceled".
DenialIsFinal ==
  [][\A h \in Challenges :
       evidence[h] # None /\ evidence[h].denier # None =>
         /\ evidence'[h] = evidence[h]
         /\ ops'[evidence[h].op] = ops[evidence[h].op]
         /\ ops[evidence[h].op].state = "canceled"]_vars

-----------------------------------------------------------------------------
(* HighAssurance implements ChallengeLifecycle.                            *)

\* The outcome of a challenge: no evidence yet is an open challenge too.
Standing(h) ==
  IF evidence[h] = None THEN "open"
  ELSE IF evidence[h].consumed THEN "consumed"
  ELSE IF evidence[h].denier # None THEN "denied"
  ELSE IF evidence[h].cleared THEN "cleared" ELSE "open"

Evidences ==
  INSTANCE ChallengeLifecycle
    WITH Operations <- Ops,
         state      <- [o \in Ops |-> IF Exists(o) THEN ops[o].state ELSE "absent"],
         held       <- [o \in Ops |-> IF Exists(o) THEN ops[o].challenge ELSE None],
         status     <- [h \in Challenges |-> Standing(h)]

\* The chains of transactions around the store, the audits between them and the
\* deaths of their Workers keep to the contract that OperationStore implements: a
\* decision read in one transaction and written in a later one clears, denies or
\* consumes a challenge only where its Operation still allows it.
ImplementsChallenges == Evidences!Spec
=============================================================================
