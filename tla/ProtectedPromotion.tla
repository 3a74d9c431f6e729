-------------------------- MODULE ProtectedPromotion --------------------------
(***************************************************************************)
(* Secret Versions and the Approval Requests that publish them             *)
(* (packages/tenant-store secrets and approvals, packages/protected-change)*)
(* for the secrets of one Protected Environment, and of environments that  *)
(* are not protected.                                                      *)
(*                                                                         *)
(* Promotion, rollback and approval each span several transactions: a job  *)
(* keeps what one of them read and the next one uses.  The publish and the *)
(* supersede transactions read, lock and write, so they are two steps with *)
(* their row locks held between; every other transaction is one step.      *)
(***************************************************************************)
EXTENDS Naturals, FiniteSets

CONSTANTS
  Secrets,      \* secret IDs
  Unprotected,  \* the secrets of environments that are not protected
  Versions,     \* secret version IDs
  Requests,     \* Approval Request IDs
  Clients,      \* concurrent Worker requests
  None,         \* no version, no request, no fingerprint
  MaxDelivery   \* bound: how often the delivery configuration changes

ASSUME PromotionAssumption ==
  /\ Unprotected \subseteq Secrets
  /\ IsFiniteSet(Versions)
  /\ MaxDelivery \in Nat
  /\ None \notin Versions
  /\ None \notin Requests

VARIABLES
  secrets,   \* the secrets table
  versions,  \* the secret_versions table
  requests,  \* the approval_requests table with its change sets
  delivery,  \* the environment's Runtime Injection Policies, by edition
  jobs       \* per client, the call it is in the middle of

vars == <<secrets, versions, requests, delivery, jobs>>

-----------------------------------------------------------------------------
(* Rows and jobs.                                                          *)

Secret == [current : Versions \cup {None}, liveNumber : Nat]

Version == [secret : Secrets, number : Nat \ {0},
            state : {"draft", "live", "retained", "discarded"}]

Purposes == {"protected_promotion", "protected_rollback"}

\* The statuses the code writes; three more are reserved in the schema.  "rejected"
\* stands for "canceled" too, which nothing tells apart.
Statuses == {"pending", "approved_applied", "rejected", "superseded", "draft_discard_closed"}

\* The facts the Approval Impact Review hashes: the delivery configuration and
\* the version rows that exist among the targets.
Fingerprint(vs) == [delivery |-> delivery, drafts |-> {v \in vs : versions[v] # None}]

Fingerprints == [delivery : Nat, drafts : SUBSET Versions]

Request == [purpose : Purposes, status : Statuses, targets : SUBSET Versions,
            fingerprint : Fingerprints]

Phases == {"idle", "promoting", "superseding", "rolling", "approving", "publishing"}

Job == [targets : SUBSET Versions, fingerprint : Fingerprints \cup {None}, phase : Phases,
        superseded : SUBSET Requests, request : Requests \cup {None}]

\* An absent row is no row.
ASSUME RowAssumption == None \notin Version \cup Request

Idle == [targets |-> {}, fingerprint |-> None, phase |-> "idle",
         superseded |-> {}, request |-> None]

In(c, phase) == jobs[c].phase = phase

Published(v) == versions[v] # None /\ versions[v].state \in {"live", "retained"}

IsDraft(v) == versions[v] # None /\ versions[v].state = "draft"

\* IDs of rows that exist, or that a rollback generated for its copy.
UsedIds == {v \in Versions : versions[v] # None} \cup UNION {jobs[c].targets : c \in Clients}

\* Rows locked by an open transaction: SELECT ... FOR UPDATE on the secrets of a
\* publish and on the requests of a supersede.
LockedSecrets ==
  {versions[v].secret : v \in UNION {jobs[c].targets : c \in {d \in Clients : In(d, "publishing")}}}

\* Mutant of LockedRequests: the pending rows are selected without FOR UPDATE.
LockedRequestsNone == {}

LockedRequests == UNION {jobs[c].superseded : c \in Clients}

-----------------------------------------------------------------------------
(* The statements.                                                         *)

Numbers(s) == {versions[v].number : v \in {w \in Versions : versions[w] # None /\ versions[w].secret = s}}

\* allocateNextVersionNumber: drafts and discarded versions keep their numbers.
NextNumber(s) ==
  1 + (CHOOSE n \in Numbers(s) \cup {0} : \A m \in Numbers(s) : m <= n)

\* Mutant of LiveGuard: any newer version may become live.
LiveGuardNewer(s, number) == secrets[s].liveNumber < number

\* The WHERE of makeVersionLive.
LiveGuard(s, number) == secrets[s].liveNumber = number - 1

LiveSecret(v, number) == [current |-> v, liveNumber |-> number]

Retained(row) == IF row.state = "live" THEN [row EXCEPT !.state = "retained"] ELSE row

\* promoteDraftToLive: its WHERE matches drafts only, and nobody counts the rows.
Promoted(row) == IF row.state = "draft" THEN [row EXCEPT !.state = "live"] ELSE row

Discarded(row) == [row EXCEPT !.state = "discarded"]

\* Mutant of Copied: a rollback copy goes live at once.
CopiedLive(s) == [secret |-> s, number |-> NextNumber(s), state |-> "live"]

\* copyRetainedSecretVersion, which its callers always ask for a draft.
Copied(s) == [secret |-> s, number |-> NextNumber(s), state |-> "draft"]

\* Mutant of StillPending: the status change does not name the status it expects.
StillPendingUnchecked(q) == TRUE

\* The WHERE of transitionPendingApprovalRequest.
StillPending(q) == requests[q].status = "pending"

PendingPromotions ==
  {q \in Requests : /\ requests[q] # None
                    /\ requests[q].purpose = "protected_promotion"
                    /\ requests[q].status = "pending"}

\* Mutant of IndexAdmits: no partial unique index.
IndexAdmitsAll(superseded) == TRUE

\* approval_requests_one_pending_promotion_idx, once the superseded rows are closed.
IndexAdmits(superseded) == PendingPromotions \subseteq superseded

-----------------------------------------------------------------------------
Init ==
  /\ secrets  = [s \in Secrets |-> [current |-> None, liveNumber |-> 0]]
  /\ versions = [v \in Versions |-> None]
  /\ requests = [q \in Requests |-> None]
  /\ delivery = 0
  /\ jobs     = [c \in Clients |-> Idle]

-----------------------------------------------------------------------------
(* Blind Secret Writes.                                                    *)

\* appendVersionAsDraft.
WriteDraft(v, s) ==
  /\ v \notin UsedIds
  /\ s \notin Unprotected \cup LockedSecrets
  /\ versions' = [versions EXCEPT ![v] = [secret |-> s, number |-> NextNumber(s), state |-> "draft"]]
  /\ UNCHANGED <<secrets, requests, delivery, jobs>>

\* appendVersionAndMakeLive.  A version-conditional write (ifCurrentVersionAbsent)
\* adds a refusal, which changes nothing.
WriteLive(v, s) ==
  LET number == NextNumber(s)
      old    == secrets[s].current
  IN
  /\ v \notin UsedIds
  /\ s \in Unprotected
  /\ LiveGuard(s, number)
  /\ versions' = [w \in Versions |->
                    IF w = v THEN [secret |-> s, number |-> number, state |-> "live"]
                    ELSE IF w = old THEN Retained(versions[w]) ELSE versions[w]]
  /\ secrets' = [secrets EXCEPT ![s] = LiveSecret(v, number)]
  /\ UNCHANGED <<requests, delivery, jobs>>

-----------------------------------------------------------------------------
(* requestProtectedPromotion.                                              *)

\* The targets are validated and reviewed; the high-assurance gate follows.
BeginPromotion(c, targets) ==
  /\ In(c, "idle")
  /\ targets # {}
  /\ \A v \in targets : IsDraft(v)
  /\ jobs' = [jobs EXCEPT ![c] = [Idle EXCEPT !.phase = "promoting", !.targets = targets,
                                              !.fingerprint = Fingerprint(targets)]]
  /\ UNCHANGED <<secrets, versions, requests, delivery>>

\* supersedePendingPromotionRequests: the pending rows are selected and locked.
SelectPending(c) ==
  /\ In(c, "promoting")
  /\ PendingPromotions \cap LockedRequests = {}
  /\ jobs' = [jobs EXCEPT ![c].phase = "superseding", ![c].superseded = PendingPromotions]
  /\ UNCHANGED <<secrets, versions, requests, delivery>>

\* They are superseded, and createPromotionApprovalRequest inserts the new one.
CommitPromotion(c, q) ==
  /\ In(c, "superseding")
  /\ requests[q] = None
  /\ IndexAdmits(jobs[c].superseded)
  /\ requests' = [p \in Requests |->
                    IF p = q THEN [purpose     |-> "protected_promotion",
                                   status      |-> "pending",
                                   targets     |-> jobs[c].targets,
                                   fingerprint |-> jobs[c].fingerprint]
                    ELSE IF p \in jobs[c].superseded THEN [requests[p] EXCEPT !.status = "superseded"]
                    ELSE requests[p]]
  /\ jobs' = [jobs EXCEPT ![c] = Idle]
  /\ UNCHANGED <<secrets, versions, delivery>>

-----------------------------------------------------------------------------
(* requestProtectedRollback.                                               *)

Copyable(v, source) ==
  /\ versions[source] # None
  /\ versions[source].state = "retained"
  /\ versions[source].secret \notin Unprotected \cup LockedSecrets

\* Without a promotion: the copy is a draft like any other.
CopyAsDraft(v, source) ==
  /\ v \notin UsedIds
  /\ Copyable(v, source)
  /\ versions' = [versions EXCEPT ![v] = Copied(versions[source].secret)]
  /\ UNCHANGED <<secrets, requests, delivery, jobs>>

\* persistRollbackWithApproval reviews the impact of the copy before it exists.
BeginRollback(c, v) ==
  /\ In(c, "idle")
  /\ v \notin UsedIds
  /\ jobs' = [jobs EXCEPT ![c] = [Idle EXCEPT !.phase = "rolling", !.targets = {v},
                                              !.fingerprint = Fingerprint({v})]]
  /\ UNCHANGED <<secrets, versions, requests, delivery>>

\* copyVersionAndCreateRollbackApproval.
CommitRollback(c, v, source, q) ==
  /\ In(c, "rolling")
  /\ v \in jobs[c].targets
  /\ Copyable(v, source)
  /\ requests[q] = None
  /\ versions' = [versions EXCEPT ![v] = Copied(versions[source].secret)]
  /\ requests' = [requests EXCEPT ![q] = [purpose     |-> "protected_rollback",
                                          status      |-> "pending",
                                          targets     |-> jobs[c].targets,
                                          fingerprint |-> jobs[c].fingerprint]]
  /\ jobs' = [jobs EXCEPT ![c] = Idle]
  /\ UNCHANGED <<secrets, delivery>>

-----------------------------------------------------------------------------
(* The decisions.                                                          *)

\* approveApprovalRequest up to the publish transaction: the request is pending
\* and the review the approver saw, the recorded and the current one agree.
BeginApproval(c, q) ==
  /\ In(c, "idle")
  /\ requests[q] # None
  /\ StillPending(q)
  /\ requests[q].fingerprint = Fingerprint(requests[q].targets)
  /\ jobs' = [jobs EXCEPT ![c] = [Idle EXCEPT !.phase = "approving", !.request = q,
                                              !.targets = requests[q].targets]]
  /\ UNCHANGED <<secrets, versions, requests, delivery>>

\* publishSecretVersions locks the secrets and loads the drafts.
BeginPublish(c) ==
  /\ In(c, "approving")
  /\ \A v \in jobs[c].targets : IsDraft(v) /\ versions[v].secret \notin LockedSecrets
  /\ \A v, w \in jobs[c].targets : versions[v].secret = versions[w].secret => v = w
  /\ jobs' = [jobs EXCEPT ![c].phase = "publishing"]
  /\ UNCHANGED <<secrets, versions, requests, delivery>>

\* publishSingleTarget for every target, then the request's compare-and-set, in
\* one transaction: a refusal of any of them rolls all of it back.
CommitPublish(c) ==
  LET targets == jobs[c].targets
      q       == jobs[c].request
  IN
  /\ In(c, "publishing")
  /\ q \notin LockedRequests
  /\ \A v \in targets : LiveGuard(versions[v].secret, versions[v].number)
  /\ StillPending(q)
  /\ versions' = [v \in Versions |->
                    IF v \in targets THEN Promoted(versions[v])
                    ELSE IF \E w \in targets : secrets[versions[w].secret].current = v
                      THEN Retained(versions[v])
                    ELSE versions[v]]
  /\ secrets' = [s \in Secrets |->
                   IF \E v \in targets : versions[v].secret = s
                     THEN LET v == CHOOSE w \in targets : versions[w].secret = s
                          IN LiveSecret(v, versions[v].number)
                     ELSE secrets[s]]
  /\ requests' = [requests EXCEPT ![q].status = "approved_applied"]
  /\ jobs' = [jobs EXCEPT ![c] = Idle]
  /\ UNCHANGED delivery

\* rejectApprovalRequest and cancelApprovalRequest.
Decline(q) ==
  /\ requests[q] # None
  /\ q \notin LockedRequests
  /\ StillPending(q)
  /\ requests' = [requests EXCEPT ![q].status = "rejected"]
  /\ UNCHANGED <<secrets, versions, delivery, jobs>>

\* Mutant of ClosedBy: a discard leaves the requests alone.
ClosedByNothing(v) == {}

\* closePendingApprovalRequestsForDiscardedDraftVersion.
ClosedBy(v) ==
  {q \in Requests : requests[q] # None /\ StillPending(q) /\ v \in requests[q].targets}

\* runDiscardTransaction.  It locks no secret, so it runs beside a publish.
Discard(v) ==
  /\ IsDraft(v)
  /\ ClosedBy(v) \cap LockedRequests = {}
  /\ versions' = [versions EXCEPT ![v] = Discarded(@)]
  /\ requests' = [q \in Requests |->
                    IF q \in ClosedBy(v) THEN [requests[q] EXCEPT !.status = "draft_discard_closed"]
                    ELSE requests[q]]
  /\ UNCHANGED <<secrets, delivery, jobs>>

-----------------------------------------------------------------------------
(* The rest of the world.                                                  *)

\* A Runtime Injection Policy of the environment is created, changed or disabled.
ChangeDelivery ==
  /\ delivery < MaxDelivery
  /\ delivery' = delivery + 1
  /\ UNCHANGED <<secrets, versions, requests, jobs>>

\* A gate, a guard or the index refuses, or the Worker dies: the open transaction
\* rolls back and the call ends.
Abandon(c) ==
  /\ ~In(c, "idle")
  /\ jobs' = [jobs EXCEPT ![c] = Idle]
  /\ UNCHANGED <<secrets, versions, requests, delivery>>

Next ==
  \/ ChangeDelivery
  \/ \E v \in Versions :
       \/ Discard(v)
       \/ \E s \in Secrets : WriteDraft(v, s) \/ WriteLive(v, s)
       \/ \E source \in Versions : CopyAsDraft(v, source)
  \/ \E q \in Requests : Decline(q)
  \/ \E c \in Clients :
       \/ SelectPending(c) \/ BeginPublish(c) \/ CommitPublish(c) \/ Abandon(c)
       \/ \E targets \in SUBSET Versions : BeginPromotion(c, targets)
       \/ \E v \in Versions : BeginRollback(c, v)
       \/ \E q \in Requests : BeginApproval(c, q) \/ CommitPromotion(c, q)
       \/ \E v, source \in Versions, q \in Requests : CommitRollback(c, v, source, q)

Spec == Init /\ [][Next]_vars

-----------------------------------------------------------------------------
(* What the promotions promise.                                            *)

\* Every variable has the shape the code gives it.
PromotionTypeOK ==
  /\ secrets \in [Secrets -> Secret]
  /\ versions \in [Versions -> Version \cup {None}]
  /\ requests \in [Requests -> Request \cup {None}]
  /\ delivery \in Nat
  /\ jobs \in [Clients -> Job]

\* The version a secret points at is its one live version: a discard that runs
\* beside a publish never leaves the pointer on an erased version, although the
\* publish does not count the rows it promotes.
CurrentIsLive ==
  \A s \in Secrets : \A v \in Versions :
    secrets[s].current = v <=>
      /\ versions[v] # None
      /\ versions[v].secret = s
      /\ versions[v].state = "live"

\* The published versions of a secret are numbered from 1 up to its live version
\* number, without a gap: of two approvals that race, the second one publishes
\* what the first one left next in line, or nothing.
PublishedInOrder ==
  \A s \in Secrets :
    {versions[v].number : v \in {w \in Versions : Published(w) /\ versions[w].secret = s}}
      = 1..secrets[s].liveNumber

\* In a Protected Environment a version is published exactly when an Approval
\* Request that contains it was approved and applied, with all of its change set.
PublishedIffApproved ==
  \A v \in Versions : versions[v] # None /\ versions[v].secret \notin Unprotected =>
    (Published(v) <=> \E q \in Requests : /\ requests[q] # None
                                          /\ requests[q].status = "approved_applied"
                                          /\ v \in requests[q].targets)

\* "A Protected Environment may have only one pending promotion Approval Request",
\* also when two requests supersede the same one or find none to supersede.
OnePendingPromotion == Cardinality(PendingPromotions) <= 1

\* A request that was decided, superseded or closed is never decided again, by an
\* approval, a rejection or a supersede that read it pending.
DecidedIsFinal ==
  [][\A q \in Requests :
       requests[q] # None /\ requests[q].status # "pending" => requests'[q] = requests[q]]_vars

-----------------------------------------------------------------------------
(* What the documentation says and the code does not do.                   *)

\* ADR-0017: after a discard "the actor must create a new Blind Secret Write and
\* new Draft Version", which can then be promoted: no guard but the order of the
\* drafts themselves keeps the oldest draft of a secret from being published.
OldestDraftIsPublishable ==
  \A v \in Versions :
    IsDraft(v) /\ (\A w \in Versions : IsDraft(w) /\ versions[w].secret = versions[v].secret
                                         => versions[v].number <= versions[w].number)
      => LiveGuard(versions[v].secret, versions[v].number)

\* ADR-0017: an approval is rejected as stale "if delivery or sync targets changed".
\* A pending request whose delivery did not change since its review is not stale.
UnchangedReviewIsFresh ==
  \A q \in Requests :
    requests[q] # None /\ StillPending(q) /\ requests[q].fingerprint.delivery = delivery
      => requests[q].fingerprint = Fingerprint(requests[q].targets)

-----------------------------------------------------------------------------
(* ProtectedPromotion implements PublicationHistory.                       *)

\* The n-th published version of s.
Nth(rows, s, n) ==
  CHOOSE v \in Versions :
    /\ rows[v] # None /\ rows[v].secret = s /\ rows[v].number = n
    /\ rows[v].state \in {"live", "retained"}

StatusOf(q) ==
  IF requests[q] = None THEN "none"
  ELSE IF requests[q].status = "approved_applied" THEN "applied"
  ELSE IF ~StillPending(q) THEN "closed"
  ELSE IF requests[q].purpose = "protected_promotion" THEN "promotion" ELSE "rollback"

Publications ==
  INSTANCE PublicationHistory
    WITH history <- [s \in Secrets |->
                       [n \in 1..secrets[s].liveNumber |-> Nth(versions, s, n)]],
         drafts  <- [s \in Secrets |-> {v \in Versions : IsDraft(v) /\ versions[v].secret = s}],
         known   <- {v \in Versions : versions[v] # None},
         status  <- [q \in Requests |-> StatusOf(q)],
         scope   <- [q \in Requests |-> IF requests[q] = None THEN {} ELSE requests[q].targets]

\* Between the read of a job and its commit other calls commit, and only their row
\* locks, the index and the guards of the writes keep them apart: together they
\* have the effect of calls that run one after another.
CallsAreAtomic == [][Publications!Next]_(Publications!vars)
=============================================================================
