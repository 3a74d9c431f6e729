------------------------ MODULE ProtectedPromotionProofs ------------------------
(***************************************************************************)
(* Theorems about ProtectedPromotion, for any number of secrets, versions, *)
(* requests and clients.                                                   *)
(***************************************************************************)
EXTENDS ProtectedPromotion, SequenceTheorems, FiniteSetTheorems, WellFoundedInduction, TLAPS

-----------------------------------------------------------------------------
(* Version numbers.                                                        *)

HasMaximum(S) == \E n \in S : \A m \in S : m <= n

\* A finite set of numbers has a greatest one: a smallest subset without would
\* still be without one after it lost an element.
LEMMA MaximumExists ==
  ASSUME NEW S, IsFiniteSet(S), S \subseteq Nat, S # {}
  PROVE  HasMaximum(S)
<1> DEFINE R == StrictSubsetOrdering(S)
           T == {U \in SUBSET S : U # {} /\ ~HasMaximum(U)}
<1>1. IsWellFoundedOn(R, SUBSET S)
  BY FS_StrictSubsetOrderingWellFounded, FS_FiniteSubsetsOfFinite
<1>2. T = {}
  <2> SUFFICES ASSUME T # {} PROVE FALSE
    OBVIOUS
  <2>1. T \subseteq SUBSET S
    OBVIOUS
  <2> HIDE DEF R
  <2>2. PICK U \in T : \A V \in T : ~(<<V, U>> \in R)
    <3> HIDE DEF T
    <3> QED BY <1>1, <2>1, WFMin
  <2>3. PICK e \in U : TRUE
    BY <2>2
  <2>4. U \ {e} \notin T
    BY <2>2, <2>3 DEF R, StrictSubsetOrdering
  <2>5. CASE U \ {e} = {}
    <3>1. U = {e}
      BY <2>3, <2>5
    <3>2. e \in Nat /\ e <= e
      BY <2>2, <2>3
    <3> QED BY <2>2, <3>1, <3>2 DEF HasMaximum
  <2>6. CASE U \ {e} # {}
    <3>1. PICK n \in U \ {e} : \A m \in U \ {e} : m <= n
      BY <2>2, <2>4, <2>6 DEF HasMaximum
    <3>2. U \subseteq Nat
      BY <2>2
    <3>3. CASE n <= e
      <4>1. \A m \in U : m <= e
        BY <3>1, <3>2, <3>3, <2>3
      <4> QED BY <2>2, <2>3, <4>1 DEF HasMaximum
    <3>4. CASE ~(n <= e)
      <4>1. \A m \in U : m <= n
        BY <3>1, <3>2, <3>4, <2>3
      <4> QED BY <2>2, <3>1, <4>1 DEF HasMaximum
    <3> QED BY <3>3, <3>4
  <2> QED BY <2>5, <2>6
<1> QED BY <1>2

\* allocateNextVersionNumber returns a positive number that is greater than
\* every number of the secret.
LEMMA NextNumberIsNext ==
  ASSUME versions \in [Versions -> Version \cup {None}], NEW s \in Secrets
  PROVE  /\ NextNumber(s) \in Nat \ {0}
         /\ \A n \in Numbers(s) : n < NextNumber(s)
<1> DEFINE D == {w \in Versions : versions[w] # None /\ versions[w].secret = s}
           f == [v \in D |-> versions[v].number]
           M == Numbers(s) \cup {0}
<1>1. \A v \in D : versions[v].number \in Nat
  BY DEF Version
<1>2. Numbers(s) = {versions[v].number : v \in D}
  BY DEF Numbers
<1>3. Numbers(s) \subseteq Nat
  BY <1>1, <1>2
<1>4. IsFiniteSet(Numbers(s))
  <2>1. f \in Surjection(D, Numbers(s))
    BY <1>2 DEF Surjection
  <2>2. IsFiniteSet(D)
    BY PromotionAssumption, FS_Subset
  <2> HIDE DEF D, f
  <2> QED BY <2>1, <2>2, FS_Surjection
<1>5. IsFiniteSet(M) /\ M \subseteq Nat /\ M # {}
  BY <1>3, <1>4, FS_AddElement
<1>6. HasMaximum(M)
  <2> HIDE DEF M
  <2> QED BY <1>5, MaximumExists
<1>7. PICK n \in M : \A m \in M : m <= n
  BY <1>6 DEF HasMaximum
<1> DEFINE top == CHOOSE k \in M : \A m \in Numbers(s) : m <= k
<1>8. top \in M /\ \A m \in Numbers(s) : m <= top
  BY <1>7
<1>9. NextNumber(s) = 1 + top
  BY DEF NextNumber
<1> HIDE DEF top, M
<1>10. top \in Nat
  BY <1>5, <1>8
<1> QED BY <1>3, <1>8, <1>9, <1>10

-----------------------------------------------------------------------------
(* Types.                                                                  *)

\* What a job needs of the rows it refers to.
JobHolds(j) ==
  /\ j.phase \in {"promoting", "superseding", "rolling"} => j.fingerprint \in Fingerprints
  /\ j.phase \in {"approving", "publishing"} =>
       j.request \in Requests /\ requests[j.request] # None
  /\ \A q \in j.superseded : requests[q] # None
  /\ j.phase = "publishing" => \A v \in j.targets : versions[v] # None

JobsHold == \A c \in Clients : JobHolds(jobs[c])

CurrentExists == \A s \in Secrets : secrets[s].current # None => versions[secrets[s].current] # None

TypeInv == PromotionTypeOK /\ JobsHold /\ CurrentExists

\* Rows are changed, never deleted.
VersionsStay ==
  /\ versions' \in [Versions -> Version \cup {None}]
  /\ \A v \in Versions : versions[v] # None => versions'[v] # None

RequestsStay ==
  /\ requests' \in [Requests -> Request \cup {None}]
  /\ \A q \in Requests : requests[q] # None => requests'[q] # None

\* The statements return versions.
LEMMA VersionRows ==
  ASSUME NEW row \in Version
  PROVE  Retained(row) \in Version /\ Promoted(row) \in Version /\ Discarded(row) \in Version
BY DEF Version, Retained, Promoted, Discarded

\* A rollback copy is a version of the secret it is made for.
LEMMA CopiedRow ==
  ASSUME versions \in [Versions -> Version \cup {None}], NEW s \in Secrets
  PROVE  Copied(s) \in Version
BY NextNumberIsNext DEF Copied, Version

\* The reviewed facts of any set of versions are a fingerprint.
LEMMA FingerprintType ==
  ASSUME delivery \in Nat, NEW vs \in SUBSET Versions
  PROVE  Fingerprint(vs) \in Fingerprints
BY DEF Fingerprint, Fingerprints

\* A change of status keeps a request a request.
LEMMA RequestRows ==
  ASSUME NEW row \in Request, NEW status \in Statuses
  PROVE  [row EXCEPT !.status = status] \in Request
BY DEF Request

\* A client at rest holds a job.
LEMMA IdleJob == Idle \in Job /\ JobHolds(Idle)
BY DEF Idle, Job, JobHolds, Phases

\* A step that keeps the rows and gives one client a job that holds keeps all
\* jobs.
LEMMA OneJobMoves ==
  ASSUME TypeInv, VersionsStay, RequestsStay,
         NEW c \in Clients, jobs' = [jobs EXCEPT ![c] = jobs'[c]],
         jobs'[c] \in Job, JobHolds(jobs[c])'
  PROVE  jobs' \in [Clients -> Job] /\ JobsHold'
<1>1. jobs' \in [Clients -> Job]
  BY DEF TypeInv, PromotionTypeOK
<1>2. ASSUME NEW d \in Clients PROVE JobHolds(jobs[d])'
  <2>1. CASE d = c
    BY <2>1
  <2>2. CASE d # c
    <3>1. jobs'[d] = jobs[d] /\ jobs[d] \in Job /\ JobHolds(jobs[d])
      BY <2>2 DEF TypeInv, PromotionTypeOK, JobsHold
    <3>2. jobs[d].targets \subseteq Versions /\ jobs[d].superseded \subseteq Requests
      BY <3>1 DEF Job
    <3> QED BY <3>1, <3>2 DEF JobHolds, VersionsStay, RequestsStay
  <2> QED BY <2>1, <2>2
<1> QED BY <1>1, <1>2 DEF JobsHold

\* A step that keeps the rows and moves no job keeps all jobs.
LEMMA NoJobMoves ==
  ASSUME TypeInv, VersionsStay, RequestsStay, jobs' = jobs
  PROVE  jobs' \in [Clients -> Job] /\ JobsHold'
<1>1. ASSUME NEW d \in Clients PROVE JobHolds(jobs[d])'
  <2>1. jobs'[d] = jobs[d] /\ jobs[d] \in Job /\ JobHolds(jobs[d])
    BY DEF TypeInv, PromotionTypeOK, JobsHold
  <2>2. jobs[d].targets \subseteq Versions /\ jobs[d].superseded \subseteq Requests
    BY <2>1 DEF Job
  <2> QED BY <2>1, <2>2 DEF JobHolds, VersionsStay, RequestsStay
<1> QED BY <1>1 DEF JobsHold, TypeInv, PromotionTypeOK

\* A step that keeps the rows and no pointer keeps the pointers good.
LEMMA NoPointerMoves ==
  ASSUME TypeInv, VersionsStay, secrets' = secrets
  PROVE  secrets' \in [Secrets -> Secret] /\ CurrentExists'
<1>1. ASSUME NEW s \in Secrets, secrets[s].current # None
      PROVE  versions'[secrets[s].current] # None
  <2>1. secrets[s].current \in Versions
    BY <1>1 DEF TypeInv, PromotionTypeOK, Secret
  <2> QED BY <1>1, <2>1 DEF TypeInv, CurrentExists, VersionsStay
<1> QED BY <1>1 DEF CurrentExists, TypeInv, PromotionTypeOK

\* Unchanged rows are kept.
LEMMA SameVersions == ASSUME TypeInv, versions' = versions PROVE VersionsStay
BY DEF TypeInv, PromotionTypeOK, VersionsStay

LEMMA SameRequests == ASSUME TypeInv, requests' = requests PROVE RequestsStay
BY DEF TypeInv, PromotionTypeOK, RequestsStay

\* Only versions can be drafts, and rows are not absent.
LEMMA RowsExist == \A row \in Version \cup Request : row # None
BY RowAssumption

\* A job at the end of its call.
LEMMA JobEnds ==
  ASSUME TypeInv, VersionsStay, RequestsStay, NEW c \in Clients, jobs' = [jobs EXCEPT ![c] = Idle]
  PROVE  jobs' \in [Clients -> Job] /\ JobsHold'
<1>1. jobs'[c] = Idle
  BY DEF TypeInv, PromotionTypeOK
<1>2. jobs'[c] \in Job /\ JobHolds(jobs[c])'
  BY <1>1, IdleJob DEF JobHolds, Idle
<1> QED BY <1>1, <1>2, OneJobMoves

\* Every step keeps the types, the rows that a job refers to, and the rows that
\* the secrets point at.
LEMMA TypeStep ==
  ASSUME TypeInv, [Next]_vars
  PROVE  TypeInv' /\ VersionsStay /\ RequestsStay
<1> USE DEF TypeInv, PromotionTypeOK
<1>a. ASSUME VersionsStay, RequestsStay, jobs' \in [Clients -> Job] /\ JobsHold',
             secrets' \in [Secrets -> Secret] /\ CurrentExists', delivery' \in Nat
      PROVE  TypeInv' /\ VersionsStay /\ RequestsStay
  BY <1>a DEF VersionsStay, RequestsStay
<1>b. ASSUME VersionsStay, RequestsStay, UNCHANGED <<secrets, delivery, jobs>>
      PROVE  TypeInv' /\ VersionsStay /\ RequestsStay
  BY <1>a, <1>b, NoJobMoves, NoPointerMoves
<1>c. ASSUME NEW c \in Clients, jobs' = [jobs EXCEPT ![c] = jobs'[c]],
             jobs'[c] \in Job, JobHolds(jobs[c])',
             UNCHANGED <<secrets, versions, requests, delivery>>
      PROVE  TypeInv' /\ VersionsStay /\ RequestsStay
  BY <1>a, <1>c, SameVersions, SameRequests, OneJobMoves, NoPointerMoves
<1>1. CASE ChangeDelivery
  BY <1>1, <1>a, SameVersions, SameRequests, NoJobMoves, NoPointerMoves DEF ChangeDelivery
<1>2. ASSUME NEW v \in Versions, Discard(v)
      PROVE  TypeInv' /\ VersionsStay /\ RequestsStay
  <2>1. VersionsStay
    BY <1>2, VersionRows, RowsExist DEF Discard, IsDraft, VersionsStay
  <2>2. RequestsStay
    BY <1>2, RequestRows, RowsExist DEF Discard, ClosedBy, RequestsStay, Statuses
  <2> QED BY <1>2, <1>b, <2>1, <2>2 DEF Discard
<1>3. ASSUME NEW v \in Versions, NEW s \in Secrets, WriteDraft(v, s)
      PROVE  TypeInv' /\ VersionsStay /\ RequestsStay
  <2>1. [secret |-> s, number |-> NextNumber(s), state |-> "draft"] \in Version
    BY NextNumberIsNext DEF Version
  <2>2. VersionsStay
    BY <1>3, <2>1, RowsExist DEF WriteDraft, VersionsStay
  <2> QED BY <1>3, <1>b, <2>2, SameRequests DEF WriteDraft
<1>4. ASSUME NEW v \in Versions, NEW s \in Secrets, WriteLive(v, s)
      PROVE  TypeInv' /\ VersionsStay /\ RequestsStay
  <2>1. [secret |-> s, number |-> NextNumber(s), state |-> "live"] \in Version
    BY NextNumberIsNext DEF Version
  <2>2. secrets[s].current \in Versions => versions[secrets[s].current] \in Version
    BY PromotionAssumption DEF CurrentExists, Secret
  <2>3. VersionsStay
    BY <1>4, <2>1, <2>2, VersionRows, RowsExist DEF WriteLive, VersionsStay
  <2>4. secrets' \in [Secrets -> Secret]
    BY <1>4, NextNumberIsNext DEF WriteLive, LiveSecret, Secret
  <2>5. ASSUME NEW z \in Secrets, secrets'[z].current # None
        PROVE  versions'[secrets'[z].current] # None
    <3>1. CASE z = s
      BY <1>4, <2>1, <3>1, RowsExist DEF WriteLive, LiveSecret
    <3>2. CASE z # s
      <4>1. secrets'[z] = secrets[z]
        BY <1>4, <3>2 DEF WriteLive
      <4>2. secrets[z].current \in Versions
        BY <2>5, <4>1 DEF Secret
      <4> QED BY <2>3, <2>5, <4>1, <4>2 DEF CurrentExists, VersionsStay
    <3> QED BY <3>1, <3>2
  <2> QED BY <1>4, <1>a, <2>3, <2>4, <2>5, SameRequests, NoJobMoves DEF WriteLive, CurrentExists
<1>5. ASSUME NEW v \in Versions, NEW source \in Versions, CopyAsDraft(v, source)
      PROVE  TypeInv' /\ VersionsStay /\ RequestsStay
  <2>1. Copied(versions[source].secret) \in Version
    BY <1>5, CopiedRow DEF CopyAsDraft, Copyable, Version
  <2>2. VersionsStay
    BY <1>5, <2>1, RowsExist DEF CopyAsDraft, VersionsStay
  <2> QED BY <1>5, <1>b, <2>2, SameRequests DEF CopyAsDraft
<1>6. ASSUME NEW q \in Requests, Decline(q)
      PROVE  TypeInv' /\ VersionsStay /\ RequestsStay
  <2>1. RequestsStay
    BY <1>6, RequestRows, RowsExist DEF Decline, RequestsStay, Statuses
  <2> QED BY <1>6, <1>b, <2>1, SameVersions DEF Decline
<1>7. ASSUME NEW c \in Clients, SelectPending(c)
      PROVE  TypeInv' /\ VersionsStay /\ RequestsStay
  <2>1. /\ jobs' = [jobs EXCEPT ![c] = jobs'[c]]
        /\ jobs'[c] = [jobs[c] EXCEPT !.phase = "superseding", !.superseded = PendingPromotions]
    BY <1>7 DEF SelectPending
  <2>2. jobs[c] \in Job /\ jobs[c].phase = "promoting" /\ JobHolds(jobs[c])
    BY <1>7 DEF SelectPending, In, JobsHold
  <2>3. PendingPromotions \subseteq Requests /\ \A q \in PendingPromotions : requests'[q] # None
    BY <1>7 DEF PendingPromotions, SelectPending
  <2>4. jobs'[c] \in Job
    BY <2>1, <2>2, <2>3 DEF Job, Phases
  <2>5. JobHolds(jobs[c])'
    BY <2>1, <2>2, <2>3 DEF Job, JobHolds
  <2> QED BY <1>7, <1>c, <2>1, <2>4, <2>5 DEF SelectPending
<1>8. ASSUME NEW c \in Clients, BeginPublish(c)
      PROVE  TypeInv' /\ VersionsStay /\ RequestsStay
  <2>1. jobs' = [jobs EXCEPT ![c] = jobs'[c]] /\ jobs'[c] = [jobs[c] EXCEPT !.phase = "publishing"]
    BY <1>8 DEF BeginPublish
  <2>2. jobs'[c] \in Job /\ JobHolds(jobs[c])'
    BY <1>8, <2>1 DEF BeginPublish, Job, JobHolds, JobsHold, In, Phases, IsDraft
  <2> QED BY <1>8, <1>c, <2>1, <2>2 DEF BeginPublish
<1>9. ASSUME NEW c \in Clients, CommitPublish(c)
      PROVE  TypeInv' /\ VersionsStay /\ RequestsStay
  <2> DEFINE targets == jobs[c].targets
             q == jobs[c].request
  <2>1. targets \subseteq Versions /\ q \in Requests /\ versions \in [Versions -> Version \cup {None}]
        /\ requests[q] \in Request /\ \A v \in targets : versions[v] \in Version
    BY <1>9 DEF CommitPublish, In, JobsHold, JobHolds, Job
  <2>2. \A w \in targets : secrets[versions[w].secret].current \in Versions =>
          versions[secrets[versions[w].secret].current] \in Version
    BY <2>1, PromotionAssumption DEF Version, CurrentExists, Secret
  <2>3. VersionsStay
    <3>1. ASSUME NEW v \in Versions
          PROVE  /\ versions'[v] \in Version \cup {None}
                 /\ versions[v] # None => versions'[v] # None
      <4>1. CASE v \in targets
        BY <1>9, <2>1, <4>1, VersionRows, RowsExist DEF CommitPublish
      <4>2. CASE v \notin targets /\ \E w \in targets : secrets[versions[w].secret].current = v
        <5>1. versions[v] \in Version
          BY <2>2, <4>2
        <5>2. versions'[v] = Retained(versions[v])
          BY <1>9, <4>2 DEF CommitPublish
        <5> QED BY <5>1, <5>2, VersionRows, RowsExist
      <4>3. CASE v \notin targets /\ ~\E w \in targets : secrets[versions[w].secret].current = v
        BY <1>9, <4>3 DEF CommitPublish
      <4> QED BY <4>1, <4>2, <4>3
    <3> QED BY <1>9, <3>1 DEF CommitPublish, VersionsStay
  <2>4. RequestsStay
    BY <1>9, <2>1, RequestRows, RowsExist DEF CommitPublish, RequestsStay, Statuses
  <2>5. ASSUME NEW s \in Secrets
        PROVE  /\ secrets'[s] \in Secret
               /\ secrets'[s].current # None => versions'[secrets'[s].current] # None
    <3>1. CASE \E v \in targets : versions[v].secret = s
      <4> DEFINE v == CHOOSE w \in targets : versions[w].secret = s
      <4>1. v \in targets
        BY <3>1
      <4>2. secrets'[s] = LiveSecret(v, versions[v].number)
        BY <1>9, <3>1 DEF CommitPublish
      <4> HIDE DEF v
      <4>3. versions[v] \in Version /\ v \in Versions /\ versions[v] # None
        BY <2>1, <4>1, RowsExist
      <4> QED BY <2>3, <4>2, <4>3 DEF LiveSecret, Secret, Version, VersionsStay
    <3>2. CASE ~\E v \in targets : versions[v].secret = s
      <4>1. secrets'[s] = secrets[s]
        BY <1>9, <3>2 DEF CommitPublish
      <4> QED BY <2>3, <4>1 DEF CurrentExists, VersionsStay, Secret
    <3> QED BY <3>1, <3>2
  <2>6. secrets' \in [Secrets -> Secret] /\ CurrentExists'
    BY <1>9, <2>5 DEF CommitPublish, CurrentExists
  <2>7. jobs' \in [Clients -> Job] /\ JobsHold'
    BY <1>9, <2>3, <2>4, JobEnds DEF CommitPublish
  <2> QED BY <1>9, <1>a, <2>3, <2>4, <2>6, <2>7 DEF CommitPublish
<1>10. ASSUME NEW c \in Clients, Abandon(c)
       PROVE  TypeInv' /\ VersionsStay /\ RequestsStay
  BY <1>10, <1>a, SameVersions, SameRequests, JobEnds, NoPointerMoves DEF Abandon
<1>11. ASSUME NEW c \in Clients, NEW targets \in SUBSET Versions, BeginPromotion(c, targets)
       PROVE  TypeInv' /\ VersionsStay /\ RequestsStay
  <2>1. /\ jobs' = [jobs EXCEPT ![c] = jobs'[c]]
        /\ jobs'[c] = [Idle EXCEPT !.phase = "promoting", !.targets = targets,
                                   !.fingerprint = Fingerprint(targets)]
    BY <1>11 DEF BeginPromotion
  <2>2. Fingerprint(targets) \in Fingerprints
    BY FingerprintType
  <2>3. jobs'[c] \in Job /\ JobHolds(jobs[c])'
    BY <2>1, <2>2 DEF Idle, Job, JobHolds, Phases
  <2> QED BY <1>11, <1>c, <2>1, <2>3 DEF BeginPromotion
<1>12. ASSUME NEW c \in Clients, NEW v \in Versions, BeginRollback(c, v)
       PROVE  TypeInv' /\ VersionsStay /\ RequestsStay
  <2>1. /\ jobs' = [jobs EXCEPT ![c] = jobs'[c]]
        /\ jobs'[c] = [Idle EXCEPT !.phase = "rolling", !.targets = {v},
                                   !.fingerprint = Fingerprint({v})]
    BY <1>12 DEF BeginRollback
  <2>2. Fingerprint({v}) \in Fingerprints /\ {v} \in SUBSET Versions
    BY FingerprintType
  <2>3. jobs'[c] \in Job /\ JobHolds(jobs[c])'
    <3> DEFINE vs == {v}
    <3> HIDE DEF vs
    <3>1. /\ jobs'[c] = [Idle EXCEPT !.phase = "rolling", !.targets = vs,
                                     !.fingerprint = Fingerprint(vs)]
          /\ Fingerprint(vs) \in Fingerprints /\ vs \in SUBSET Versions
      BY <2>1, <2>2 DEF vs
    <3> QED BY <3>1 DEF Idle, Job, JobHolds, Phases
  <2> QED BY <1>12, <1>c, <2>1, <2>3 DEF BeginRollback
<1>13. ASSUME NEW c \in Clients, NEW q \in Requests, BeginApproval(c, q)
       PROVE  TypeInv' /\ VersionsStay /\ RequestsStay
  <2>1. /\ jobs' = [jobs EXCEPT ![c] = jobs'[c]]
        /\ jobs'[c] = [Idle EXCEPT !.phase = "approving", !.request = q,
                                   !.targets = requests[q].targets]
    BY <1>13 DEF BeginApproval
  <2>2. jobs'[c] \in Job /\ JobHolds(jobs[c])'
    BY <1>13, <2>1 DEF BeginApproval, Idle, Job, JobHolds, Phases, Request
  <2> QED BY <1>13, <1>c, <2>1, <2>2 DEF BeginApproval
<1>14. ASSUME NEW c \in Clients, NEW q \in Requests, CommitPromotion(c, q)
       PROVE  TypeInv' /\ VersionsStay /\ RequestsStay
  <2>1. [purpose |-> "protected_promotion", status |-> "pending", targets |-> jobs[c].targets,
         fingerprint |-> jobs[c].fingerprint] \in Request
    BY <1>14 DEF CommitPromotion, In, JobsHold, JobHolds, Job, Request, Purposes, Statuses
  <2>2. \A p \in jobs[c].superseded : p \in Requests /\ requests[p] \in Request
    BY DEF JobsHold, JobHolds, Job
  <2>3. RequestsStay
    BY <1>14, <2>1, <2>2, RequestRows, RowsExist DEF CommitPromotion, RequestsStay, Statuses
  <2> QED BY <1>14, <1>a, <2>3, SameVersions, JobEnds, NoPointerMoves DEF CommitPromotion
<1>15. ASSUME NEW c \in Clients, NEW v \in Versions, NEW source \in Versions, NEW q \in Requests,
              CommitRollback(c, v, source, q)
       PROVE  TypeInv' /\ VersionsStay /\ RequestsStay
  <2>1. [purpose |-> "protected_rollback", status |-> "pending", targets |-> jobs[c].targets,
         fingerprint |-> jobs[c].fingerprint] \in Request
    BY <1>15 DEF CommitRollback, In, JobsHold, JobHolds, Job, Request, Purposes, Statuses
  <2>2. RequestsStay
    BY <1>15, <2>1, RowsExist DEF CommitRollback, RequestsStay
  <2>3. Copied(versions[source].secret) \in Version
    BY <1>15, CopiedRow DEF CommitRollback, Copyable, Version
  <2>4. VersionsStay
    BY <1>15, <2>3, RowsExist DEF CommitRollback, VersionsStay
  <2> QED BY <1>15, <1>a, <2>2, <2>4, JobEnds, NoPointerMoves DEF CommitRollback
<1>16. CASE UNCHANGED vars
  BY <1>16, <1>b, SameVersions, SameRequests DEF vars
<1> QED
  BY <1>1, <1>2, <1>3, <1>4, <1>5, <1>6, <1>7, <1>8, <1>9, <1>10, <1>11, <1>12, <1>13, <1>14,
     <1>15, <1>16 DEF Next

\* Nothing exists at first.
LEMMA TypeStart == Init => TypeInv
BY IdleJob DEF Init, TypeInv, PromotionTypeOK, Secret, JobsHold, CurrentExists

\* The types, as an invariant of the specification.
LEMMA TypeInvariant == Spec => []TypeInv
BY TypeStart, TypeStep, PTL DEF Spec

\* Secrets, versions, requests and jobs keep the shape the schema and the code give
\* them: every row a job or a secret refers to is there when it is written.
THEOREM PromotionTypeCorrect == Spec => []PromotionTypeOK
BY TypeInvariant, PTL DEF TypeInv

-----------------------------------------------------------------------------
(* Locks and pending promotions.                                           *)

\* The rows a supersede selected stay pending while it holds their locks, two
\* supersedes hold different rows, and there is one pending row at most.
LocksHold ==
  /\ \A c \in Clients : jobs[c].superseded \subseteq PendingPromotions
  /\ \A c, d \in Clients : c # d => jobs[c].superseded \cap jobs[d].superseded = {}

AtMostOnePending == \A p, q \in PendingPromotions : p = q

RequestInv == LocksHold /\ AtMostOnePending

\* A step that adds no pending promotion, takes no lock and leaves the locked rows
\* alone.
LEMMA LocksKept ==
  ASSUME RequestInv, TypeInv,
         PendingPromotions' \subseteq PendingPromotions,
         \A q \in LockedRequests : requests'[q] = requests[q],
         \A c \in Clients : jobs'[c].superseded \subseteq jobs[c].superseded
  PROVE  RequestInv'
<1>1. ASSUME NEW c \in Clients PROVE jobs'[c].superseded \subseteq PendingPromotions'
  BY DEF RequestInv, LocksHold, LockedRequests, PendingPromotions
<1> QED BY <1>1 DEF RequestInv, LocksHold, AtMostOnePending

\* A step that leaves the requests alone and gives back locks, or nothing.
LEMMA RequestsAlone ==
  ASSUME RequestInv, TypeInv, requests' = requests,
         \A c \in Clients : jobs'[c].superseded \subseteq jobs[c].superseded
  PROVE  RequestInv'
<1>1. PendingPromotions' = PendingPromotions
  BY DEF PendingPromotions
<1> QED BY <1>1, LocksKept

\* Every step keeps at most one promotion pending, and keeps what was decided.
LEMMA RequestStep ==
  ASSUME TypeInv, RequestInv, [Next]_vars
  PROVE  /\ RequestInv'
         /\ \A p \in Requests : requests[p] # None /\ requests[p].status # "pending"
                                  => requests'[p] = requests[p]
<1> DEFINE Final == \A p \in Requests : requests[p] # None /\ requests[p].status # "pending"
                                          => requests'[p] = requests[p]
<1> USE DEF TypeInv, PromotionTypeOK
<1>a. ASSUME requests' = requests, \A d \in Clients : jobs'[d].superseded \subseteq jobs[d].superseded
      PROVE  RequestInv' /\ Final
  BY <1>a, RequestsAlone
<1>b. ASSUME requests' = requests, jobs' = jobs
      PROVE  RequestInv' /\ Final
  BY <1>a, <1>b
<1>c. \A q \in Requests : requests[q] # None => requests[q] \in Request /\ requests[q].status \in Statuses
  BY DEF Request
<1>1. CASE ChangeDelivery
  BY <1>1, <1>b DEF ChangeDelivery
<1>2. ASSUME NEW v \in Versions, Discard(v)
      PROVE  RequestInv' /\ Final
  <2>1. PendingPromotions' \subseteq PendingPromotions
    BY <1>2, <1>c, RowsExist, RequestRows DEF Discard, ClosedBy, PendingPromotions, Request
  <2>2. \A q \in LockedRequests : requests'[q] = requests[q]
    BY <1>2 DEF Discard, LockedRequests, Job
  <2>3. Final
    BY <1>2 DEF Discard, ClosedBy, StillPending
  <2> QED BY <1>2, <2>1, <2>2, <2>3, LocksKept DEF Discard
<1>3. ASSUME NEW v \in Versions, NEW s \in Secrets, WriteDraft(v, s)
      PROVE  RequestInv' /\ Final
  BY <1>3, <1>b DEF WriteDraft
<1>4. ASSUME NEW v \in Versions, NEW s \in Secrets, WriteLive(v, s)
      PROVE  RequestInv' /\ Final
  BY <1>4, <1>b DEF WriteLive
<1>5. ASSUME NEW v \in Versions, NEW source \in Versions, CopyAsDraft(v, source)
      PROVE  RequestInv' /\ Final
  BY <1>5, <1>b DEF CopyAsDraft
<1>6. ASSUME NEW q \in Requests, Decline(q)
      PROVE  RequestInv' /\ Final
  <2>1. PendingPromotions' \subseteq PendingPromotions
    BY <1>6, <1>c DEF Decline, PendingPromotions, Request
  <2>2. \A p \in LockedRequests : requests'[p] = requests[p]
    BY <1>6 DEF Decline
  <2>3. Final
    BY <1>6 DEF Decline, StillPending
  <2> QED BY <1>6, <2>1, <2>2, <2>3, LocksKept DEF Decline
<1>7. ASSUME NEW c \in Clients, SelectPending(c)
      PROVE  RequestInv' /\ Final
  <2>1. requests' = requests /\ PendingPromotions' = PendingPromotions
    BY <1>7 DEF SelectPending, PendingPromotions
  <2>2. \A d \in Clients : jobs'[d].superseded = IF d = c THEN PendingPromotions ELSE jobs[d].superseded
    BY <1>7 DEF SelectPending, Job
  <2>3. \A d \in Clients : jobs[d].superseded \cap PendingPromotions = {}
    BY <1>7 DEF SelectPending, LockedRequests
  <2> QED BY <2>1, <2>2, <2>3 DEF RequestInv, LocksHold, AtMostOnePending
<1>8. ASSUME NEW c \in Clients, BeginPublish(c)
      PROVE  RequestInv' /\ Final
  BY <1>8, <1>a DEF BeginPublish, Job
<1>9. ASSUME NEW c \in Clients, CommitPublish(c)
      PROVE  RequestInv' /\ Final
  <2> DEFINE q == jobs[c].request
  <2>1. q \in Requests /\ requests[q] \in Request /\ requests[q].status = "pending"
    BY <1>9, <1>c DEF CommitPublish, In, JobsHold, JobHolds, StillPending
  <2>2. requests' = [requests EXCEPT ![q].status = "approved_applied"] /\ q \notin LockedRequests
    BY <1>9 DEF CommitPublish
  <2>3. jobs' = [jobs EXCEPT ![c] = Idle]
    BY <1>9 DEF CommitPublish
  <2> HIDE DEF q
  <2>4. PendingPromotions' \subseteq PendingPromotions
    BY <2>1, <2>2, <1>c DEF PendingPromotions, Request
  <2>5. \A p \in LockedRequests : requests'[p] = requests[p]
    BY <2>2
  <2>6. Final
    BY <2>1, <2>2
  <2>7. \A d \in Clients : jobs'[d].superseded \subseteq jobs[d].superseded
    BY <2>3 DEF Idle
  <2> QED BY <2>4, <2>5, <2>6, <2>7, LocksKept
<1>10. ASSUME NEW c \in Clients, Abandon(c)
       PROVE  RequestInv' /\ Final
  BY <1>10, <1>a DEF Abandon, Idle
<1>11. ASSUME NEW c \in Clients, NEW targets \in SUBSET Versions, BeginPromotion(c, targets)
       PROVE  RequestInv' /\ Final
  BY <1>11, <1>a DEF BeginPromotion, Idle
<1>12. ASSUME NEW c \in Clients, NEW v \in Versions, BeginRollback(c, v)
       PROVE  RequestInv' /\ Final
  BY <1>12, <1>a DEF BeginRollback, Idle
<1>13. ASSUME NEW c \in Clients, NEW q \in Requests, BeginApproval(c, q)
       PROVE  RequestInv' /\ Final
  BY <1>13, <1>a DEF BeginApproval, Idle
<1>14. ASSUME NEW c \in Clients, NEW q \in Requests, CommitPromotion(c, q)
       PROVE  RequestInv' /\ Final
  <2>1. jobs[c].superseded = PendingPromotions
    BY <1>14 DEF CommitPromotion, IndexAdmits, RequestInv, LocksHold
  <2>2. Final
    BY <1>14, <2>1 DEF CommitPromotion, PendingPromotions
  <2>3. PendingPromotions' \subseteq {q}
    <3> SUFFICES ASSUME NEW p \in Requests, p # q, p \in PendingPromotions' PROVE FALSE
      BY DEF PendingPromotions
    <3>1. CASE p \in PendingPromotions
      <4>1. requests'[p] = [requests[p] EXCEPT !.status = "superseded"] /\ requests[p] \in Request
        BY <1>14, <1>c, <2>1, <3>1 DEF CommitPromotion, PendingPromotions
      <4> QED BY <4>1 DEF PendingPromotions, Request
    <3>2. CASE p \notin PendingPromotions
      <4>1. requests'[p] = requests[p]
        BY <1>14, <2>1, <3>2 DEF CommitPromotion
      <4> QED BY <3>2, <4>1 DEF PendingPromotions
    <3> QED BY <3>1, <3>2
  <2>4. \A d \in Clients : jobs'[d].superseded = {}
    BY <1>14, <2>1 DEF CommitPromotion, RequestInv, LocksHold, Idle
  <2> QED BY <2>2, <2>3, <2>4 DEF RequestInv, LocksHold, AtMostOnePending
<1>15. ASSUME NEW c \in Clients, NEW v \in Versions, NEW source \in Versions, NEW q \in Requests,
              CommitRollback(c, v, source, q)
       PROVE  RequestInv' /\ Final
  <2>1. requests[q] = None /\ requests' = [requests EXCEPT ![q] =
            [purpose |-> "protected_rollback", status |-> "pending", targets |-> jobs[c].targets,
             fingerprint |-> jobs[c].fingerprint]]
    BY <1>15 DEF CommitRollback
  <2>2. PendingPromotions' \subseteq PendingPromotions
    BY <2>1 DEF PendingPromotions
  <2>3. \A p \in LockedRequests : requests'[p] = requests[p]
    BY <2>1 DEF LockedRequests, RequestInv, LocksHold, PendingPromotions
  <2>4. Final
    BY <2>1
  <2>5. \A d \in Clients : jobs'[d].superseded \subseteq jobs[d].superseded
    BY <1>15 DEF CommitRollback, Idle
  <2> QED BY <2>2, <2>3, <2>4, <2>5, LocksKept
<1>16. CASE UNCHANGED vars
  BY <1>16, <1>b DEF vars
<1> QED
  BY <1>1, <1>2, <1>3, <1>4, <1>5, <1>6, <1>7, <1>8, <1>9, <1>10, <1>11, <1>12, <1>13, <1>14,
     <1>15, <1>16 DEF Next

\* No request and no lock at first.
LEMMA RequestStart == Init => RequestInv
BY DEF Init, Idle, RequestInv, LocksHold, AtMostOnePending, PendingPromotions

LEMMA RequestInvariant == Spec => [](TypeInv /\ RequestInv)
BY TypeStart, TypeStep, RequestStart, RequestStep, PTL DEF Spec

\* However many requests for a promotion run side by side, and whatever they
\* supersede, one at most is pending.
THEOREM OnlyOnePending == Spec => []OnePendingPromotion
<1>1. RequestInv => OnePendingPromotion
  <2> SUFFICES ASSUME RequestInv PROVE Cardinality(PendingPromotions) <= 1
    BY DEF OnePendingPromotion
  <2>1. CASE PendingPromotions = {}
    BY <2>1, FS_EmptySet
  <2>2. CASE PendingPromotions # {}
    <3>1. PICK q \in PendingPromotions : TRUE
      BY <2>2
    <3>2. PendingPromotions = {q}
      BY <3>1 DEF RequestInv, AtMostOnePending
    <3>3. Cardinality({q}) = 1
      BY FS_Singleton
    <3> QED BY <3>2, <3>3
  <2> QED BY <2>1, <2>2
<1> QED BY <1>1, RequestInvariant, PTL

\* No approval, rejection, supersede or discard changes a request that another one
\* decided.
THEOREM DecisionsAreFinal == Spec => DecidedIsFinal
<1>1. TypeInv /\ RequestInv /\ [Next]_vars
        => \A q \in Requests :
             requests[q] # None /\ requests[q].status # "pending" => requests'[q] = requests[q]
  BY RequestStep
<1> QED BY <1>1, RequestInvariant, PTL DEF Spec, DecidedIsFinal

-----------------------------------------------------------------------------
(* What a job and a request name.                                          *)

\* A version keeps its secret and its number, and a request its change set.
IdentityStays ==
  \A v \in Versions : versions[v] # None =>
    versions'[v].secret = versions[v].secret /\ versions'[v].number = versions[v].number

ScopeStays == \A q \in Requests : requests[q] # None => requests'[q].targets = requests[q].targets

\* What a request is about exists.
TargetsExist == \A q \in Requests : requests[q] # None => \A v \in requests[q].targets : versions[v] # None

\* A rollback owns the ID of its copy, a promotion names versions that exist, and
\* an approval names what its request names.
NamesTargets(c) ==
  /\ In(c, "rolling") => /\ \A v \in jobs[c].targets : versions[v] = None
                         /\ \A v, w \in jobs[c].targets : v = w
  /\ In(c, "promoting") \/ In(c, "superseding") => \A v \in jobs[c].targets : versions[v] # None
  /\ In(c, "approving") \/ In(c, "publishing") => jobs[c].targets = requests[jobs[c].request].targets

RollbacksApart ==
  \A c, d \in Clients : c # d /\ In(c, "rolling") /\ In(d, "rolling")
                          => jobs[c].targets \cap jobs[d].targets = {}

TargetsInv == TargetsExist /\ (\A c \in Clients : NamesTargets(c)) /\ RollbacksApart

\* A step that moves at most one client, and creates no version that another
\* client's rollback named.
LEMMA TargetsKept ==
  ASSUME TypeInv, TargetsInv, VersionsStay, RequestsStay, ScopeStays,
         NEW c \in Clients, NamesTargets(c)',
         \A d \in Clients \ {c} : jobs'[d] = jobs[d],
         \A d \in Clients \ {c} : In(d, "rolling") =>
           /\ \A v \in jobs[d].targets : versions'[v] = None
           /\ jobs'[c].phase = "rolling" => jobs'[c].targets \cap jobs[d].targets = {},
         \A q \in Requests : requests[q] = None /\ requests'[q] # None
           => \A v \in requests'[q].targets : versions'[v] # None
  PROVE  TargetsInv'
<1>1. TargetsExist'
  <2> SUFFICES ASSUME NEW q \in Requests, requests'[q] # None, NEW v \in requests'[q].targets
               PROVE  versions'[v] # None
    BY DEF TargetsExist
  <2>1. CASE requests[q] # None
    <3>1. v \in requests[q].targets /\ versions[v] # None
      BY <2>1 DEF ScopeStays, TargetsInv, TargetsExist
    <3>2. requests[q].targets \subseteq Versions
      BY <2>1 DEF TypeInv, PromotionTypeOK, Request
    <3> QED BY <3>1, <3>2 DEF VersionsStay
  <2> QED BY <2>1
<1>2. ASSUME NEW d \in Clients \ {c} PROVE NamesTargets(d)'
  <2>1. jobs[d] \in Job /\ JobHolds(jobs[d]) /\ NamesTargets(d) /\ jobs[d].targets \subseteq Versions
    BY DEF TypeInv, PromotionTypeOK, JobsHold, TargetsInv, Job
  <2> QED BY <2>1 DEF NamesTargets, In, JobHolds, VersionsStay, ScopeStays
<1>3. RollbacksApart'
  BY DEF TargetsInv, RollbacksApart, In
<1> QED BY <1>1, <1>2, <1>3 DEF TargetsInv

\* A step that moves no client and creates neither a request nor a version that a
\* job names.
LEMMA NamesKept ==
  ASSUME TypeInv, TargetsInv, VersionsStay, RequestsStay, ScopeStays, jobs' = jobs,
         \A d \in Clients : In(d, "rolling") => \A v \in jobs[d].targets : versions'[v] = None,
         \A q \in Requests : requests[q] = None => requests'[q] = None
  PROVE  TargetsInv'
<1>1. TargetsExist'
  <2> SUFFICES ASSUME NEW q \in Requests, requests'[q] # None, NEW v \in requests'[q].targets
               PROVE  versions'[v] # None
    BY DEF TargetsExist
  <2>1. v \in requests[q].targets /\ versions[v] # None
    BY DEF ScopeStays, TargetsInv, TargetsExist
  <2>2. requests[q].targets \subseteq Versions
    BY DEF TypeInv, PromotionTypeOK, Request
  <2> QED BY <2>1, <2>2 DEF VersionsStay
<1>2. ASSUME NEW d \in Clients PROVE NamesTargets(d)'
  <2>1. jobs[d] \in Job /\ JobHolds(jobs[d]) /\ NamesTargets(d) /\ jobs[d].targets \subseteq Versions
    BY DEF TypeInv, PromotionTypeOK, JobsHold, TargetsInv, Job
  <2> QED BY <2>1 DEF NamesTargets, In, JobHolds, VersionsStay, ScopeStays
<1>3. RollbacksApart'
  BY DEF TargetsInv, RollbacksApart, In
<1> QED BY <1>1, <1>2, <1>3 DEF TargetsInv

\* A version whose ID nobody uses is not there, and no job names it.
LEMMA UnusedId ==
  ASSUME NEW v \in Versions, v \notin UsedIds
  PROVE  versions[v] = None /\ \A d \in Clients : v \notin jobs[d].targets
BY DEF UsedIds

\* Every step keeps what is named, and every row its identity.
LEMMA TargetsStep ==
  ASSUME TypeInv, TargetsInv, [Next]_vars
  PROVE  TargetsInv' /\ IdentityStays /\ ScopeStays
<1>t. VersionsStay /\ RequestsStay
  BY TypeStep
<1> USE DEF TypeInv, PromotionTypeOK
<1>a. ASSUME versions' = versions, requests' = requests
      PROVE  IdentityStays /\ ScopeStays
  BY <1>a DEF IdentityStays, ScopeStays
<1>b. ASSUME versions' = versions, requests' = requests, jobs' = jobs
      PROVE  TargetsInv' /\ IdentityStays /\ ScopeStays
  BY <1>a, <1>b, <1>t, NamesKept DEF TargetsInv, NamesTargets
<1>c. ASSUME versions' = versions, requests' = requests, NEW c \in Clients, NamesTargets(c)',
             \A d \in Clients \ {c} : jobs'[d] = jobs[d],
             jobs'[c].phase = "rolling" =>
               \A d \in Clients \ {c} : jobs'[c].targets \cap jobs[d].targets = {}
      PROVE  TargetsInv' /\ IdentityStays /\ ScopeStays
  BY <1>a, <1>c, <1>t, TargetsKept DEF TargetsInv, NamesTargets
<1>d. ASSUME NEW c \in Clients, jobs' = [jobs EXCEPT ![c] = Idle]
      PROVE  NamesTargets(c)' /\ jobs'[c].phase # "rolling" /\ \A d \in Clients \ {c} : jobs'[d] = jobs[d]
  BY <1>d DEF NamesTargets, In, Idle
<1>e. \A w \in Versions : versions[w] # None => versions[w] \in Version
  OBVIOUS
<1>1. CASE ChangeDelivery
  BY <1>1, <1>b DEF ChangeDelivery
<1>2. ASSUME NEW v \in Versions, Discard(v)
      PROVE  TargetsInv' /\ IdentityStays /\ ScopeStays
  <2>1. IdentityStays
    BY <1>2, <1>e DEF Discard, IsDraft, Discarded, IdentityStays, Version
  <2>2. ScopeStays
    BY <1>2 DEF Discard, ScopeStays, Request
  <2>3. /\ \A w \in Versions : versions[w] = None => versions'[w] = None
        /\ \A q \in Requests : requests[q] = None => requests'[q] = None
    BY <1>2 DEF Discard, IsDraft, ClosedBy
  <2> QED BY <1>2, <1>t, <2>1, <2>2, <2>3, NamesKept DEF Discard, TargetsInv, NamesTargets, Job
<1>3. ASSUME NEW v \in Versions, NEW s \in Secrets, WriteDraft(v, s)
      PROVE  TargetsInv' /\ IdentityStays /\ ScopeStays
  <2>1. versions[v] = None /\ \A d \in Clients : v \notin jobs[d].targets
    BY <1>3, UnusedId DEF WriteDraft
  <2>2. IdentityStays /\ ScopeStays
    BY <1>3, <2>1 DEF WriteDraft, IdentityStays, ScopeStays
  <2>3. \A d \in Clients : In(d, "rolling") => \A w \in jobs[d].targets : versions'[w] = None
    BY <1>3, <2>1 DEF WriteDraft, TargetsInv, NamesTargets, Job
  <2> QED BY <1>3, <1>t, <2>2, <2>3, NamesKept DEF WriteDraft
<1>4. ASSUME NEW v \in Versions, NEW s \in Secrets, WriteLive(v, s)
      PROVE  TargetsInv' /\ IdentityStays /\ ScopeStays
  <2>1. versions[v] = None /\ \A d \in Clients : v \notin jobs[d].targets
    BY <1>4, UnusedId DEF WriteLive
  <2>2. \A w \in Versions \ {v} : versions'[w] = versions[w] \/ versions'[w] = Retained(versions[w])
    BY <1>4 DEF WriteLive
  <2>3. secrets[s].current \in Versions => versions[secrets[s].current] # None
    BY PromotionAssumption DEF CurrentExists, Secret
  <2>4. \A w \in Versions \ {v} : versions[w] = None => versions'[w] = None
    BY <1>4, <2>3 DEF WriteLive
  <2>5. IdentityStays /\ ScopeStays
    BY <1>4, <1>e, <2>1, <2>2 DEF WriteLive, Retained, IdentityStays, ScopeStays, Version
  <2>6. \A d \in Clients : In(d, "rolling") => \A w \in jobs[d].targets : versions'[w] = None
    BY <2>1, <2>4 DEF TargetsInv, NamesTargets, Job
  <2> QED BY <1>4, <1>t, <2>5, <2>6, NamesKept DEF WriteLive
<1>5. ASSUME NEW v \in Versions, NEW source \in Versions, CopyAsDraft(v, source)
      PROVE  TargetsInv' /\ IdentityStays /\ ScopeStays
  <2>1. versions[v] = None /\ \A d \in Clients : v \notin jobs[d].targets
    BY <1>5, UnusedId DEF CopyAsDraft
  <2>2. IdentityStays /\ ScopeStays
    BY <1>5, <2>1 DEF CopyAsDraft, IdentityStays, ScopeStays
  <2>3. \A d \in Clients : In(d, "rolling") => \A w \in jobs[d].targets : versions'[w] = None
    BY <1>5, <2>1 DEF CopyAsDraft, TargetsInv, NamesTargets, Job
  <2> QED BY <1>5, <1>t, <2>2, <2>3, NamesKept DEF CopyAsDraft
<1>6. ASSUME NEW q \in Requests, Decline(q)
      PROVE  TargetsInv' /\ IdentityStays /\ ScopeStays
  <2>1. IdentityStays /\ ScopeStays
    BY <1>6 DEF Decline, IdentityStays, ScopeStays, Request
  <2> QED BY <1>6, <1>t, <2>1, NamesKept DEF Decline, TargetsInv, NamesTargets
<1>7. ASSUME NEW c \in Clients, SelectPending(c)
      PROVE  TargetsInv' /\ IdentityStays /\ ScopeStays
  <2>1. /\ jobs'[c].phase = "superseding" /\ jobs'[c].targets = jobs[c].targets
        /\ In(c, "promoting") /\ NamesTargets(c)
    BY <1>7 DEF SelectPending, Job, TargetsInv
  <2>2. NamesTargets(c)'
    BY <1>7, <2>1 DEF SelectPending, NamesTargets, In
  <2> QED BY <1>7, <1>c, <2>1, <2>2 DEF SelectPending
<1>8. ASSUME NEW c \in Clients, BeginPublish(c)
      PROVE  TargetsInv' /\ IdentityStays /\ ScopeStays
  <2>1. /\ jobs'[c].phase = "publishing" /\ jobs'[c].targets = jobs[c].targets
        /\ jobs'[c].request = jobs[c].request
        /\ In(c, "approving") /\ NamesTargets(c)
    BY <1>8 DEF BeginPublish, Job, TargetsInv
  <2>2. NamesTargets(c)'
    BY <1>8, <2>1 DEF BeginPublish, NamesTargets, In
  <2> QED BY <1>8, <1>c, <2>1, <2>2 DEF BeginPublish
<1>9. ASSUME NEW c \in Clients, CommitPublish(c)
      PROVE  TargetsInv' /\ IdentityStays /\ ScopeStays
  <2> DEFINE targets == jobs[c].targets
             q == jobs[c].request
  <2>1. /\ targets \subseteq Versions /\ q \in Requests /\ requests[q] # None
        /\ \A v \in targets : versions[v] # None
    BY <1>9 DEF CommitPublish, In, JobsHold, JobHolds, Job
  <2>2. \A w \in targets : secrets[versions[w].secret].current \in Versions =>
          versions[secrets[versions[w].secret].current] # None
    BY <1>e, <2>1, PromotionAssumption DEF Version, CurrentExists, Secret
  <2>3. \A v \in Versions : \/ versions'[v] = versions[v]
                            \/ versions[v] # None /\ versions'[v] \in {Promoted(versions[v]), Retained(versions[v])}
    BY <1>9, <2>1, <2>2 DEF CommitPublish
  <2>4. requests' = [requests EXCEPT ![q].status = "approved_applied"]
    BY <1>9 DEF CommitPublish
  <2> HIDE DEF q
  <2>5. IdentityStays
    <3> SUFFICES ASSUME NEW v \in Versions, versions[v] # None
                 PROVE  versions'[v].secret = versions[v].secret /\ versions'[v].number = versions[v].number
      BY DEF IdentityStays
    <3>1. versions[v] \in Version
      OBVIOUS
    <3> QED BY <2>3, <3>1 DEF Promoted, Retained, Version
  <2>6. ScopeStays
    BY <2>1, <2>4 DEF ScopeStays, Request
  <2>7. /\ \A v \in Versions : versions[v] = None => versions'[v] = None
        /\ \A p \in Requests : requests[p] = None => requests'[p] = None
    BY <2>1, <2>3, <2>4
  <2>8. \A d \in Clients : In(d, "rolling") => \A w \in jobs[d].targets : versions'[w] = None
    BY <2>7 DEF TargetsInv, NamesTargets, Job
  <2>9. jobs' = [jobs EXCEPT ![c] = Idle]
    BY <1>9 DEF CommitPublish
  <2> QED BY <1>d, <1>t, <2>5, <2>6, <2>7, <2>8, <2>9, TargetsKept
<1>10. ASSUME NEW c \in Clients, Abandon(c)
       PROVE  TargetsInv' /\ IdentityStays /\ ScopeStays
  BY <1>10, <1>c, <1>d DEF Abandon
<1>11. ASSUME NEW c \in Clients, NEW targets \in SUBSET Versions, BeginPromotion(c, targets)
       PROVE  TargetsInv' /\ IdentityStays /\ ScopeStays
  <2>1. jobs'[c].phase = "promoting" /\ jobs'[c].targets = targets /\ \A d \in Clients \ {c} : jobs'[d] = jobs[d]
    BY <1>11 DEF BeginPromotion, Idle
  <2>2. NamesTargets(c)'
    BY <1>11, <2>1 DEF BeginPromotion, NamesTargets, In, IsDraft
  <2> QED BY <1>11, <1>c, <2>1, <2>2 DEF BeginPromotion
<1>12. ASSUME NEW c \in Clients, NEW v \in Versions, BeginRollback(c, v)
       PROVE  TargetsInv' /\ IdentityStays /\ ScopeStays
  <2>1. jobs'[c].phase = "rolling" /\ jobs'[c].targets = {v} /\ \A d \in Clients \ {c} : jobs'[d] = jobs[d]
    BY <1>12 DEF BeginRollback, Idle
  <2>2. versions[v] = None /\ \A d \in Clients : v \notin jobs[d].targets
    BY <1>12, UnusedId DEF BeginRollback
  <2>3. NamesTargets(c)'
    BY <1>12, <2>1, <2>2 DEF BeginRollback, NamesTargets, In
  <2> QED BY <1>12, <1>c, <2>1, <2>2, <2>3 DEF BeginRollback
<1>13. ASSUME NEW c \in Clients, NEW q \in Requests, BeginApproval(c, q)
       PROVE  TargetsInv' /\ IdentityStays /\ ScopeStays
  <2>1. /\ jobs'[c].phase = "approving" /\ jobs'[c].targets = requests[q].targets /\ jobs'[c].request = q
        /\ \A d \in Clients \ {c} : jobs'[d] = jobs[d]
    BY <1>13 DEF BeginApproval, Idle
  <2>2. NamesTargets(c)'
    BY <1>13, <2>1 DEF BeginApproval, NamesTargets, In
  <2> QED BY <1>13, <1>c, <2>1, <2>2 DEF BeginApproval
<1>14. ASSUME NEW c \in Clients, NEW q \in Requests, CommitPromotion(c, q)
       PROVE  TargetsInv' /\ IdentityStays /\ ScopeStays
  <2>1. \A v \in jobs[c].targets : versions[v] # None
    BY <1>14 DEF CommitPromotion, TargetsInv, NamesTargets
  <2>2. IdentityStays /\ ScopeStays
    BY <1>14 DEF CommitPromotion, IdentityStays, ScopeStays, Request
  <2>3. \A p \in Requests : requests[p] = None /\ requests'[p] # None => requests'[p].targets = jobs[c].targets
    BY <1>14 DEF CommitPromotion, JobsHold, JobHolds
  <2>4. \A d \in Clients : In(d, "rolling") => \A w \in jobs[d].targets : versions'[w] = None
    BY <1>14 DEF CommitPromotion, TargetsInv, NamesTargets
  <2>5. jobs' = [jobs EXCEPT ![c] = Idle] /\ versions' = versions
    BY <1>14 DEF CommitPromotion
  <2> QED BY <1>d, <1>t, <2>1, <2>2, <2>3, <2>4, <2>5, TargetsKept
<1>15. ASSUME NEW c \in Clients, NEW v \in Versions, NEW source \in Versions, NEW q \in Requests,
              CommitRollback(c, v, source, q)
       PROVE  TargetsInv' /\ IdentityStays /\ ScopeStays
  <2>1. versions[v] = None /\ requests[q] = None /\ \A d \in Clients \ {c} : In(d, "rolling") => v \notin jobs[d].targets
    BY <1>15 DEF CommitRollback, TargetsInv, NamesTargets, RollbacksApart
  <2>2. IdentityStays /\ ScopeStays
    BY <1>15, <2>1 DEF CommitRollback, IdentityStays, ScopeStays
  <2>3. \A d \in Clients \ {c} : In(d, "rolling") => \A w \in jobs[d].targets : versions'[w] = None
    BY <1>15, <2>1 DEF CommitRollback, TargetsInv, NamesTargets, Job
  <2>4. jobs' = [jobs EXCEPT ![c] = Idle]
    BY <1>15 DEF CommitRollback
  <2>5. \A p \in Requests : requests[p] = None /\ requests'[p] # None
          => \A w \in requests'[p].targets : versions'[w] # None
    <3>1. Copied(versions[source].secret) # None
      BY <1>15, CopiedRow, RowsExist DEF CommitRollback, Copyable, Version
    <3>2. jobs[c].targets = {v}
      BY <1>15 DEF CommitRollback, TargetsInv, NamesTargets
    <3> QED BY <1>15, <3>1, <3>2 DEF CommitRollback
  <2> QED BY <1>d, <1>t, <2>2, <2>3, <2>4, <2>5, TargetsKept
<1>16. CASE UNCHANGED vars
  BY <1>16, <1>b DEF vars
<1> QED
  BY <1>1, <1>2, <1>3, <1>4, <1>5, <1>6, <1>7, <1>8, <1>9, <1>10, <1>11, <1>12, <1>13, <1>14,
     <1>15, <1>16 DEF Next

-----------------------------------------------------------------------------
(* What a publish holds between its read and its writes.                   *)

\* It publishes one version per secret, no other client publishes the same secret,
\* and its versions are drafts for as long as its request is pending: a discard
\* of one of them closes the request.
OnePerSecret(c) == \A v, w \in jobs[c].targets : versions[v].secret = versions[w].secret => v = w

PublishesApart(c, d) == \A v \in jobs[c].targets, w \in jobs[d].targets : versions[v].secret # versions[w].secret

DraftsStand(c) == StillPending(jobs[c].request) => \A v \in jobs[c].targets : IsDraft(v)

PublishInv ==
  \A c \in Clients : In(c, "publishing") =>
    /\ OnePerSecret(c)
    /\ \A d \in Clients : c # d /\ In(d, "publishing") => PublishesApart(c, d)
    /\ DraftsStand(c)

\* The invariants below stand on these.
BaseInv == TypeInv /\ RequestInv /\ TargetsInv

LEMMA BaseStep == BaseInv /\ [Next]_vars => BaseInv'
BY TypeStep, RequestStep, TargetsStep DEF BaseInv

LEMMA BaseStart == Init => BaseInv
BY TypeStart, RequestStart
DEF Init, BaseInv, TargetsInv, TargetsExist, NamesTargets, RollbacksApart, In, Idle

\* The drafts of an open publish are only touched by a discard, which closes its
\* request.
DraftsLeftAlone ==
  \A c \in Clients : In(c, "publishing") /\ StillPending(jobs[c].request)
                       /\ jobs'[c] = jobs[c] /\ StillPending(jobs[c].request)'
    => \A v \in jobs[c].targets : versions'[v] = versions[v]

\* What the targets of an open publish are.
LEMMA PublishTargets ==
  ASSUME BaseInv, NEW c \in Clients, In(c, "publishing")
  PROVE  /\ jobs[c].request \in Requests /\ requests[jobs[c].request] \in Request
         /\ jobs[c].targets \subseteq Versions
         /\ jobs[c].targets = requests[jobs[c].request].targets
         /\ \A v \in jobs[c].targets : versions[v] \in Version
BY DEF BaseInv, TypeInv, PromotionTypeOK, JobsHold, JobHolds, In, Job, TargetsInv, NamesTargets

LEMMA DraftsStep ==
  ASSUME BaseInv, PublishInv, CurrentIsLive, [Next]_vars
  PROVE  DraftsLeftAlone
<1> SUFFICES ASSUME NEW d \in Clients, In(d, "publishing"), StillPending(jobs[d].request),
                    jobs'[d] = jobs[d], StillPending(jobs[d].request)',
                    NEW t \in jobs[d].targets
             PROVE  versions'[t] = versions[t]
  BY DEF DraftsLeftAlone
<1> DEFINE r == jobs[d].request
<1>t. /\ r \in Requests /\ requests[r] \in Request /\ requests[r] # None
      /\ t \in Versions /\ t \in requests[r].targets /\ versions[t] \in Version /\ IsDraft(t)
  BY PublishTargets, RowsExist DEF PublishInv, DraftsStand
<1>p. requests[r].status = "pending" /\ requests'[r].status = "pending"
  BY DEF StillPending
<1> HIDE DEF r
<1>n. ASSUME NEW v \in Versions, versions[v] = None, NEW row, versions' = [versions EXCEPT ![v] = row]
      PROVE  versions'[t] = versions[t]
  BY <1>n, <1>t DEF IsDraft
<1> USE DEF BaseInv, TypeInv, PromotionTypeOK
<1>2. ASSUME NEW v \in Versions, Discard(v)
      PROVE  versions'[t] = versions[t]
  <2>1. t # v
    <3> SUFFICES ASSUME t = v PROVE FALSE
      OBVIOUS
    <3>1. r \in ClosedBy(v)
      BY <1>t, <1>p DEF ClosedBy, StillPending
    <3>2. requests'[r] = [requests[r] EXCEPT !.status = "draft_discard_closed"]
      BY <1>2, <1>t, <3>1 DEF Discard
    <3> QED BY <1>t, <1>p, <3>2 DEF Request
  <2> QED BY <1>2, <1>t, <2>1 DEF Discard
<1>3. ASSUME NEW v \in Versions, NEW s \in Secrets, WriteDraft(v, s)
      PROVE  versions'[t] = versions[t]
  BY <1>3, <1>n, UnusedId DEF WriteDraft
<1>4. ASSUME NEW v \in Versions, NEW s \in Secrets, WriteLive(v, s)
      PROVE  versions'[t] = versions[t]
  <2>1. t # v
    BY <1>4, <1>t, UnusedId DEF WriteLive
  <2>2. t # secrets[s].current
    BY <1>t DEF CurrentIsLive, IsDraft
  <2> QED BY <1>4, <1>t, <2>1, <2>2 DEF WriteLive
<1>5. ASSUME NEW v \in Versions, NEW source \in Versions, CopyAsDraft(v, source)
      PROVE  versions'[t] = versions[t]
  BY <1>5, <1>n, UnusedId DEF CopyAsDraft
<1>9. ASSUME NEW c \in Clients, CommitPublish(c)
      PROVE  versions'[t] = versions[t]
  <2>1. c # d
    BY <1>9 DEF CommitPublish, In, Idle
  <2>2. \A w \in jobs[c].targets : versions[w] \in Version /\ versions[w].secret # versions[t].secret
    BY <1>9, <2>1, PublishTargets DEF CommitPublish, PublishInv, PublishesApart
  <2>3. t \notin jobs[c].targets
    BY <2>2
  <2>4. ~\E w \in jobs[c].targets : secrets[versions[w].secret].current = t
    BY <1>t, <2>2 DEF CurrentIsLive, Version
  <2> QED BY <1>9, <1>t, <2>3, <2>4 DEF CommitPublish
<1>15. ASSUME NEW c \in Clients, NEW v \in Versions, NEW source \in Versions, NEW q \in Requests,
              CommitRollback(c, v, source, q)
       PROVE  versions'[t] = versions[t]
  BY <1>15, <1>n DEF CommitRollback, TargetsInv, NamesTargets
<1>16. CASE versions' = versions
  BY <1>16
<1> QED
  BY <1>2, <1>3, <1>4, <1>5, <1>9, <1>15, <1>16
  DEF Next, vars, ChangeDelivery, Decline, SelectPending, BeginPublish, Abandon, BeginPromotion,
      BeginRollback, BeginApproval, CommitPromotion

\* A client publishes after the step because it did before, or because it took its
\* locks in the step.
LEMMA PublishersStep ==
  ASSUME BaseInv, [Next]_vars, NEW c \in Clients, In(c, "publishing")'
  PROVE  (In(c, "publishing") /\ jobs'[c] = jobs[c]) \/ BeginPublish(c)
<1> USE DEF BaseInv, TypeInv, PromotionTypeOK
<1>1. ASSUME NEW d \in Clients, NEW j, j.phase # "publishing", jobs' = [jobs EXCEPT ![d] = j]
      PROVE  In(c, "publishing") /\ jobs'[c] = jobs[c]
  BY <1>1 DEF In
<1>2. ASSUME jobs' = jobs
      PROVE  In(c, "publishing") /\ jobs'[c] = jobs[c]
  BY <1>2 DEF In
<1>3. ASSUME NEW d \in Clients, d # c, jobs' = [jobs EXCEPT ![d] = jobs'[d]]
      PROVE  In(c, "publishing") /\ jobs'[c] = jobs[c]
  BY <1>3 DEF In
<1>4. ASSUME NEW d \in Clients, SelectPending(d)
      PROVE  In(c, "publishing") /\ jobs'[c] = jobs[c]
  <2>1. jobs' = [jobs EXCEPT ![d] = jobs'[d]] /\ jobs'[d].phase = "superseding"
    BY <1>4 DEF SelectPending, Job
  <2> QED BY <2>1, <1>3 DEF In
<1>5. ASSUME NEW d \in Clients, BeginPublish(d), d # c
      PROVE  In(c, "publishing") /\ jobs'[c] = jobs[c]
  <2>1. jobs' = [jobs EXCEPT ![d] = jobs'[d]]
    BY <1>5 DEF BeginPublish
  <2> QED BY <1>5, <2>1, <1>3
<1>6. ASSUME NEW d \in Clients, \/ CommitPublish(d) \/ Abandon(d)
                                \/ \E q \in Requests : CommitPromotion(d, q)
                                \/ \E v, s \in Versions, q \in Requests : CommitRollback(d, v, s, q)
      PROVE  In(c, "publishing") /\ jobs'[c] = jobs[c]
  <2>1. jobs' = [jobs EXCEPT ![d] = Idle]
    BY <1>6 DEF CommitPublish, Abandon, CommitPromotion, CommitRollback
  <2> QED BY <2>1, <1>1 DEF Idle
<1>7. ASSUME NEW d \in Clients, NEW ts \in SUBSET Versions, BeginPromotion(d, ts)
      PROVE  In(c, "publishing") /\ jobs'[c] = jobs[c]
  BY <1>7, <1>3 DEF BeginPromotion, Idle, In
<1>8. ASSUME NEW d \in Clients, NEW v \in Versions, BeginRollback(d, v)
      PROVE  In(c, "publishing") /\ jobs'[c] = jobs[c]
  BY <1>8, <1>3 DEF BeginRollback, Idle, In
<1>9. ASSUME NEW d \in Clients, NEW q \in Requests, BeginApproval(d, q)
      PROVE  In(c, "publishing") /\ jobs'[c] = jobs[c]
  BY <1>9, <1>3 DEF BeginApproval, Idle, In
<1> QED
  BY <1>2, <1>4, <1>5, <1>6, <1>7, <1>8, <1>9
  DEF Next, vars, ChangeDelivery, Discard, WriteDraft, WriteLive, CopyAsDraft, Decline

\* Every step keeps what an open publish holds.
LEMMA PublishStep ==
  ASSUME BaseInv, PublishInv, CurrentIsLive, [Next]_vars
  PROVE  PublishInv'
<1>t. BaseInv' /\ IdentityStays
  BY BaseStep, TargetsStep DEF BaseInv
<1>1. ASSUME NEW c \in Clients, In(c, "publishing")', NEW v \in jobs'[c].targets
      PROVE  v \in Versions /\ v \in jobs[c].targets /\ versions[v] # None
             /\ versions'[v].secret = versions[v].secret
  <2>1. CASE In(c, "publishing") /\ jobs'[c] = jobs[c]
    BY <1>1, <1>t, <2>1, PublishTargets, RowsExist DEF IdentityStays
  <2>2. CASE BeginPublish(c)
    <3>1. jobs'[c].targets = jobs[c].targets /\ jobs[c].targets \subseteq Versions
      BY <2>2 DEF BeginPublish, BaseInv, TypeInv, PromotionTypeOK, Job
    <3> QED BY <1>1, <1>t, <2>2, <3>1 DEF BeginPublish, IsDraft, IdentityStays
  <2> QED BY <1>1, <2>1, <2>2, PublishersStep
<1>2. ASSUME NEW c \in Clients, BeginPublish(c)
      PROVE  /\ OnePerSecret(c)
             /\ \A v \in jobs[c].targets : IsDraft(v)
             /\ \A d \in Clients : In(d, "publishing") => PublishesApart(c, d) /\ PublishesApart(d, c)
  <2>1. \A v \in jobs[c].targets : IsDraft(v) /\ versions[v].secret \notin LockedSecrets
    BY <1>2 DEF BeginPublish
  <2>2. ASSUME NEW d \in Clients, In(d, "publishing"), NEW w \in jobs[d].targets
        PROVE  versions[w].secret \in LockedSecrets
    BY <2>2 DEF LockedSecrets
  <2> QED BY <1>2, <2>1, <2>2 DEF BeginPublish, OnePerSecret, PublishesApart
<1> SUFFICES ASSUME NEW c \in Clients, In(c, "publishing")'
             PROVE  /\ OnePerSecret(c)'
                    /\ \A d \in Clients : c # d /\ In(d, "publishing")' => PublishesApart(c, d)'
                    /\ DraftsStand(c)'
  BY DEF PublishInv
<1>3. OnePerSecret(c)
  BY <1>2, PublishersStep DEF PublishInv
<1>4. OnePerSecret(c)'
  BY <1>1, <1>3 DEF OnePerSecret
<1>5. ASSUME NEW d \in Clients, c # d, In(d, "publishing")'
      PROVE  PublishesApart(c, d)'
  <2>1. PublishesApart(c, d)
    <3>1. CASE BeginPublish(c)
      <4>1. jobs'[d] = jobs[d]
        BY <1>5, <3>1 DEF BeginPublish, BaseInv, TypeInv, PromotionTypeOK
      <4>2. In(d, "publishing")
        BY <1>5, <4>1 DEF In
      <4> QED BY <1>2, <3>1, <4>2
    <3>2. CASE BeginPublish(d)
      <4>1. jobs'[c] = jobs[c]
        BY <1>5, <3>2 DEF BeginPublish, BaseInv, TypeInv, PromotionTypeOK
      <4>2. In(c, "publishing")
        BY <4>1 DEF In
      <4> QED BY <1>2, <3>2, <4>2
    <3>3. CASE In(c, "publishing") /\ In(d, "publishing")
      BY <1>5, <3>3 DEF PublishInv
    <3> QED BY <1>5, <3>1, <3>2, <3>3, PublishersStep
  <2> QED BY <1>1, <1>5, <2>1 DEF PublishesApart
<1>6. DraftsStand(c)'
  <2> SUFFICES ASSUME StillPending(jobs[c].request)', NEW v \in jobs'[c].targets
               PROVE  IsDraft(v)'
    BY DEF DraftsStand
  <2>1. CASE BeginPublish(c)
    BY <1>1, <1>2, <2>1 DEF BeginPublish, IsDraft
  <2>2. CASE In(c, "publishing") /\ jobs'[c] = jobs[c]
    <3> DEFINE r == jobs[c].request
    <3>1. r \in Requests /\ requests[r] # None
      BY <2>2, PublishTargets, RowsExist
    <3>2. requests'[r].status = "pending"
      BY <2>2 DEF StillPending
    <3>3. requests[r].status = "pending"
      BY <3>1, <3>2, RequestStep DEF BaseInv
    <3>4. StillPending(r) /\ StillPending(r)'
      BY <2>2, <3>2, <3>3 DEF StillPending
    <3>5. versions'[v] = versions[v] /\ IsDraft(v)
      BY <2>2, <3>4, DraftsStep DEF DraftsLeftAlone, PublishInv, DraftsStand
    <3> QED BY <3>5 DEF IsDraft
  <2> QED BY <2>1, <2>2, PublishersStep
<1> QED BY <1>4, <1>5, <1>6

-----------------------------------------------------------------------------
(* Pointers, version numbers and approvals.                                *)

\* The steps that change a version or a pointer.
NewDraft(v) ==
  /\ versions[v] = None
  /\ secrets' = secrets
  /\ \E row \in Version : row.state = "draft" /\ versions' = [versions EXCEPT ![v] = row]

LEMMA StepKinds ==
  ASSUME BaseInv, [Next]_vars
  PROVE  \/ UNCHANGED <<secrets, versions>>
         \/ \E v \in Versions : NewDraft(v) \/ Discard(v) \/ \E s \in Secrets : WriteLive(v, s)
         \/ \E c \in Clients : CommitPublish(c)
<1> USE DEF BaseInv, TypeInv, PromotionTypeOK
<1>1. ASSUME NEW v \in Versions, NEW s \in Secrets, WriteDraft(v, s)
      PROVE  NewDraft(v)
  <2>1. [secret |-> s, number |-> NextNumber(s), state |-> "draft"] \in Version
    BY NextNumberIsNext DEF Version
  <2> QED BY <1>1, <2>1, UnusedId DEF WriteDraft, NewDraft
<1>2. ASSUME NEW v \in Versions, NEW source \in Versions, CopyAsDraft(v, source)
      PROVE  NewDraft(v)
  <2>1. Copied(versions[source].secret) \in Version /\ Copied(versions[source].secret).state = "draft"
    BY <1>2, CopiedRow DEF CopyAsDraft, Copyable, Copied, Version
  <2> QED BY <1>2, <2>1, UnusedId DEF CopyAsDraft, NewDraft
<1>3. ASSUME NEW c \in Clients, NEW v \in Versions, NEW source \in Versions, NEW q \in Requests,
             CommitRollback(c, v, source, q)
      PROVE  NewDraft(v)
  <2>1. Copied(versions[source].secret) \in Version /\ Copied(versions[source].secret).state = "draft"
    BY <1>3, CopiedRow DEF CommitRollback, Copyable, Copied, Version
  <2>2. versions[v] = None
    BY <1>3 DEF CommitRollback, TargetsInv, NamesTargets
  <2> QED BY <1>3, <2>1, <2>2 DEF CommitRollback, NewDraft
<1> QED
  BY <1>1, <1>2, <1>3
  DEF Next, vars, ChangeDelivery, Decline, SelectPending, BeginPublish, Abandon, BeginPromotion,
      BeginRollback, BeginApproval, CommitPromotion

\* What a publish does to the rows: its drafts become live, the versions that were
\* live in their secrets become retained, and nothing else changes.
LEMMA PublishRows ==
  ASSUME BaseInv, PublishInv, CurrentIsLive, NEW c \in Clients, CommitPublish(c)
  PROVE  /\ \A v \in jobs[c].targets :
              /\ v \in Versions /\ versions[v] \in Version /\ versions[v].state = "draft"
              /\ versions'[v] = [versions[v] EXCEPT !.state = "live"]
              /\ secrets'[versions[v].secret] = LiveSecret(v, versions[v].number)
              /\ secrets[versions[v].secret].liveNumber = versions[v].number - 1
              /\ \A w \in jobs[c].targets : versions[v].secret = versions[w].secret => v = w
         /\ \A w \in Versions \ jobs[c].targets :
              \/ versions'[w] = versions[w] /\ ~\E v \in jobs[c].targets :
                                                  secrets[versions[v].secret].current = w
              \/ /\ versions[w] \in Version /\ versions[w].state = "live"
                 /\ versions'[w] = [versions[w] EXCEPT !.state = "retained"]
                 /\ \E v \in jobs[c].targets : versions[v].secret = versions[w].secret
         /\ \A s \in Secrets : (\A v \in jobs[c].targets : versions[v].secret # s)
                                 => secrets'[s] = secrets[s]
<1> DEFINE targets == jobs[c].targets
<1>1. In(c, "publishing") /\ StillPending(jobs[c].request)
  BY DEF CommitPublish
<1>2. \A v \in targets : v \in Versions /\ versions[v] \in Version /\ versions[v].state = "draft"
  BY <1>1, PublishTargets DEF PublishInv, DraftsStand, IsDraft
<1>3. \A v, w \in targets : versions[v].secret = versions[w].secret => v = w
  BY <1>1 DEF PublishInv, OnePerSecret
<1>4. ASSUME NEW v \in targets
      PROVE  /\ versions'[v] = [versions[v] EXCEPT !.state = "live"]
             /\ secrets'[versions[v].secret] = LiveSecret(v, versions[v].number)
             /\ secrets[versions[v].secret].liveNumber = versions[v].number - 1
  <2>1. versions'[v] = Promoted(versions[v])
    BY <1>2 DEF CommitPublish
  <2>2. versions[v].secret \in Secrets
    BY <1>2 DEF Version
  <2>3. (CHOOSE w \in targets : versions[w].secret = versions[v].secret) = v
    BY <1>3
  <2>4. secrets'[versions[v].secret] = LiveSecret(v, versions[v].number)
    BY <2>2, <2>3 DEF CommitPublish
  <2> QED BY <1>2, <2>1, <2>4 DEF Promoted, CommitPublish, LiveGuard
<1>5. ASSUME NEW w \in Versions \ targets
      PROVE  \/ versions'[w] = versions[w] /\ ~\E v \in targets : secrets[versions[v].secret].current = w
             \/ /\ versions[w] \in Version /\ versions[w].state = "live"
                /\ versions'[w] = [versions[w] EXCEPT !.state = "retained"]
                /\ \E v \in targets : versions[v].secret = versions[w].secret
  <2>1. CASE \E v \in targets : secrets[versions[v].secret].current = w
    <3>1. PICK v \in targets : secrets[versions[v].secret].current = w
      BY <2>1
    <3>2. versions[v].secret \in Secrets
      BY <1>2 DEF Version
    <3>3. versions[w] # None /\ versions[w].secret = versions[v].secret /\ versions[w].state = "live"
      BY <3>1, <3>2 DEF CurrentIsLive
    <3>4. versions[w] \in Version
      BY <3>3 DEF BaseInv, TypeInv, PromotionTypeOK
    <3>5. versions'[w] = Retained(versions[w])
      BY <2>1 DEF CommitPublish
    <3> QED BY <3>3, <3>4, <3>5 DEF Retained
  <2>2. CASE ~\E v \in targets : secrets[versions[v].secret].current = w
    BY <2>2 DEF CommitPublish
  <2> QED BY <2>1, <2>2
<1>6. \A s \in Secrets : (\A v \in targets : versions[v].secret # s) => secrets'[s] = secrets[s]
  BY DEF CommitPublish
<1> QED BY <1>2, <1>3, <1>4, <1>5, <1>6

\* Every step keeps the pointer of a secret on its one live version.
LEMMA PointerStep ==
  ASSUME BaseInv, PublishInv, CurrentIsLive, [Next]_vars
  PROVE  CurrentIsLive'
<1> USE DEF BaseInv, TypeInv, PromotionTypeOK
<1> SUFFICES ASSUME NEW s \in Secrets, NEW w \in Versions
             PROVE  secrets'[s].current = w <=>
                      versions'[w] # None /\ versions'[w].secret = s /\ versions'[w].state = "live"
  BY DEF CurrentIsLive
<1>0. secrets[s].current = w <=> versions[w] # None /\ versions[w].secret = s /\ versions[w].state = "live"
  BY DEF CurrentIsLive
<1>1. CASE UNCHANGED <<secrets, versions>>
  BY <1>0, <1>1
<1>2. ASSUME NEW v \in Versions, NewDraft(v)
      PROVE  secrets'[s].current = w <=>
               versions'[w] # None /\ versions'[w].secret = s /\ versions'[w].state = "live"
  BY <1>0, <1>2, RowsExist DEF NewDraft
<1>3. ASSUME NEW v \in Versions, Discard(v)
      PROVE  secrets'[s].current = w <=>
               versions'[w] # None /\ versions'[w].secret = s /\ versions'[w].state = "live"
  <2>1. versions[v] \in Version /\ versions[v].state = "draft" /\ secrets' = secrets
        /\ versions' = [versions EXCEPT ![v] = [@ EXCEPT !.state = "discarded"]]
    BY <1>3 DEF Discard, IsDraft, Discarded
  <2> QED BY <1>0, <2>1 DEF Version
<1>4. ASSUME NEW v \in Versions, NEW z \in Secrets, WriteLive(v, z)
      PROVE  secrets'[s].current = w <=>
               versions'[w] # None /\ versions'[w].secret = s /\ versions'[w].state = "live"
  <2>1. versions[v] = None
    BY <1>4, UnusedId DEF WriteLive
  <2>2. versions'[v] = [secret |-> z, number |-> NextNumber(z), state |-> "live"] /\ versions'[v] # None
    <3>1. [secret |-> z, number |-> NextNumber(z), state |-> "live"] \in Version
      BY NextNumberIsNext DEF Version
    <3> QED BY <1>4, <3>1, RowsExist DEF WriteLive
  <2>3. secrets'[z].current = v /\ \A y \in Secrets \ {z} : secrets'[y] = secrets[y]
    BY <1>4 DEF WriteLive, LiveSecret
  <2>4. CASE w = v
    BY <1>0, <2>1, <2>2, <2>3, <2>4
  <2>5. CASE w # v /\ w = secrets[z].current
    <3>1. versions[w] # None /\ versions[w].secret = z /\ versions[w].state = "live"
      BY <2>5 DEF CurrentIsLive
    <3>2. versions'[w] = [versions[w] EXCEPT !.state = "retained"] /\ versions[w] \in Version
      BY <1>4, <2>5, <3>1 DEF WriteLive, Retained
    <3> QED BY <1>0, <2>3, <2>5, <3>1, <3>2 DEF Version
  <2>6. CASE w # v /\ w # secrets[z].current
    <3>1. versions'[w] = versions[w]
      BY <1>4, <2>6 DEF WriteLive
    <3> QED BY <1>0, <2>3, <2>6, <3>1
  <2> QED BY <2>4, <2>5, <2>6
<1>5. ASSUME NEW c \in Clients, CommitPublish(c)
      PROVE  secrets'[s].current = w <=>
               versions'[w] # None /\ versions'[w].secret = s /\ versions'[w].state = "live"
  <2> DEFINE targets == jobs[c].targets
  <2>1. ASSUME NEW v \in targets
        PROVE  /\ versions[v].secret \in Secrets /\ versions'[v] # None
               /\ versions'[v].secret = versions[v].secret /\ versions'[v].state = "live"
               /\ secrets'[versions[v].secret].current = v
               /\ \A u \in targets : versions[v].secret = versions[u].secret => v = u
    <3>1. /\ versions[v] \in Version
          /\ versions'[v] = [versions[v] EXCEPT !.state = "live"]
          /\ secrets'[versions[v].secret] = LiveSecret(v, versions[v].number)
          /\ \A u \in targets : versions[v].secret = versions[u].secret => v = u
      BY <1>5, PublishRows
    <3>2. versions'[v] \in Version
      BY <3>1 DEF Version
    <3>3. versions'[v] # None
      BY <3>2, RowsExist
    <3> QED BY <3>1, <3>3 DEF LiveSecret, Version
  <2>2. ASSUME NEW u \in Versions \ targets
        PROVE  \/ versions'[u] = versions[u] /\ ~\E v \in targets : secrets[versions[v].secret].current = u
               \/ /\ versions[u] \in Version /\ versions[u].state = "live"
                  /\ versions'[u] = [versions[u] EXCEPT !.state = "retained"]
                  /\ \E v \in targets : versions[v].secret = versions[u].secret
    BY <1>5, PublishRows
  <2>3. (\A v \in targets : versions[v].secret # s) => secrets'[s] = secrets[s]
    BY <1>5, PublishRows
  <2> HIDE DEF targets
  <2>4. CASE w \in targets
    <3>1. /\ versions'[w] # None /\ versions'[w].secret = versions[w].secret /\ versions'[w].state = "live"
          /\ secrets'[versions[w].secret].current = w
      BY <2>1, <2>4
    <3>3. CASE versions[w].secret = s
      BY <3>1, <3>3
    <3>4. CASE versions[w].secret # s /\ \E v \in targets : versions[v].secret = s
      <4>1. PICK v \in targets : versions[v].secret = s
        BY <3>4
      <4>2. secrets'[s].current = v /\ v # w
        BY <2>1, <3>4, <4>1
      <4> QED BY <3>1, <3>4, <4>2
    <3>5. CASE \A v \in targets : versions[v].secret # s
      <4>1. versions[w].secret # s
        BY <2>4, <3>5
      <4>2. secrets'[s] = secrets[s]
        BY <2>3, <3>5
      <4> QED BY <1>0, <3>1, <4>1, <4>2
    <3> QED BY <3>3, <3>4, <3>5
  <2>5. CASE w \notin targets /\ \E v \in targets : versions[v].secret = s
    <3>1. PICK v \in targets : versions[v].secret = s
      BY <2>5
    <3>2. secrets'[s].current # w
      BY <2>1, <2>5, <3>1
    <3>3. ~(versions'[w] # None /\ versions'[w].secret = s /\ versions'[w].state = "live")
      <4>1. CASE versions'[w] = versions[w] /\ ~\E u \in targets : secrets[versions[u].secret].current = w
        <5>1. secrets[s].current # w
          BY <3>1, <4>1
        <5> QED BY <1>0, <4>1, <5>1
      <4>2. CASE versions[w] \in Version /\ versions'[w] = [versions[w] EXCEPT !.state = "retained"]
        BY <4>2 DEF Version
      <4> QED BY <2>2, <2>5, <4>1, <4>2
    <3> QED BY <3>2, <3>3
  <2>6. CASE w \notin targets /\ \A v \in targets : versions[v].secret # s
    <3>1. CASE versions'[w] = versions[w]
      BY <1>0, <2>3, <2>6, <3>1
    <3>2. CASE versions'[w] # versions[w]
      <4>1. /\ versions[w] \in Version /\ versions[w].state = "live"
            /\ versions'[w] = [versions[w] EXCEPT !.state = "retained"]
            /\ \E v \in targets : versions[v].secret = versions[w].secret
        BY <2>2, <2>6, <3>2
      <4> QED BY <1>0, <2>3, <2>6, <4>1 DEF Version
    <3> QED BY <3>1, <3>2
  <2> QED BY <2>4, <2>5, <2>6
<1> QED BY <1>1, <1>2, <1>3, <1>4, <1>5, StepKinds

\* The published numbers of a secret.
PublishedNumbers(s) ==
  {versions[v].number : v \in {w \in Versions : Published(w) /\ versions[w].secret = s}}

\* A step that publishes nothing of a secret keeps its published numbers, and one
\* that publishes one version adds its number.
LEMMA SameNumbers ==
  ASSUME NEW s \in Secrets,
         \A w \in Versions : (Published(w) /\ versions[w].secret = s)
                               <=> (Published(w)' /\ versions'[w].secret = s),
         \A w \in Versions : Published(w) => versions'[w].number = versions[w].number
  PROVE  PublishedNumbers(s)' = PublishedNumbers(s)
BY DEF PublishedNumbers

LEMMA OneMoreNumber ==
  ASSUME NEW s \in Secrets, NEW v \in Versions, ~Published(v), Published(v)', versions'[v].secret = s,
         \A w \in Versions \ {v} : (Published(w) /\ versions[w].secret = s)
                                     <=> (Published(w)' /\ versions'[w].secret = s),
         \A w \in Versions : Published(w) => versions'[w].number = versions[w].number
  PROVE  PublishedNumbers(s)' = PublishedNumbers(s) \cup {versions'[v].number}
BY DEF PublishedNumbers

\* A version that a step supersedes as the live one is still published.
LEMMA SupersededIsPublished ==
  ASSUME BaseInv, CurrentIsLive, NEW v \in Versions, NEW z \in Secrets, WriteLive(v, z),
         NEW w \in Versions \ {v}
  PROVE  Published(w) <=> Published(w)'
<1>1. CASE versions'[w] = versions[w]
  BY <1>1 DEF Published
<1>2. CASE w = secrets[z].current
  <2>1. /\ versions[w] # None /\ versions[w].state = "live"
        /\ versions[w] \in Version /\ versions'[w] = Retained(versions[w])
    BY <1>2 DEF WriteLive, CurrentIsLive, BaseInv, TypeInv, PromotionTypeOK
  <2>2. versions'[w] \in Version /\ versions'[w].state = "retained"
    BY <2>1 DEF Retained, Version
  <2> QED BY <2>1, <2>2, RowsExist DEF Published
<1> QED BY <1>1, <1>2 DEF WriteLive

LEMMA ReplacedIsPublished ==
  ASSUME BaseInv, PublishInv, CurrentIsLive, NEW c \in Clients, CommitPublish(c),
         NEW w \in Versions \ jobs[c].targets
  PROVE  Published(w) <=> Published(w)'
<1>1. CASE versions'[w] = versions[w]
  BY <1>1 DEF Published
<1>2. CASE /\ versions[w] \in Version /\ versions[w].state = "live"
           /\ versions'[w] = [versions[w] EXCEPT !.state = "retained"]
  <2>1. versions'[w] \in Version /\ versions'[w].state = "retained"
    BY <1>2 DEF Version
  <2> QED BY <1>2, <2>1, RowsExist DEF Published
<1> QED BY <1>1, <1>2, PublishRows

\* Every step keeps the published versions of a secret in one sequence.
LEMMA OrderStep ==
  ASSUME BaseInv, PublishInv, CurrentIsLive, PublishedInOrder, [Next]_vars
  PROVE  PublishedInOrder'
<1> USE DEF BaseInv, TypeInv, PromotionTypeOK
<1> SUFFICES ASSUME NEW s \in Secrets
             PROVE  PublishedNumbers(s)' = 1..secrets'[s].liveNumber
  BY DEF PublishedInOrder, PublishedNumbers
<1>0. PublishedNumbers(s) = 1..secrets[s].liveNumber /\ secrets[s].liveNumber \in Nat
  BY DEF PublishedInOrder, PublishedNumbers, Secret
<1>n. \A w \in Versions : Published(w) => versions'[w].number = versions[w].number
  BY TargetsStep DEF IdentityStays, Published
<1>i. \A w \in Versions : versions[w] # None => versions'[w].secret = versions[w].secret
  BY TargetsStep DEF IdentityStays
<1>1. CASE UNCHANGED <<secrets, versions>>
  BY <1>0, <1>1 DEF PublishedNumbers, Published
<1>2. ASSUME NEW v \in Versions, NewDraft(v)
      PROVE  PublishedNumbers(s)' = 1..secrets'[s].liveNumber
  <2>1. \A w \in Versions : (Published(w) /\ versions[w].secret = s)
                              <=> (Published(w)' /\ versions'[w].secret = s)
    BY <1>2 DEF NewDraft, Published
  <2>2. secrets' = secrets
    BY <1>2 DEF NewDraft
  <2> QED BY <1>0, <1>n, <2>1, <2>2, SameNumbers
<1>3. ASSUME NEW v \in Versions, Discard(v)
      PROVE  PublishedNumbers(s)' = 1..secrets'[s].liveNumber
  <2>1. /\ versions[v] \in Version /\ versions[v].state = "draft" /\ secrets' = secrets
        /\ versions' = [versions EXCEPT ![v] = [versions[v] EXCEPT !.state = "discarded"]]
    BY <1>3 DEF Discard, IsDraft, Discarded
  <2>2. ~Published(v) /\ ~Published(v)'
    BY <2>1 DEF Published, Version
  <2>3. \A w \in Versions \ {v} : versions'[w] = versions[w]
    BY <2>1
  <2>4. \A w \in Versions : (Published(w) /\ versions[w].secret = s)
                              <=> (Published(w)' /\ versions'[w].secret = s)
    BY <2>2, <2>3 DEF Published
  <2> QED BY <1>0, <1>n, <2>1, <2>4, SameNumbers
<1>4. ASSUME NEW v \in Versions, NEW z \in Secrets, WriteLive(v, z)
      PROVE  PublishedNumbers(s)' = 1..secrets'[s].liveNumber
  <2>1. versions[v] = None
    BY <1>4, UnusedId DEF WriteLive
  <2>2. /\ versions'[v] = [secret |-> z, number |-> NextNumber(z), state |-> "live"] /\ versions'[v] # None
        /\ NextNumber(z) \in Nat \ {0} /\ secrets[z].liveNumber = NextNumber(z) - 1
        /\ secrets' = [secrets EXCEPT ![z] = [current |-> v, liveNumber |-> NextNumber(z)]]
    <3>1. [secret |-> z, number |-> NextNumber(z), state |-> "live"] \in Version
      BY NextNumberIsNext DEF Version
    <3> QED BY <1>4, <3>1, NextNumberIsNext, RowsExist DEF WriteLive, LiveGuard, LiveSecret
  <2>3. ASSUME NEW w \in Versions \ {v}
        PROVE  (Published(w) /\ versions[w].secret = s) <=> (Published(w)' /\ versions'[w].secret = s)
    BY <1>4, <1>i, SupersededIsPublished DEF Published
  <2>4. CASE z = s
    <3>1. ~Published(v) /\ Published(v)' /\ versions'[v].secret = s
      BY <2>1, <2>2, <2>4 DEF Published
    <3>2. PublishedNumbers(s)' = PublishedNumbers(s) \cup {versions'[v].number}
      BY <1>n, <2>3, <3>1, OneMoreNumber
    <3> QED BY <1>0, <2>2, <2>4, <3>2
  <2>5. CASE z # s
    <3>1. ~(Published(v) /\ versions[v].secret = s) /\ versions'[v].secret # s
      BY <2>1, <2>2, <2>5 DEF Published
    <3>2. PublishedNumbers(s)' = PublishedNumbers(s)
      BY <1>n, <2>3, <3>1, SameNumbers
    <3> QED BY <1>0, <2>2, <2>5, <3>2
  <2> QED BY <2>4, <2>5
<1>5. ASSUME NEW c \in Clients, CommitPublish(c)
      PROVE  PublishedNumbers(s)' = 1..secrets'[s].liveNumber
  <2> DEFINE targets == jobs[c].targets
  <2>1. ASSUME NEW v \in targets
        PROVE  /\ v \in Versions /\ versions[v] # None /\ versions[v].number \in Nat \ {0}
               /\ ~Published(v) /\ Published(v)'
               /\ versions'[v].secret = versions[v].secret /\ versions'[v].number = versions[v].number
               /\ secrets'[versions[v].secret].liveNumber = versions[v].number
               /\ secrets[versions[v].secret].liveNumber = versions[v].number - 1
               /\ \A u \in targets : versions[v].secret = versions[u].secret => v = u
    <3>1. /\ v \in Versions /\ versions[v] \in Version /\ versions[v].state = "draft"
          /\ versions'[v] = [versions[v] EXCEPT !.state = "live"]
          /\ secrets'[versions[v].secret] = LiveSecret(v, versions[v].number)
          /\ secrets[versions[v].secret].liveNumber = versions[v].number - 1
          /\ \A u \in targets : versions[v].secret = versions[u].secret => v = u
      BY <1>5, PublishRows
    <3>2. versions'[v] \in Version /\ versions'[v].state = "live"
      BY <3>1 DEF Version
    <3> QED BY <3>1, <3>2, RowsExist DEF Published, LiveSecret, Version
  <2>2. ASSUME NEW w \in Versions \ targets
        PROVE  (Published(w) /\ versions[w].secret = s) <=> (Published(w)' /\ versions'[w].secret = s)
    BY <1>5, <1>i, ReplacedIsPublished DEF Published
  <2>3. (\A v \in targets : versions[v].secret # s) => secrets'[s] = secrets[s]
    BY <1>5, PublishRows
  <2> HIDE DEF targets
  <2>4. CASE \E v \in targets : versions[v].secret = s
    <3>1. PICK v \in targets : versions[v].secret = s
      BY <2>4
    <3>2. ASSUME NEW w \in Versions \ {v}
          PROVE  (Published(w) /\ versions[w].secret = s) <=> (Published(w)' /\ versions'[w].secret = s)
      <4>1. CASE w \in targets
        BY <2>1, <3>1, <4>1
      <4>2. CASE w \notin targets
        BY <2>2, <4>2
      <4> QED BY <4>1, <4>2
    <3>3. PublishedNumbers(s)' = PublishedNumbers(s) \cup {versions'[v].number}
      BY <1>n, <2>1, <3>1, <3>2, OneMoreNumber
    <3>4. /\ versions'[v].number = secrets[s].liveNumber + 1
          /\ secrets'[s].liveNumber = secrets[s].liveNumber + 1
      BY <1>0, <2>1, <3>1
    <3> QED BY <1>0, <3>3, <3>4
  <2>5. CASE \A v \in targets : versions[v].secret # s
    <3>1. ASSUME NEW w \in Versions
          PROVE  (Published(w) /\ versions[w].secret = s) <=> (Published(w)' /\ versions'[w].secret = s)
      <4>1. CASE w \in targets
        BY <2>1, <2>5, <4>1
      <4>2. CASE w \notin targets
        BY <2>2, <4>2
      <4> QED BY <4>1, <4>2
    <3>2. PublishedNumbers(s)' = PublishedNumbers(s)
      BY <1>n, <3>1, SameNumbers
    <3> QED BY <1>0, <2>3, <2>5, <3>2
  <2> QED BY <2>4, <2>5
<1> QED BY <1>1, <1>2, <1>3, <1>4, <1>5, StepKinds

\* The inductive invariant of the theorems about versions.
VersionInv == BaseInv /\ PublishInv /\ CurrentIsLive /\ PublishedInOrder

LEMMA VersionInvariant == Spec => []VersionInv
<1>1. Init => BaseInv
  BY BaseStart
<1>2. Init => PublishInv /\ CurrentIsLive
  BY PromotionAssumption DEF Init, PublishInv, CurrentIsLive, In, Idle
<1>3. Init => PublishedInOrder
  BY DEF Init, PublishedInOrder, Published
<1>4. VersionInv /\ [Next]_vars => VersionInv'
  BY BaseStep, PublishStep, PointerStep, OrderStep DEF VersionInv
<1> QED BY <1>1, <1>2, <1>3, <1>4, PTL DEF Spec, VersionInv

\* Whatever discards, approvals, rollbacks and writes run side by side, a secret
\* points at its one live version.
THEOREM PointersAreLive == Spec => []CurrentIsLive
BY VersionInvariant, PTL DEF VersionInv

\* The published versions of a secret are numbered without a gap, however many
\* approvals race for the next number.
THEOREM VersionsInOrder == Spec => []PublishedInOrder
BY VersionInvariant, PTL DEF VersionInv

\* An applied approval of a version.
ApprovedFor(v) ==
  \E q \in Requests : /\ requests[q] # None
                      /\ requests[q].status = "approved_applied"
                      /\ v \in requests[q].targets

\* Only a publish approves, and what it approves is its request.
LEMMA ApprovalsStep ==
  ASSUME BaseInv, [Next]_vars, \A c \in Clients : ~CommitPublish(c), NEW v
  PROVE  ApprovedFor(v)' <=> ApprovedFor(v)
<1> USE DEF BaseInv, TypeInv, PromotionTypeOK
<1>1. ASSUME NEW q \in Requests, requests[q] # None, requests[q].status = "approved_applied"
      PROVE  requests'[q] = requests[q]
  BY <1>1, RequestStep
<1>2. ASSUME NEW q \in Requests, requests'[q] # None, requests'[q].status = "approved_applied"
      PROVE  requests'[q] = requests[q]
  <2>1. CASE requests' = requests
    BY <2>1
  <2>2. ASSUME NEW w \in Versions, Discard(w)
        PROVE  requests'[q] = requests[q]
    BY <1>2, <2>2 DEF Discard, ClosedBy, Request
  <2>3. ASSUME NEW p \in Requests, Decline(p)
        PROVE  requests'[q] = requests[q]
    BY <1>2, <2>3 DEF Decline, Request
  <2>4. ASSUME NEW c \in Clients, NEW p \in Requests, CommitPromotion(c, p)
        PROVE  requests'[q] = requests[q]
    <3>1. q # p
      BY <1>2, <2>4 DEF CommitPromotion
    <3>2. \A u \in jobs[c].superseded : requests[u] \in Request
      BY DEF JobsHold, JobHolds, Job
    <3> QED BY <1>2, <2>4, <3>1, <3>2 DEF CommitPromotion, Request
  <2>5. ASSUME NEW c \in Clients, NEW w \in Versions, NEW source \in Versions, NEW p \in Requests,
               CommitRollback(c, w, source, p)
        PROVE  requests'[q] = requests[q]
    BY <1>2, <2>5 DEF CommitRollback
  <2> QED
    BY <2>1, <2>2, <2>3, <2>4, <2>5
    DEF Next, vars, ChangeDelivery, WriteDraft, WriteLive, CopyAsDraft, SelectPending, BeginPublish,
        Abandon, BeginPromotion, BeginRollback, BeginApproval
<1> QED BY <1>1, <1>2 DEF ApprovedFor

LEMMA PublishApproves ==
  ASSUME BaseInv, NEW c \in Clients, CommitPublish(c), NEW v
  PROVE  ApprovedFor(v)' <=> (v \in jobs[c].targets \/ ApprovedFor(v))
<1> DEFINE q == jobs[c].request
<1>1. /\ q \in Requests /\ requests[q] \in Request /\ requests[q] # None
      /\ jobs[c].targets = requests[q].targets /\ requests[q].status = "pending"
  BY PublishTargets, RowsExist DEF CommitPublish, StillPending
<1>2. requests' = [requests EXCEPT ![q] = [requests[q] EXCEPT !.status = "approved_applied"]]
      /\ requests \in [Requests -> Request \cup {None}]
  BY DEF CommitPublish, BaseInv, TypeInv, PromotionTypeOK
<1> HIDE DEF q
<1>3. /\ requests'[q].status = "approved_applied" /\ requests'[q].targets = jobs[c].targets
      /\ \A p \in Requests \ {q} : requests'[p] = requests[p]
  BY <1>1, <1>2 DEF Request
<1>4. requests'[q] # None
  BY <1>1, <1>2, RequestRows, RowsExist DEF Statuses
<1> QED BY <1>1, <1>3, <1>4 DEF ApprovedFor

\* Every step publishes what it approves, and nothing else in a Protected
\* Environment.
LEMMA ApprovedStep ==
  ASSUME VersionInv, PublishedIffApproved, [Next]_vars
  PROVE  PublishedIffApproved'
<1> USE DEF VersionInv
<1> SUFFICES ASSUME NEW w \in Versions, versions'[w] # None, versions'[w].secret \notin Unprotected
             PROVE  Published(w)' <=> ApprovedFor(w)'
  BY DEF PublishedIffApproved, ApprovedFor
<1>0. versions[w] # None /\ versions[w].secret \notin Unprotected => (Published(w) <=> ApprovedFor(w))
  BY DEF PublishedIffApproved, ApprovedFor
<1>n. versions[w] = None => ~Published(w) /\ ~ApprovedFor(w)
  BY DEF ApprovedFor, Published, BaseInv, TargetsInv, TargetsExist
<1>i. versions[w] # None => versions'[w].secret = versions[w].secret
  BY TargetsStep DEF BaseInv, IdentityStays
<1>c. ASSUME NEW c \in Clients, CommitPublish(c)
      PROVE  Published(w)' <=> ApprovedFor(w)'
  <2>1. ApprovedFor(w)' <=> (w \in jobs[c].targets \/ ApprovedFor(w))
    BY <1>c, PublishApproves
  <2>2. CASE w \in jobs[c].targets
    <3>1. versions[w] \in Version /\ versions'[w] = [versions[w] EXCEPT !.state = "live"]
      BY <1>c, <2>2, PublishRows
    <3>2. versions'[w].state = "live"
      BY <3>1 DEF Version
    <3> QED BY <2>1, <2>2, <3>2 DEF Published
  <2>3. CASE w \notin jobs[c].targets
    BY <1>0, <1>n, <1>i, <1>c, <2>1, <2>3, ReplacedIsPublished
  <2> QED BY <2>2, <2>3
<1> SUFFICES ASSUME \A c \in Clients : ~CommitPublish(c)
             PROVE  Published(w)' <=> ApprovedFor(w)'
  BY <1>c
<1>a. ApprovedFor(w)' <=> ApprovedFor(w)
  BY ApprovalsStep
<1>s. ASSUME Published(w)' <=> Published(w)
      PROVE  Published(w)' <=> ApprovedFor(w)'
  BY <1>0, <1>n, <1>i, <1>a, <1>s
<1>1. CASE UNCHANGED <<secrets, versions>>
  BY <1>1, <1>s DEF Published
<1>2. ASSUME NEW v \in Versions, NewDraft(v)
      PROVE  Published(w)' <=> Published(w)
  BY <1>2 DEF NewDraft, Published, BaseInv, TypeInv, PromotionTypeOK
<1>3. ASSUME NEW v \in Versions, Discard(v)
      PROVE  Published(w)' <=> Published(w)
  <2>1. /\ versions[v] \in Version /\ versions[v].state = "draft"
        /\ versions \in [Versions -> Version \cup {None}]
        /\ versions' = [versions EXCEPT ![v] = [versions[v] EXCEPT !.state = "discarded"]]
    BY <1>3 DEF Discard, IsDraft, Discarded, BaseInv, TypeInv, PromotionTypeOK
  <2>2. ~Published(v) /\ ~Published(v)'
    BY <2>1 DEF Published, Version
  <2>3. w # v => versions'[w] = versions[w]
    BY <2>1
  <2> QED BY <2>2, <2>3 DEF Published
<1>4. ASSUME NEW v \in Versions, NEW z \in Secrets, WriteLive(v, z)
      PROVE  Published(w)' <=> Published(w)
  <2>1. w # v
    BY <1>4 DEF WriteLive, BaseInv, TypeInv, PromotionTypeOK
  <2> QED BY <1>4, <2>1, SupersededIsPublished
<1> QED BY <1>1, <1>2, <1>3, <1>4, <1>s, StepKinds

\* In a Protected Environment nothing is published without an applied approval of
\* it, and an applied approval has published all of its change set.
THEOREM OnlyApprovedIsPublished == Spec => []PublishedIffApproved
<1>1. Init => PublishedIffApproved
  BY DEF Init, PublishedIffApproved
<1>2. VersionInv /\ PublishedIffApproved /\ [Next]_vars => PublishedIffApproved'
  BY ApprovedStep
<1> QED BY <1>1, <1>2, VersionInvariant, PTL DEF Spec


-----------------------------------------------------------------------------
(* The numbers of a secret's versions are its order.                       *)

\* No two versions of a secret have one number.
UniqueNumbers(rows) ==
  \A v, w \in Versions :
    /\ rows[v] # None /\ rows[w] # None
    /\ rows[v].secret = rows[w].secret /\ rows[v].number = rows[w].number
    => v = w

\* A secret that was published points at the last version of its sequence.
CurrentIsLast ==
  \A s \in Secrets : secrets[s].liveNumber > 0 =>
    secrets[s].current \in Versions /\ versions[secrets[s].current].number = secrets[s].liveNumber

NumberInv == UniqueNumbers(versions) /\ CurrentIsLast

\* A new row takes the next number of its secret.
LEMMA NewRowIsUnique ==
  ASSUME BaseInv, IdentityStays, UniqueNumbers(versions),
         NEW v \in Versions, versions[v] = None, versions'[v] # None,
         versions'[v].secret \in Secrets,
         versions'[v].number = NextNumber(versions'[v].secret),
         \A w \in Versions \ {v} : versions'[w] # None => versions[w] # None
  PROVE  UniqueNumbers(versions')
<1>1. ASSUME NEW w \in Versions \ {v}, versions'[w] # None, versions'[w].secret = versions'[v].secret
      PROVE  versions'[w].number # versions'[v].number
  <2>1. /\ versions[w] # None /\ versions[w].secret = versions'[v].secret
        /\ versions'[w].number = versions[w].number /\ versions[w] \in Version
    BY <1>1 DEF IdentityStays, BaseInv, TypeInv, PromotionTypeOK
  <2>2. versions[w].number \in Numbers(versions'[v].secret) /\ versions[w].number \in Nat
    BY <2>1 DEF Numbers, Version
  <2>3. versions[w].number < NextNumber(versions'[v].secret) /\ NextNumber(versions'[v].secret) \in Nat
    BY <2>2, NextNumberIsNext DEF BaseInv, TypeInv, PromotionTypeOK
  <2> QED BY <2>1, <2>2, <2>3
<1>2. ASSUME NEW u \in Versions \ {v}, NEW w \in Versions \ {v}, versions'[u] # None, versions'[w] # None,
             versions'[u].secret = versions'[w].secret, versions'[u].number = versions'[w].number
      PROVE  u = w
  BY <1>2 DEF IdentityStays, UniqueNumbers
<1> QED BY <1>1, <1>2 DEF UniqueNumbers

LEMMA OldRowsAreUnique ==
  ASSUME IdentityStays, UniqueNumbers(versions),
         \A w \in Versions : versions'[w] # None => versions[w] # None
  PROVE  UniqueNumbers(versions')
BY DEF IdentityStays, UniqueNumbers

LEMMA UniqueStep ==
  ASSUME BaseInv, PublishInv, CurrentIsLive, UniqueNumbers(versions), [Next]_vars
  PROVE  UniqueNumbers(versions')
<1> USE DEF BaseInv, TypeInv, PromotionTypeOK
<1>i. IdentityStays
  BY TargetsStep
<1>a. ASSUME versions' = versions
      PROVE  UniqueNumbers(versions')
  BY <1>a
<1>n. ASSUME NEW v \in Versions, NEW s \in Secrets, NEW state \in {"draft", "live"}, versions[v] = None,
             versions'[v] = [secret |-> s, number |-> NextNumber(s), state |-> state],
             \A w \in Versions \ {v} : versions'[w] # None => versions[w] # None
      PROVE  UniqueNumbers(versions')
  <2>1. versions'[v] \in Version /\ versions'[v].secret = s /\ versions'[v].number = NextNumber(s)
    BY <1>n, NextNumberIsNext DEF Version
  <2> QED BY <1>i, <1>n, <2>1, NewRowIsUnique, RowsExist
<1>1. ASSUME NEW v \in Versions, NEW s \in Secrets, WriteDraft(v, s)
      PROVE  UniqueNumbers(versions')
  <2>1. versions[v] = None
    BY <1>1, UnusedId DEF WriteDraft
  <2> QED BY <1>1, <1>n, <2>1 DEF WriteDraft
<1>2. ASSUME NEW v \in Versions, NEW source \in Versions, CopyAsDraft(v, source)
      PROVE  UniqueNumbers(versions')
  <2>1. versions[v] = None /\ versions[source].secret \in Secrets
    BY <1>2, UnusedId DEF CopyAsDraft, Copyable, Version
  <2> QED BY <1>2, <1>n, <2>1 DEF CopyAsDraft, Copied
<1>3. ASSUME NEW c \in Clients, NEW v \in Versions, NEW source \in Versions, NEW q \in Requests,
             CommitRollback(c, v, source, q)
      PROVE  UniqueNumbers(versions')
  <2>1. versions[v] = None /\ versions[source].secret \in Secrets
    BY <1>3 DEF CommitRollback, Copyable, Version, TargetsInv, NamesTargets
  <2> QED BY <1>3, <1>n, <2>1 DEF CommitRollback, Copied
<1>4. ASSUME NEW v \in Versions, NEW s \in Secrets, WriteLive(v, s)
      PROVE  UniqueNumbers(versions')
  <2>1. versions[v] = None
    BY <1>4, UnusedId DEF WriteLive
  <2>2. ASSUME NEW w \in Versions \ {v}, versions[w] = None
        PROVE  versions'[w] = None
    <3>1. w # secrets[s].current
      BY <2>2 DEF CurrentIsLive
    <3> QED BY <1>4, <2>2, <3>1 DEF WriteLive
  <2> QED BY <1>4, <1>n, <2>1, <2>2 DEF WriteLive
<1>5. ASSUME NEW c \in Clients, CommitPublish(c)
      PROVE  UniqueNumbers(versions')
  <2>1. \A w \in Versions : versions'[w] # None => versions[w] # None
    BY <1>5, PublishRows, RowsExist
  <2> QED BY <1>i, <2>1, OldRowsAreUnique
<1>6. ASSUME NEW v \in Versions, Discard(v)
      PROVE  UniqueNumbers(versions')
  <2>1. \A w \in Versions : versions'[w] # None => versions[w] # None
    BY <1>6 DEF Discard, IsDraft
  <2> QED BY <1>i, <2>1, OldRowsAreUnique
<1> QED
  BY <1>a, <1>1, <1>2, <1>3, <1>4, <1>5, <1>6
  DEF Next, vars, ChangeDelivery, Decline, SelectPending, BeginPublish, Abandon, BeginPromotion,
      BeginRollback, BeginApproval, CommitPromotion

LEMMA LastStep ==
  ASSUME BaseInv, PublishInv, CurrentIsLive, CurrentIsLast, [Next]_vars
  PROVE  CurrentIsLast'
<1> USE DEF BaseInv, TypeInv, PromotionTypeOK
<1> SUFFICES ASSUME NEW s \in Secrets, secrets'[s].liveNumber > 0
             PROVE  /\ secrets'[s].current \in Versions
                    /\ versions'[secrets'[s].current].number = secrets'[s].liveNumber
  BY DEF CurrentIsLast
<1> DEFINE Goal == /\ secrets'[s].current \in Versions
                   /\ versions'[secrets'[s].current].number = secrets'[s].liveNumber
<1>0. ASSUME secrets'[s] = secrets[s]
      PROVE  Goal
  <2>1. secrets[s].current \in Versions /\ versions[secrets[s].current].number = secrets[s].liveNumber
    BY <1>0 DEF CurrentIsLast
  <2>2. versions[secrets[s].current] # None
    BY <2>1, PromotionAssumption DEF CurrentExists
  <2> QED BY <1>0, <2>1, <2>2, TargetsStep DEF IdentityStays
<1>1. ASSUME NEW v \in Versions, NEW z \in Secrets, WriteLive(v, z)
      PROVE  Goal
  <2>1. CASE s = z
    <3>1. /\ secrets'[s] = [current |-> v, liveNumber |-> NextNumber(z)]
          /\ versions'[v] = [secret |-> z, number |-> NextNumber(z), state |-> "live"]
      BY <1>1, <2>1 DEF WriteLive, LiveSecret
    <3> QED BY <3>1
  <2>2. CASE s # z
    BY <1>0, <1>1, <2>2 DEF WriteLive
  <2> QED BY <2>1, <2>2
<1>2. ASSUME NEW c \in Clients, CommitPublish(c)
      PROVE  Goal
  <2>1. CASE \E v \in jobs[c].targets : versions[v].secret = s
    <3>1. PICK v \in jobs[c].targets : versions[v].secret = s
      BY <2>1
    <3>2. /\ v \in Versions /\ versions[v] \in Version
          /\ versions'[v] = [versions[v] EXCEPT !.state = "live"]
          /\ secrets'[s] = LiveSecret(v, versions[v].number)
      BY <1>2, <3>1, PublishRows
    <3> QED BY <3>2 DEF LiveSecret, Version
  <2>2. CASE \A v \in jobs[c].targets : versions[v].secret # s
    BY <1>0, <1>2, <2>2, PublishRows
  <2> QED BY <2>1, <2>2
<1>3. ASSUME NEW v \in Versions, NewDraft(v) \/ Discard(v)
      PROVE  Goal
  BY <1>0, <1>3 DEF NewDraft, Discard
<1> QED BY <1>0, <1>1, <1>2, <1>3, StepKinds

\* The inductive invariant of the refinement.
HistoryInv == VersionInv /\ NumberInv

LEMMA HistoryStep == HistoryInv /\ [Next]_vars => HistoryInv'
BY BaseStep, PublishStep, PointerStep, OrderStep, UniqueStep, LastStep
DEF HistoryInv, VersionInv, NumberInv

LEMMA HistoryInvariant == Spec => []HistoryInv
<1>1. Init => NumberInv
  BY DEF Init, NumberInv, UniqueNumbers, CurrentIsLast
<1>2. VersionInv /\ NumberInv <=> HistoryInv
  BY DEF HistoryInv
<1>3. Spec => []VersionInv
  BY VersionInvariant
<1>4. VersionInv /\ NumberInv /\ [Next]_vars => NumberInv'
  BY <1>2, HistoryStep DEF HistoryInv
<1> QED BY <1>1, <1>2, <1>3, <1>4, PTL DEF Spec

-----------------------------------------------------------------------------
(* The refinement.                                                         *)

HistoryOf(s) == [n \in 1..secrets[s].liveNumber |-> Nth(versions, s, n)]
DraftsOf(s)  == {v \in Versions : IsDraft(v) /\ versions[v].secret = s}
KnownRows    == {v \in Versions : versions[v] # None}
ScopeOf(q)   == IF requests[q] = None THEN {} ELSE requests[q].targets

\* What the callers see.
History  == [s \in Secrets |-> HistoryOf(s)]
Drafts   == [s \in Secrets |-> DraftsOf(s)]
Outcomes == [q \in Requests |-> StatusOf(q)]
Scopes   == [q \in Requests |-> ScopeOf(q)]

PublicationVars == <<History, Drafts, KnownRows, Outcomes, Scopes>>

\* A published version stands in the sequence at its number.
LEMMA NthIs ==
  ASSUME NEW rows, UniqueNumbers(rows), NEW v \in Versions, rows[v] # None,
         rows[v].state \in {"live", "retained"}
  PROVE  Nth(rows, rows[v].secret, rows[v].number) = v
<1>1. ASSUME NEW w \in Versions, rows[w] # None, rows[w].secret = rows[v].secret,
             rows[w].number = rows[v].number
      PROVE  w = v
  BY <1>1 DEF UniqueNumbers
<1> QED BY <1>1 DEF Nth

\* Every number up to the live one is that of a published version.
LEMMA HistoryEntry ==
  ASSUME HistoryInv, NEW s \in Secrets, NEW n \in 1..secrets[s].liveNumber
  PROVE  \E v \in Versions : /\ Published(v) /\ versions[v].secret = s /\ versions[v].number = n
                             /\ Nth(versions, s, n) = v
<1>1. n \in {versions[v].number : v \in {w \in Versions : Published(w) /\ versions[w].secret = s}}
  BY DEF HistoryInv, VersionInv, PublishedInOrder
<1>2. PICK v \in Versions : Published(v) /\ versions[v].secret = s /\ versions[v].number = n
  BY <1>1
<1>3. UniqueNumbers(versions)
  BY DEF HistoryInv, NumberInv
<1> QED BY <1>2, <1>3, NthIs DEF Published

\* Published versions stay where they are in the sequence of their secret.
LEMMA HistoryStays ==
  ASSUME HistoryInv, HistoryInv', IdentityStays, NEW s \in Secrets,
         \A w \in Versions : Published(w) => Published(w)',
         NEW n \in 1..secrets[s].liveNumber
  PROVE  Nth(versions', s, n) = Nth(versions, s, n)
<1>1. PICK v \in Versions : /\ Published(v) /\ versions[v].secret = s /\ versions[v].number = n
                            /\ Nth(versions, s, n) = v
  BY HistoryEntry
<1>2. versions'[v] # None /\ versions'[v].state \in {"live", "retained"}
  BY <1>1 DEF Published
<1>3. versions'[v].secret = s /\ versions'[v].number = n
  BY <1>1 DEF IdentityStays, Published
<1>4. UniqueNumbers(versions')
  BY DEF HistoryInv, NumberInv
<1> QED BY <1>1, <1>2, <1>3, <1>4, NthIs

LEMMA HistoryKept ==
  ASSUME HistoryInv, HistoryInv', IdentityStays, NEW s \in Secrets,
         \A w \in Versions : Published(w) => Published(w)',
         secrets'[s].liveNumber = secrets[s].liveNumber
  PROVE  HistoryOf(s)' = HistoryOf(s)
BY HistoryStays DEF HistoryOf

LEMMA HistoryGrows ==
  ASSUME HistoryInv, HistoryInv', IdentityStays, NEW s \in Secrets,
         \A w \in Versions : Published(w) => Published(w)',
         NEW v \in Versions, Published(v)', versions'[v].secret = s,
         versions'[v].number = secrets[s].liveNumber + 1,
         secrets'[s].liveNumber = secrets[s].liveNumber + 1
  PROVE  HistoryOf(s)' = Append(HistoryOf(s), v)
<1> DEFINE k == secrets[s].liveNumber
           old == HistoryOf(s)
<1>1. k \in Nat
  BY DEF HistoryInv, VersionInv, BaseInv, TypeInv, PromotionTypeOK, Secret
<1>2. old \in Seq(Versions) /\ Len(old) = k
  <2>1. old = [n \in 1..k |-> Nth(versions, s, n)]
    BY DEF HistoryOf
  <2>2. \A n \in 1..k : Nth(versions, s, n) \in Versions
    BY HistoryEntry
  <2> HIDE DEF k, old
  <2> QED BY <1>1, <2>1, <2>2
<1>3. Nth(versions', s, k + 1) = v
  BY NthIs DEF HistoryInv, NumberInv, Published
<1>4. HistoryOf(s)' = [n \in 1..(k + 1) |-> Nth(versions', s, n)]
  BY DEF HistoryOf
<1>5. \A n \in 1..k : Nth(versions', s, n) = old[n]
  BY HistoryStays DEF HistoryOf
<1> DEFINE new == HistoryOf(s)'
<1> HIDE DEF k, old, new
<1>6. /\ Append(old, v) \in Seq(Versions) /\ Len(Append(old, v)) = k + 1
      /\ \A n \in 1..k : Append(old, v)[n] = old[n]
      /\ Append(old, v)[k + 1] = v
  BY <1>1, <1>2, AppendProperties
<1>7. \A n \in 1..(k + 1) : n \in 1..k \/ n = k + 1
  BY <1>1
<1>8. \A n \in 1..(k + 1) : Nth(versions', s, n) = Append(old, v)[n]
  BY <1>3, <1>5, <1>6, <1>7
<1>9. Append(old, v) = [n \in 1..(k + 1) |-> Append(old, v)[n]]
  BY <1>1, <1>6, LenProperties
<1>10. new = Append(old, v)
  BY <1>4, <1>8, <1>9 DEF new
<1> QED BY <1>10 DEF new, old

\* What was published stays published.
LEMMA PublishedStays ==
  ASSUME HistoryInv, [Next]_vars, NEW w \in Versions, Published(w)
  PROVE  Published(w)'
<1> USE DEF HistoryInv, VersionInv, BaseInv, TypeInv, PromotionTypeOK
<1>1. CASE UNCHANGED <<secrets, versions>>
  BY <1>1 DEF Published
<1>2. ASSUME NEW v \in Versions, NewDraft(v)
      PROVE  Published(w)'
  BY <1>2 DEF NewDraft, Published
<1>3. ASSUME NEW v \in Versions, Discard(v)
      PROVE  Published(w)'
  BY <1>3 DEF Discard, IsDraft, Published
<1>4. ASSUME NEW v \in Versions, NEW z \in Secrets, WriteLive(v, z)
      PROVE  Published(w)'
  BY <1>4, UnusedId, SupersededIsPublished DEF WriteLive, Published
<1>5. ASSUME NEW c \in Clients, CommitPublish(c)
      PROVE  Published(w)'
  <2>1. w \notin jobs[c].targets
    BY <1>5, PublishRows DEF Published
  <2> QED BY <1>5, <2>1, ReplacedIsPublished
<1> QED BY <1>1, <1>2, <1>3, <1>4, <1>5, StepKinds

\* A step that moves no pointer keeps every history.
LEMMA HistoriesKept ==
  ASSUME HistoryInv, [Next]_vars, secrets' = secrets
  PROVE  History' = History
<1>1. HistoryInv' /\ IdentityStays
  BY HistoryStep, TargetsStep DEF HistoryInv, VersionInv, BaseInv
<1>2. ASSUME NEW s \in Secrets PROVE HistoryOf(s)' = HistoryOf(s)
  BY <1>1, PublishedStays, HistoryKept
<1> QED BY <1>2 DEF History

\* A new draft is one more draft of its secret, and of no other.
LEMMA DraftAdded ==
  ASSUME HistoryInv, NEW v \in Versions, NEW s \in Secrets, versions[v] = None,
         versions' = [versions EXCEPT ![v] = [secret |-> s, number |-> NextNumber(s), state |-> "draft"]]
  PROVE  /\ Drafts' = [Drafts EXCEPT ![s] = Drafts[s] \cup {v}]
         /\ KnownRows' = KnownRows \cup {v}
<1>1. /\ versions'[v] \in Version /\ versions'[v].secret = s /\ versions'[v].state = "draft"
      /\ \A w \in Versions \ {v} : versions'[w] = versions[w]
  <2>1. [secret |-> s, number |-> NextNumber(s), state |-> "draft"] \in Version
    BY NextNumberIsNext DEF HistoryInv, VersionInv, BaseInv, TypeInv, PromotionTypeOK, Version
  <2> QED BY <2>1 DEF HistoryInv, VersionInv, BaseInv, TypeInv, PromotionTypeOK
<1>2. versions'[v] # None
  BY <1>1, RowsExist
<1>3. KnownRows' = KnownRows \cup {v}
  BY <1>1, <1>2 DEF KnownRows
<1>4. DraftsOf(s)' = DraftsOf(s) \cup {v}
  BY <1>1, <1>2 DEF DraftsOf, IsDraft
<1>5. \A z \in Secrets \ {s} : DraftsOf(z)' = DraftsOf(z)
  BY <1>1, <1>2 DEF DraftsOf, IsDraft
<1> QED BY <1>3, <1>4, <1>5 DEF Drafts

\* A draft written, or copied from an older version.
LEMMA DraftOnHistory ==
  ASSUME HistoryInv, [Next]_vars, NEW v \in Versions, NEW s \in Secrets \ Unprotected,
         versions[v] = None, UNCHANGED <<secrets, requests>>,
         versions' = [versions EXCEPT ![v] = [secret |-> s, number |-> NextNumber(s), state |-> "draft"]]
  PROVE  Publications!Next
<1>1. /\ Drafts' = [Drafts EXCEPT ![s] = Drafts[s] \cup {v}]
      /\ KnownRows' = KnownRows \cup {v} /\ v \in Versions \ KnownRows
  BY DraftAdded DEF KnownRows
<1>2. History' = History
  BY HistoriesKept
<1>3. Outcomes' = Outcomes /\ Scopes' = Scopes
  BY DEF Outcomes, Scopes, StatusOf, ScopeOf, StillPending
<1>4. Publications!Draft(v, s)
  BY <1>1, <1>2, <1>3
     DEF Publications!Draft, Publications!AddDraft, History, HistoryOf, Drafts, DraftsOf, KnownRows,
         Outcomes, Scopes, ScopeOf
<1> QED BY <1>1, <1>4 DEF Publications!Next, KnownRows

\* The write of an environment that is not protected.
LEMMA WriteLiveOnHistory ==
  ASSUME HistoryInv, [Next]_vars, NEW v \in Versions, NEW s \in Secrets, WriteLive(v, s)
  PROVE  Publications!Next
<1> USE DEF HistoryInv, VersionInv, BaseInv, TypeInv, PromotionTypeOK
<1>1. versions[v] = None /\ s \in Unprotected
  BY UnusedId DEF WriteLive
<1>2. /\ versions'[v] = [secret |-> s, number |-> NextNumber(s), state |-> "live"]
      /\ versions'[v] \in Version /\ versions'[v] # None
      /\ secrets' = [secrets EXCEPT ![s] = [current |-> v, liveNumber |-> NextNumber(s)]]
      /\ NextNumber(s) \in Nat \ {0} /\ secrets[s].liveNumber = NextNumber(s) - 1
  <2>1. [secret |-> s, number |-> NextNumber(s), state |-> "live"] \in Version
    BY NextNumberIsNext DEF Version
  <2> QED BY <2>1, NextNumberIsNext, RowsExist DEF WriteLive, LiveGuard, LiveSecret
<1>3. ASSUME NEW w \in Versions \ {v}
      PROVE  /\ versions'[w] # None <=> versions[w] # None
             /\ IsDraft(w)' <=> IsDraft(w)
             /\ versions[w] # None => versions'[w].secret = versions[w].secret
  <2>1. CASE w = secrets[s].current
    <3>1. versions[w] \in Version /\ versions[w].state = "live" /\ versions'[w] = Retained(versions[w])
      BY <2>1, RowsExist DEF WriteLive, CurrentIsLive
    <3>2. /\ versions'[w] \in Version /\ versions'[w].state = "retained"
          /\ versions'[w].secret = versions[w].secret
      BY <3>1 DEF Retained, Version
    <3> QED BY <3>1, <3>2, RowsExist DEF IsDraft
  <2>2. CASE w # secrets[s].current
    BY <2>2 DEF WriteLive, IsDraft
  <2> QED BY <2>1, <2>2
<1>4. HistoryInv' /\ IdentityStays
  BY HistoryStep, TargetsStep
<1>5. HistoryOf(s)' = Append(HistoryOf(s), v)
  <2>1. /\ Published(v)' /\ versions'[v].secret = s
        /\ versions'[v].number = secrets[s].liveNumber + 1
        /\ secrets'[s].liveNumber = secrets[s].liveNumber + 1
    BY <1>2 DEF Published, Secret
  <2> QED BY <1>4, <2>1, PublishedStays, HistoryGrows
<1>6. ASSUME NEW z \in Secrets \ {s} PROVE HistoryOf(z)' = HistoryOf(z)
  BY <1>2, <1>4, PublishedStays, HistoryKept
<1>7. History' = [History EXCEPT ![s] = Append(History[s], v)]
  BY <1>5, <1>6 DEF History
<1>8. Drafts' = Drafts
  <2>1. ~IsDraft(v) /\ ~IsDraft(v)'
    BY <1>1, <1>2 DEF IsDraft
  <2>2. ASSUME NEW z \in Secrets PROVE DraftsOf(z)' = DraftsOf(z)
    BY <1>3, <2>1 DEF DraftsOf, IsDraft
  <2> QED BY <2>2 DEF Drafts
<1>9. KnownRows' = KnownRows \cup {v} /\ v \in Versions \ KnownRows
  BY <1>1, <1>2, <1>3 DEF KnownRows
<1>10. Outcomes' = Outcomes /\ Scopes' = Scopes
  BY DEF WriteLive, Outcomes, Scopes, StatusOf, ScopeOf, StillPending
<1> USE DEF History, HistoryOf, Drafts, DraftsOf, KnownRows, Outcomes, Scopes, ScopeOf
<1>11. Publications!WriteLive(v, s)
  BY <1>7, <1>8, <1>9, <1>10 DEF Publications!WriteLive
<1> QED BY <1>1, <1>9, <1>11 DEF Publications!Next

\* A promotion names something.
AsksForSomething ==
  \A c \in Clients : In(c, "promoting") \/ In(c, "superseding") => jobs[c].targets # {}

LEMMA AsksStep ==
  ASSUME TypeInv, AsksForSomething, [Next]_vars
  PROVE  AsksForSomething'
<1> USE DEF TypeInv, PromotionTypeOK
<1>1. ASSUME NEW c \in Clients, NEW targets, BeginPromotion(c, targets)
      PROVE  AsksForSomething'
  BY <1>1 DEF BeginPromotion, AsksForSomething, In, Idle
<1>2. ASSUME NEW c \in Clients,
             SelectPending(c) \/ BeginPublish(c) \/ CommitPublish(c) \/ Abandon(c)
      PROVE  AsksForSomething'
  BY <1>2 DEF SelectPending, BeginPublish, CommitPublish, Abandon, AsksForSomething, In, Idle, Job
<1>3. ASSUME NEW c \in Clients, NEW q \in Requests, BeginApproval(c, q) \/ CommitPromotion(c, q)
      PROVE  AsksForSomething'
  <2>1. jobs' = [jobs EXCEPT ![c] = jobs'[c]]
    BY <1>3 DEF BeginApproval, CommitPromotion
  <2>2. jobs'[c].phase \in {"approving", "idle"}
    <3>1. CASE BeginApproval(c, q)
      BY <3>1 DEF BeginApproval, Idle
    <3>2. CASE CommitPromotion(c, q)
      BY <3>2 DEF CommitPromotion, Idle
    <3> QED BY <1>3, <3>1, <3>2
  <2> QED BY <2>1, <2>2 DEF AsksForSomething, In
<1>4. ASSUME NEW c \in Clients, NEW v \in Versions, BeginRollback(c, v)
      PROVE  AsksForSomething'
  BY <1>4 DEF BeginRollback, AsksForSomething, In, Idle
<1>5. ASSUME NEW c \in Clients, NEW v, NEW source, NEW q, CommitRollback(c, v, source, q)
      PROVE  AsksForSomething'
  BY <1>5 DEF CommitRollback, AsksForSomething, In, Idle
<1>6. CASE UNCHANGED jobs
  BY <1>6 DEF AsksForSomething, In
<1> QED
  BY <1>1, <1>2, <1>3, <1>4, <1>5, <1>6
  DEF Next, vars, ChangeDelivery, Decline, Discard, WriteDraft, WriteLive, CopyAsDraft

\* A promotion that commits.
LEMMA PromoteOnHistory ==
  ASSUME HistoryInv, AsksForSomething, [Next]_vars, NEW c \in Clients, NEW q \in Requests,
         CommitPromotion(c, q)
  PROVE  Publications!Next
<1> USE DEF HistoryInv, VersionInv, BaseInv, TypeInv, PromotionTypeOK
<1>1. /\ In(c, "superseding") /\ requests[q] = None /\ UNCHANGED <<secrets, versions>>
      /\ jobs[c] \in Job /\ JobHolds(jobs[c])
  BY DEF CommitPromotion, JobsHold
<1>2. PICK targets \in SUBSET Versions : targets = jobs[c].targets
  BY <1>1 DEF Job
<1>3. targets # {} /\ targets \subseteq KnownRows
  BY <1>1, <1>2 DEF AsksForSomething, TargetsInv, NamesTargets, KnownRows
<1>4. jobs[c].superseded = PendingPromotions
  BY DEF CommitPromotion, IndexAdmits, RequestInv, LocksHold
<1>5. /\ requests'[q] \in Request /\ requests'[q] # None
      /\ requests'[q].purpose = "protected_promotion" /\ requests'[q].status = "pending"
      /\ requests'[q].targets = targets
  <2>1. requests'[q] = [purpose |-> "protected_promotion", status |-> "pending",
                        targets |-> targets, fingerprint |-> jobs[c].fingerprint]
    BY <1>2 DEF CommitPromotion
  <2>2. jobs[c].fingerprint \in Fingerprints
    BY <1>1 DEF JobHolds, In
  <2>3. requests'[q] \in Request
    BY <2>1, <2>2 DEF Request, Purposes, Statuses
  <2> QED BY <2>1, <2>3, RowsExist
<1>6. StatusOf(q) = "none" /\ StatusOf(q)' = "promotion" /\ ScopeOf(q)' = targets
  BY <1>1, <1>5 DEF StatusOf, ScopeOf, StillPending
<1>7. ASSUME NEW p \in Requests \ {q}, p \in PendingPromotions
      PROVE  StatusOf(p) = "promotion" /\ StatusOf(p)' = "closed" /\ ScopeOf(p)' = ScopeOf(p)
  <2>1. requests[p] \in Request /\ requests[p] # None
    BY <1>7 DEF PendingPromotions
  <2>2. requests'[p] = [requests[p] EXCEPT !.status = "superseded"]
    BY <1>4, <1>7 DEF CommitPromotion
  <2>3. /\ requests'[p] \in Request /\ requests'[p].status = "superseded"
        /\ requests'[p].targets = requests[p].targets
    BY <2>1, <2>2 DEF Request, Statuses
  <2> QED BY <1>7, <2>1, <2>3, RowsExist DEF StatusOf, ScopeOf, StillPending, PendingPromotions
<1>8. ASSUME NEW p \in Requests \ {q}, p \notin PendingPromotions
      PROVE  StatusOf(p) # "promotion" /\ StatusOf(p)' = StatusOf(p) /\ ScopeOf(p)' = ScopeOf(p)
  <2>1. requests'[p] = requests[p]
    BY <1>4, <1>8 DEF CommitPromotion
  <2> QED BY <1>8, <2>1 DEF StatusOf, ScopeOf, StillPending, PendingPromotions
<1>9. History' = History /\ Drafts' = Drafts /\ KnownRows' = KnownRows
  BY <1>1, HistoriesKept DEF Drafts, DraftsOf, IsDraft, KnownRows
<1>10. Scopes' = [Scopes EXCEPT ![q] = targets]
  BY <1>6, <1>7, <1>8 DEF Scopes
<1>11. Outcomes' = [p \in Requests |-> IF p = q THEN "promotion"
                      ELSE IF p \in {r \in Requests : Outcomes[r] = "promotion"} THEN "closed"
                      ELSE Outcomes[p]]
  BY <1>6, <1>7, <1>8 DEF Outcomes
<1>12. Publications!Ask(q, "promotion", targets, {p \in Requests : Outcomes[p] = "promotion"})
  BY <1>10, <1>11 DEF Publications!Ask, Outcomes, Scopes, ScopeOf
<1>13. targets \in (SUBSET KnownRows) \ {{}} /\ Outcomes[q] = "none"
  BY <1>3, <1>6 DEF Outcomes
<1> USE DEF History, HistoryOf, Drafts, DraftsOf, KnownRows, Outcomes, Scopes, ScopeOf
<1>14. Publications!Promote(q)
  BY <1>9, <1>12, <1>13 DEF Publications!Promote
<1> QED BY <1>14 DEF Publications!Next

\* A rollback that commits.
LEMMA RollbackOnHistory ==
  ASSUME HistoryInv, [Next]_vars, NEW c \in Clients, NEW v \in Versions, NEW source \in Versions,
         NEW q \in Requests, CommitRollback(c, v, source, q)
  PROVE  Publications!Next
<1> USE DEF HistoryInv, VersionInv, BaseInv, TypeInv, PromotionTypeOK
<1>1. /\ In(c, "rolling") /\ v \in jobs[c].targets /\ requests[q] = None /\ secrets' = secrets
      /\ jobs[c] \in Job /\ JobHolds(jobs[c])
  BY DEF CommitRollback, JobsHold
<1>2. versions[v] = None /\ jobs[c].targets = {v}
  BY <1>1 DEF TargetsInv, NamesTargets
<1>3. PICK s \in Secrets \ Unprotected : s = versions[source].secret
  BY DEF CommitRollback, Copyable, Version
<1>4. versions' = [versions EXCEPT ![v] = [secret |-> s, number |-> NextNumber(s), state |-> "draft"]]
  BY <1>3 DEF CommitRollback, Copied
<1>5. /\ Drafts' = [Drafts EXCEPT ![s] = Drafts[s] \cup {v}]
      /\ KnownRows' = KnownRows \cup {v} /\ v \in Versions \ KnownRows
  BY <1>2, <1>4, DraftAdded DEF KnownRows
<1>6. History' = History
  BY <1>1, HistoriesKept
<1>7. /\ requests'[q] \in Request /\ requests'[q] # None
      /\ requests'[q].purpose = "protected_rollback" /\ requests'[q].status = "pending"
      /\ requests'[q].targets = {v}
  <2>1. requests'[q] = [purpose |-> "protected_rollback", status |-> "pending",
                        targets |-> {v}, fingerprint |-> jobs[c].fingerprint]
    BY <1>2 DEF CommitRollback
  <2>2. jobs[c].fingerprint \in Fingerprints
    BY <1>1 DEF JobHolds, In
  <2>3. requests'[q] \in Request
    BY <2>1, <2>2 DEF Request, Purposes, Statuses
  <2>4. requests'[q] # None
    BY <2>3, RowsExist
  <2> QED BY <2>1, <2>3, <2>4
<1>8. StatusOf(q) = "none" /\ StatusOf(q)' = "rollback" /\ ScopeOf(q)' = {v}
  BY <1>1, <1>7 DEF StatusOf, ScopeOf, StillPending
<1>9. \A p \in Requests \ {q} : StatusOf(p)' = StatusOf(p) /\ ScopeOf(p)' = ScopeOf(p)
  BY DEF CommitRollback, StatusOf, ScopeOf, StillPending
<1>10. Scopes' = [Scopes EXCEPT ![q] = {v}]
  BY <1>8, <1>9 DEF Scopes
<1>11. Outcomes' = [p \in Requests |-> IF p = q THEN "rollback"
                                       ELSE IF p \in {} THEN "closed" ELSE Outcomes[p]]
  BY <1>8, <1>9 DEF Outcomes
<1>12. Len(History[s]) > 1
  <2>1. /\ versions[source] \in Version /\ versions[source].state = "retained" /\ Published(source)
        /\ versions[source].secret = s
    BY <1>3 DEF CommitRollback, Copyable, Published
  <2>2. versions[source].number \in 1..secrets[s].liveNumber /\ secrets[s].liveNumber \in Nat
    BY <2>1 DEF PublishedInOrder, Secret
  <2>3. /\ secrets[s].current \in Versions
        /\ versions[secrets[s].current].number = secrets[s].liveNumber
    BY <2>2 DEF NumberInv, CurrentIsLast
  <2>4. /\ versions[secrets[s].current] # None /\ versions[secrets[s].current].secret = s
        /\ versions[secrets[s].current].state = "live"
    BY <2>3 DEF CurrentIsLive
  <2>5. versions[source].number # secrets[s].liveNumber
    BY <2>1, <2>3, <2>4, RowsExist DEF NumberInv, UniqueNumbers
  <2>6. secrets[s].liveNumber > 1
    BY <2>2, <2>5
  <2>7. Len(HistoryOf(s)) = secrets[s].liveNumber
    BY <2>2 DEF HistoryOf
  <2> QED BY <2>6, <2>7 DEF History
<1>13. Outcomes[q] = "none"
  BY <1>8 DEF Outcomes
<1> USE DEF History, HistoryOf, Drafts, DraftsOf, KnownRows, Outcomes, Scopes, ScopeOf
<1>14. Publications!Rollback(q, v, s)
  BY <1>5, <1>6, <1>10, <1>11, <1>12, <1>13
     DEF Publications!Rollback, Publications!AddDraft, Publications!Ask
<1> QED BY <1>5, <1>14 DEF Publications!Next

\* A rejection or a cancellation.
LEMMA DeclineOnHistory ==
  ASSUME HistoryInv, [Next]_vars, NEW q \in Requests, Decline(q)
  PROVE  Publications!Next
<1> USE DEF HistoryInv, VersionInv, BaseInv, TypeInv, PromotionTypeOK
<1>1. /\ requests[q] \in Request /\ requests[q] # None /\ requests[q].status = "pending"
      /\ requests' = [requests EXCEPT ![q] = [requests[q] EXCEPT !.status = "rejected"]]
      /\ UNCHANGED <<secrets, versions>>
  BY DEF Decline, StillPending
<1>2. /\ requests'[q] \in Request /\ requests'[q] # None /\ requests'[q].status = "rejected"
      /\ requests'[q].targets = requests[q].targets
  <2>1. requests'[q] = [requests[q] EXCEPT !.status = "rejected"]
    BY <1>1
  <2>2. requests'[q] \in Request
    BY <1>1, <2>1 DEF Request, Statuses
  <2> QED BY <1>1, <2>1, <2>2, RowsExist DEF Request
<1>3. /\ StatusOf(q) \in {"promotion", "rollback"} /\ StatusOf(q)' = "closed"
      /\ ScopeOf(q)' = ScopeOf(q)
  BY <1>1, <1>2 DEF StatusOf, ScopeOf, StillPending
<1>4. \A p \in Requests \ {q} : StatusOf(p)' = StatusOf(p) /\ ScopeOf(p)' = ScopeOf(p)
  BY <1>1 DEF StatusOf, ScopeOf, StillPending
<1>5. /\ Outcomes[q] \in {"promotion", "rollback"}
      /\ Outcomes' = [Outcomes EXCEPT ![q] = "closed"] /\ Scopes' = Scopes
  BY <1>3, <1>4 DEF Outcomes, Scopes
<1>6. History' = History /\ Drafts' = Drafts /\ KnownRows' = KnownRows
  BY <1>1, HistoriesKept DEF Drafts, DraftsOf, IsDraft, KnownRows
<1> USE DEF History, HistoryOf, Drafts, DraftsOf, KnownRows, Outcomes, Scopes, ScopeOf
<1>7. Publications!Decline(q)
  BY <1>5, <1>6 DEF Publications!Decline, Publications!Pending
<1> QED BY <1>7 DEF Publications!Next

\* A discard closes the pending requests that name the draft.
LEMMA DiscardOnHistory ==
  ASSUME HistoryInv, [Next]_vars, NEW v \in Versions, Discard(v)
  PROVE  Publications!Next
<1> USE DEF HistoryInv, VersionInv, BaseInv, TypeInv, PromotionTypeOK
<1>1. /\ versions[v] \in Version /\ versions[v] # None /\ versions[v].state = "draft"
      /\ versions' = [versions EXCEPT ![v] = [versions[v] EXCEPT !.state = "discarded"]]
      /\ secrets' = secrets
  BY DEF Discard, IsDraft, Discarded
<1>2. /\ versions'[v] \in Version /\ versions'[v] # None /\ versions'[v].state = "discarded"
      /\ \A w \in Versions \ {v} : versions'[w] = versions[w]
  BY <1>1, RowsExist DEF Version
<1>3. PICK s \in Secrets : s = versions[v].secret
  BY <1>1 DEF Version
<1>4. v \in Drafts[s] /\ v \in KnownRows /\ KnownRows' = KnownRows
  BY <1>1, <1>2, <1>3 DEF Drafts, DraftsOf, IsDraft, KnownRows
<1>5. Drafts' = [z \in Secrets |-> Drafts[z] \ {v}]
  <2>1. ASSUME NEW z \in Secrets PROVE DraftsOf(z)' = DraftsOf(z) \ {v}
    BY <1>2 DEF DraftsOf, IsDraft
  <2> QED BY <2>1 DEF Drafts
<1>6. ASSUME NEW p \in Requests, p \in ClosedBy(v)
      PROVE  /\ StatusOf(p) \in {"promotion", "rollback"} /\ v \in ScopeOf(p)
             /\ StatusOf(p)' = "closed" /\ ScopeOf(p)' = ScopeOf(p)
  <2>1. /\ requests[p] \in Request /\ requests[p] # None /\ requests[p].status = "pending"
        /\ v \in requests[p].targets
    BY <1>6 DEF ClosedBy, StillPending
  <2>2. requests'[p] = [requests[p] EXCEPT !.status = "draft_discard_closed"]
    BY <1>6 DEF Discard
  <2>3. /\ requests'[p] \in Request /\ requests'[p].status = "draft_discard_closed"
        /\ requests'[p].targets = requests[p].targets
    BY <2>1, <2>2 DEF Request, Statuses
  <2> QED BY <2>1, <2>3, RowsExist DEF StatusOf, ScopeOf, StillPending
<1>7. ASSUME NEW p \in Requests, p \notin ClosedBy(v)
      PROVE  /\ StatusOf(p) \notin {"promotion", "rollback"} \/ v \notin ScopeOf(p)
             /\ StatusOf(p)' = StatusOf(p) /\ ScopeOf(p)' = ScopeOf(p)
  <2>1. requests'[p] = requests[p]
    BY <1>7 DEF Discard
  <2> QED BY <1>7, <2>1 DEF StatusOf, ScopeOf, StillPending, ClosedBy
<1>8. Scopes' = Scopes
  BY <1>6, <1>7 DEF Scopes
<1>9. Outcomes' = [p \in Requests |->
                     IF Outcomes[p] \in {"promotion", "rollback"} /\ v \in Scopes[p] THEN "closed"
                     ELSE Outcomes[p]]
  <2>1. ASSUME NEW p \in Requests
        PROVE  StatusOf(p)' = IF StatusOf(p) \in {"promotion", "rollback"} /\ v \in ScopeOf(p)
                              THEN "closed" ELSE StatusOf(p)
    BY <1>6, <1>7
  <2> QED BY <2>1 DEF Outcomes, Scopes
<1>10. History' = History
  BY <1>1, HistoriesKept
<1> USE DEF History, HistoryOf, Drafts, DraftsOf, KnownRows, Outcomes, Scopes, ScopeOf
<1>11. Publications!Discard(v)
  BY <1>4, <1>5, <1>8, <1>9, <1>10 DEF Publications!Discard, Publications!Pending
<1> QED BY <1>4, <1>11 DEF Publications!Next

\* A publish: its guards make it the publish of its whole change set, in the order
\* of the drafts.
LEMMA PublishOnHistory ==
  ASSUME HistoryInv, [Next]_vars, NEW c \in Clients, CommitPublish(c)
  PROVE  Publications!Next
<1> USE DEF HistoryInv, VersionInv, BaseInv, TypeInv, PromotionTypeOK
<1>1. PICK q \in Requests : q = jobs[c].request
  BY PublishTargets DEF CommitPublish
<1>2. PICK targets \in SUBSET Versions : targets = jobs[c].targets
  BY PublishTargets DEF CommitPublish
<1>3. /\ requests[q] \in Request /\ requests[q] # None /\ requests[q].status = "pending"
      /\ requests[q].targets = targets
      /\ requests' = [requests EXCEPT ![q] = [requests[q] EXCEPT !.status = "approved_applied"]]
  BY <1>1, <1>2, PublishTargets, RowsExist DEF CommitPublish, StillPending
<1>4. ASSUME NEW v \in targets
      PROVE  /\ versions[v] \in Version /\ versions[v].state = "draft" /\ IsDraft(v)
             /\ versions'[v] \in Version /\ versions'[v].state = "live" /\ Published(v)'
             /\ versions'[v].secret = versions[v].secret
             /\ versions'[v].number = secrets[versions[v].secret].liveNumber + 1
             /\ secrets'[versions[v].secret].liveNumber = secrets[versions[v].secret].liveNumber + 1
             /\ \A w \in targets : versions[v].secret = versions[w].secret => v = w
  <2>1. /\ versions[v] \in Version /\ versions[v].state = "draft"
        /\ versions'[v] = [versions[v] EXCEPT !.state = "live"]
        /\ secrets'[versions[v].secret] = LiveSecret(v, versions[v].number)
        /\ secrets[versions[v].secret].liveNumber = versions[v].number - 1
        /\ \A w \in targets : versions[v].secret = versions[w].secret => v = w
    BY <1>2, PublishRows
  <2>2. /\ versions'[v] \in Version /\ versions'[v].state = "live"
        /\ versions'[v].secret = versions[v].secret /\ versions'[v].number = versions[v].number
    BY <2>1 DEF Version
  <2>3. versions[v].number \in Nat /\ secrets'[versions[v].secret].liveNumber = versions[v].number
    BY <2>1 DEF Version, LiveSecret
  <2> QED BY <2>1, <2>2, <2>3, RowsExist DEF IsDraft, Published
<1>5. ASSUME NEW w \in Versions \ targets
      PROVE  /\ versions'[w] # None <=> versions[w] # None
             /\ IsDraft(w)' <=> IsDraft(w)
             /\ versions[w] # None => versions'[w].secret = versions[w].secret
  <2>1. CASE versions'[w] = versions[w]
    BY <2>1 DEF IsDraft
  <2>2. CASE /\ versions[w] \in Version /\ versions[w].state = "live"
             /\ versions'[w] = [versions[w] EXCEPT !.state = "retained"]
    <3>1. /\ versions'[w] \in Version /\ versions'[w].state = "retained"
          /\ versions'[w].secret = versions[w].secret
      BY <2>2 DEF Version
    <3> QED BY <2>2, <3>1, RowsExist DEF IsDraft
  <2> QED BY <1>2, <2>1, <2>2, PublishRows
<1>6. HistoryInv' /\ IdentityStays
  BY HistoryStep, TargetsStep
<1>7. ASSUME NEW s \in Secrets
      PROVE  /\ DraftsOf(s)' = DraftsOf(s) \ targets
             /\ \A v \in Versions : v \in targets \cap DraftsOf(s) <=> v \in targets /\ versions[v].secret = s
  <2>1. \A v \in targets : v \notin DraftsOf(s)' /\ (v \in DraftsOf(s) <=> versions[v].secret = s)
    BY <1>4 DEF DraftsOf, IsDraft
  <2>2. \A v \in Versions \ targets : v \in DraftsOf(s)' <=> v \in DraftsOf(s)
    BY <1>5 DEF DraftsOf, IsDraft
  <2> QED BY <2>1, <2>2 DEF DraftsOf
<1>8. ASSUME NEW s \in Secrets
      PROVE  HistoryOf(s)' = IF targets \cap DraftsOf(s) = {} THEN HistoryOf(s)
                             ELSE Append(HistoryOf(s), CHOOSE v \in targets : v \in DraftsOf(s))
  <2>1. CASE \E v \in targets : versions[v].secret = s
    <3>1. PICK v \in targets : versions[v].secret = s
      BY <2>1
    <3>2. v \in Versions
      OBVIOUS
    <3>3. HistoryOf(s)' = Append(HistoryOf(s), v)
      BY <1>4, <1>6, <3>1, <3>2, PublishedStays, HistoryGrows
    <3>4. v \in DraftsOf(s) /\ \A w \in targets : w \in DraftsOf(s) => w = v
      BY <1>4, <1>7, <3>1
    <3>5. (CHOOSE w \in targets : w \in DraftsOf(s)) = v
      BY <3>4
    <3> QED BY <3>3, <3>4, <3>5
  <2>2. CASE \A v \in targets : versions[v].secret # s
    <3>1. secrets'[s] = secrets[s]
      BY <1>2, <2>2, PublishRows
    <3>2. HistoryOf(s)' = HistoryOf(s)
      BY <1>6, <3>1, PublishedStays, HistoryKept
    <3>3. targets \cap DraftsOf(s) = {}
      BY <1>7, <2>2
    <3> QED BY <3>2, <3>3
  <2> QED BY <2>1, <2>2
<1>9. /\ Outcomes[q] \in {"promotion", "rollback"} /\ Scopes[q] = targets
      /\ Outcomes' = [Outcomes EXCEPT ![q] = "applied"] /\ Scopes' = Scopes
  <2>1. requests'[q] = [requests[q] EXCEPT !.status = "approved_applied"]
    BY <1>3
  <2>2. requests'[q] \in Request /\ requests'[q].status = "approved_applied" /\ requests'[q].targets = targets
    BY <1>3, <2>1 DEF Request, Statuses
  <2>3. /\ StatusOf(q) \in {"promotion", "rollback"} /\ StatusOf(q)' = "applied"
        /\ ScopeOf(q) = targets /\ ScopeOf(q)' = targets
    BY <1>3, <2>2, RowsExist DEF StatusOf, ScopeOf, StillPending
  <2>4. \A p \in Requests \ {q} : StatusOf(p)' = StatusOf(p) /\ ScopeOf(p)' = ScopeOf(p)
    BY <1>3 DEF StatusOf, ScopeOf, StillPending
  <2> QED BY <2>3, <2>4 DEF Outcomes, Scopes
<1>10. KnownRows' = KnownRows
  BY <1>4, <1>5, RowsExist DEF KnownRows
<1>11. Drafts' = [s \in Secrets |-> Drafts[s] \ targets]
  BY <1>7 DEF Drafts
<1>12. History' = [s \in Secrets |-> IF targets \cap Drafts[s] = {} THEN History[s]
                                     ELSE Append(History[s], CHOOSE v \in targets : v \in Drafts[s])]
  <2>1. ASSUME NEW s \in Secrets
        PROVE  HistoryOf(s)' = IF targets \cap Drafts[s] = {} THEN History[s]
                               ELSE Append(History[s], CHOOSE v \in targets : v \in Drafts[s])
    BY <1>8 DEF Drafts, History
  <2> QED BY <2>1 DEF History
<1>13. targets \subseteq UNION {Drafts[s] : s \in Secrets}
  <2>1. ASSUME NEW v \in targets PROVE \E s \in Secrets : v \in Drafts[s]
    BY <1>4, <1>7 DEF Drafts, Version
  <2> QED BY <2>1
<1>14. \A s \in Secrets : \A v, w \in targets \cap Drafts[s] : v = w
  BY <1>4, <1>7 DEF Drafts
<1>15. /\ Outcomes[q] \in {"promotion", "rollback"}
       /\ Scopes[q] \subseteq UNION {Drafts[s] : s \in Secrets}
       /\ \A s \in Secrets : \A v, w \in Scopes[q] \cap Drafts[s] : v = w
       /\ History' = [s \in Secrets |-> IF Scopes[q] \cap Drafts[s] = {} THEN History[s]
                                        ELSE Append(History[s], CHOOSE v \in Scopes[q] : v \in Drafts[s])]
       /\ Drafts' = [s \in Secrets |-> Drafts[s] \ Scopes[q]]
       /\ Outcomes' = [Outcomes EXCEPT ![q] = "applied"]
       /\ KnownRows' = KnownRows /\ Scopes' = Scopes
  <2>1. Scopes[q] = targets
    BY <1>9
  <2> HIDE DEF History, Drafts, Outcomes, Scopes, KnownRows
  <2> QED BY ONLY <1>9, <1>10, <1>11, <1>12, <1>13, <1>14, <2>1
<1>16. Publications!Publish(q)
  BY ONLY <1>15
  DEF Publications!Publish, Publications!Pending, History, HistoryOf, Drafts, DraftsOf, KnownRows,
      Outcomes, Scopes, ScopeOf
<1> QED BY <1>16 DEF Publications!Next

\* Every step is one call of the contract, or none.
LEMMA StepOnHistory ==
  ASSUME HistoryInv, AsksForSomething, [Next]_vars
  PROVE  Publications!Next \/ UNCHANGED PublicationVars
<1> USE DEF HistoryInv, VersionInv, BaseInv, TypeInv, PromotionTypeOK
<1>1. ASSUME NEW v \in Versions, NEW s \in Secrets, WriteDraft(v, s)
      PROVE  Publications!Next
  <2>1. versions[v] = None /\ s \in Secrets \ Unprotected
    BY <1>1, UnusedId DEF WriteDraft
  <2> QED BY <1>1, <2>1, DraftOnHistory DEF WriteDraft
<1>2. ASSUME NEW v \in Versions, NEW source \in Versions, CopyAsDraft(v, source)
      PROVE  Publications!Next
  <2>1. versions[v] = None
    BY <1>2, UnusedId DEF CopyAsDraft
  <2>2. PICK s \in Secrets \ Unprotected : s = versions[source].secret
    BY <1>2 DEF CopyAsDraft, Copyable, Version
  <2> QED BY <1>2, <2>1, <2>2, DraftOnHistory DEF CopyAsDraft, Copied
<1>3. CASE UNCHANGED <<secrets, versions, requests>>
  BY <1>3
  DEF PublicationVars, History, HistoryOf, Drafts, DraftsOf, IsDraft, KnownRows, Outcomes, Scopes,
      StatusOf, ScopeOf, StillPending
<1>4. \/ UNCHANGED <<secrets, versions, requests>>
      \/ \E v \in Versions, s \in Secrets : WriteDraft(v, s) \/ WriteLive(v, s)
      \/ \E v, source \in Versions : CopyAsDraft(v, source)
      \/ \E v \in Versions : Discard(v)
      \/ \E q \in Requests : Decline(q)
      \/ \E c \in Clients : CommitPublish(c)
      \/ \E c \in Clients, q \in Requests : CommitPromotion(c, q)
      \/ \E c \in Clients, v, source \in Versions, q \in Requests : CommitRollback(c, v, source, q)
  BY DEF Next, vars, ChangeDelivery, SelectPending, BeginPublish, Abandon, BeginPromotion,
         BeginRollback, BeginApproval
<1> QED
  BY <1>1, <1>2, <1>3, <1>4, WriteLiveOnHistory, DiscardOnHistory, DeclineOnHistory,
     PublishOnHistory, PromoteOnHistory, RollbackOnHistory

\* For any number of secrets, versions, requests and clients, the calls on Secret
\* Versions and Approval Requests, each of them a chain of transactions, take effect
\* as single steps of PublicationHistory, from its initial state.
THEOREM PromotionsAreAtomic ==
  Spec => Publications!Init /\ CallsAreAtomic
<1>1. Init => Publications!Init
  <2> SUFFICES ASSUME Init PROVE Publications!Init
    OBVIOUS
  <2>1. /\ \A s \in Secrets : [n \in 1..secrets[s].liveNumber |-> Nth(versions, s, n)] = << >>
        /\ \A q \in Requests : StatusOf(q) = "none" /\ requests[q] = None
    BY DEF Init, StatusOf
  <2> QED BY <2>1 DEF Init, Publications!Init, IsDraft
<1>2. Init => AsksForSomething
  BY DEF Init, AsksForSomething, In, Idle
<1>3. HistoryInv /\ AsksForSomething /\ [Next]_vars => AsksForSomething'
  BY AsksStep DEF HistoryInv, VersionInv, BaseInv
<1>4. HistoryInv /\ AsksForSomething /\ [Next]_vars => [Publications!Next]_(Publications!vars)
  BY StepOnHistory
  DEF PublicationVars, Publications!vars, History, HistoryOf, Drafts, DraftsOf, KnownRows, Outcomes,
      Scopes, ScopeOf
<1> QED BY <1>1, <1>2, <1>3, <1>4, HistoryInvariant, PTL DEF Spec, CallsAreAtomic

-----------------------------------------------------------------------------
(* What a review sees.                                                     *)

\* A promotion reviews versions that exist, a rollback a copy that does not exist
\* yet.
ReviewSees(purpose, row) ==
  IF purpose = "protected_promotion" THEN row.fingerprint.drafts = row.targets
  ELSE row.fingerprint.drafts = {} /\ row.targets # {}

JobReview(c) ==
  /\ In(c, "promoting") \/ In(c, "superseding") => ReviewSees("protected_promotion", jobs[c])
  /\ In(c, "rolling") => ReviewSees("protected_rollback", jobs[c])
  /\ In(c, "approving") \/ In(c, "publishing") =>
       requests[jobs[c].request].purpose = "protected_promotion"

RequestReview(q) ==
  /\ ReviewSees(requests[q].purpose, requests[q])
  /\ requests[q].status = "approved_applied" => requests[q].purpose = "protected_promotion"

ReviewInv ==
  /\ \A c \in Clients : JobReview(c)
  /\ \A q \in Requests : requests[q] # None => RequestReview(q)

\* A promotion whose environment's delivery did not change since its review
\* is not stale: of the two purposes only a rollback breaks UnchangedReviewIsFresh.
PromotionReviewStays ==
  \A q \in Requests :
    requests[q] # None /\ requests[q].purpose = "protected_promotion"
        /\ requests[q].fingerprint.delivery = delivery
      => requests[q].fingerprint = Fingerprint(requests[q].targets)

\* A rollback that waits for an approval is stale, and no approval applies one.
RollbackStaysUnapproved ==
  \A q \in Requests :
    requests[q] # None /\ requests[q].purpose = "protected_rollback" =>
      /\ requests[q].status # "approved_applied"
      /\ requests[q].fingerprint # Fingerprint(requests[q].targets)

\* A request keeps what it is for and what its review saw, and a rollback is not
\* applied.
ReviewStays ==
  \A q \in Requests : requests[q] # None =>
    /\ requests'[q].purpose = requests[q].purpose
    /\ requests'[q].fingerprint = requests[q].fingerprint
    /\ requests'[q].targets = requests[q].targets
    /\ requests'[q].status = "approved_applied" =>
         requests[q].status = "approved_applied" \/ requests[q].purpose = "protected_promotion"

\* A step that moves one client and inserts only requests that were reviewed.
LEMMA ReviewsKept ==
  ASSUME BaseInv, ReviewInv, ReviewStays, NEW c \in Clients, JobReview(c)',
         \A d \in Clients \ {c} : jobs'[d] = jobs[d],
         \A q \in Requests : requests[q] = None /\ requests'[q] # None => RequestReview(q)'
  PROVE  ReviewInv'
<1>1. ASSUME NEW d \in Clients \ {c} PROVE JobReview(d)'
  <2>1. jobs'[d] = jobs[d] /\ JobReview(d) /\ JobHolds(jobs[d])
    BY DEF BaseInv, TypeInv, JobsHold, ReviewInv
  <2> QED BY <2>1 DEF JobReview, JobHolds, ReviewStays, In, ReviewSees
<1>2. ASSUME NEW q \in Requests, requests'[q] # None PROVE RequestReview(q)'
  <2>1. CASE requests[q] # None
    BY <2>1 DEF ReviewInv, RequestReview, ReviewStays, ReviewSees
  <2> QED BY <1>2, <2>1
<1> QED BY <1>1, <1>2 DEF ReviewInv

\* A step that moves no client and inserts no request.
LEMMA NoReviewMoves ==
  ASSUME BaseInv, ReviewInv, ReviewStays, jobs' = jobs,
         \A q \in Requests : requests[q] = None => requests'[q] = None
  PROVE  ReviewInv'
<1>1. ASSUME NEW d \in Clients PROVE JobReview(d)'
  <2>1. JobReview(d) /\ JobHolds(jobs[d])
    BY DEF BaseInv, TypeInv, JobsHold, ReviewInv
  <2> QED BY <2>1 DEF JobReview, JobHolds, ReviewStays, In, ReviewSees
<1>2. ASSUME NEW q \in Requests, requests'[q] # None PROVE RequestReview(q)'
  BY <1>2 DEF ReviewInv, RequestReview, ReviewStays, ReviewSees
<1> QED BY <1>1, <1>2 DEF ReviewInv

\* Who asks for a rollback reviews a copy that is not there, so its review never
\* equals one of an existing version.
LEMMA ReviewStep ==
  ASSUME BaseInv, ReviewInv, [Next]_vars
  PROVE  ReviewInv'
<1> USE DEF BaseInv, TypeInv, PromotionTypeOK
<1>a. ASSUME requests' = requests PROVE ReviewStays
  BY <1>a DEF ReviewStays
<1>b. \A q \in Requests : requests[q] # None => requests[q] \in Request /\ requests[q].status \in Statuses
  BY DEF Request
<1>c. ASSUME NEW c \in Clients, jobs' = [jobs EXCEPT ![c] = Idle]
      PROVE  JobReview(c)' /\ \A d \in Clients \ {c} : jobs'[d] = jobs[d]
  BY <1>c DEF JobReview, In, Idle
<1>1. CASE requests' = requests /\ jobs' = jobs
  BY <1>1, <1>a, NoReviewMoves
<1>2. ASSUME NEW v \in Versions, Discard(v)
      PROVE  ReviewInv'
  <2>1. ReviewStays
    BY <1>2, <1>b DEF Discard, ClosedBy, ReviewStays, Request
  <2> QED BY <1>2, <2>1, NoReviewMoves DEF Discard, ClosedBy
<1>3. ASSUME NEW q \in Requests, Decline(q)
      PROVE  ReviewInv'
  <2>1. ReviewStays
    BY <1>3, <1>b DEF Decline, ReviewStays, Request
  <2> QED BY <1>3, <2>1, NoReviewMoves DEF Decline
<1>4. ASSUME NEW c \in Clients, SelectPending(c)
      PROVE  ReviewInv'
  <2>1. JobReview(c)' /\ \A d \in Clients \ {c} : jobs'[d] = jobs[d]
    BY <1>4 DEF SelectPending, ReviewInv, JobReview, ReviewSees, In, Job
  <2> QED BY <1>4, <1>a, <2>1, ReviewsKept DEF SelectPending
<1>5. ASSUME NEW c \in Clients, BeginPublish(c)
      PROVE  ReviewInv'
  <2>1. JobReview(c)' /\ \A d \in Clients \ {c} : jobs'[d] = jobs[d]
    BY <1>5 DEF BeginPublish, ReviewInv, JobReview, In, Job
  <2> QED BY <1>5, <1>a, <2>1, ReviewsKept DEF BeginPublish
<1>6. ASSUME NEW c \in Clients, CommitPublish(c)
      PROVE  ReviewInv'
  <2> DEFINE q == jobs[c].request
  <2>1. /\ q \in Requests /\ requests[q] \in Request
        /\ requests[q].purpose = "protected_promotion"
    BY <1>6, <1>b DEF CommitPublish, In, JobsHold, JobHolds, ReviewInv, JobReview
  <2>2. requests' = [requests EXCEPT ![q].status = "approved_applied"]
    BY <1>6 DEF CommitPublish
  <2>3. jobs' = [jobs EXCEPT ![c] = Idle]
    BY <1>6 DEF CommitPublish
  <2> HIDE DEF q
  <2>4. ReviewStays
    BY <2>1, <2>2, <1>b DEF ReviewStays, Request
  <2>5. \A p \in Requests : requests[p] = None => requests'[p] = None
    BY <2>1, <2>2, RowsExist
  <2> QED BY <1>c, <2>3, <2>4, <2>5, ReviewsKept
<1>7. ASSUME NEW c \in Clients, Abandon(c)
      PROVE  ReviewInv'
  BY <1>7, <1>a, <1>c, ReviewsKept DEF Abandon
<1>8. ASSUME NEW c \in Clients, NEW targets \in SUBSET Versions, BeginPromotion(c, targets)
      PROVE  ReviewInv'
  <2>1. /\ jobs' = [jobs EXCEPT ![c] = [Idle EXCEPT !.phase = "promoting", !.targets = targets,
                                                    !.fingerprint = Fingerprint(targets)]]
        /\ requests' = requests
    BY <1>8 DEF BeginPromotion
  <2>2. Fingerprint(targets).drafts = targets
    BY <1>8 DEF BeginPromotion, IsDraft, Fingerprint
  <2>3. JobReview(c)' /\ \A d \in Clients \ {c} : jobs'[d] = jobs[d]
    BY <2>1, <2>2 DEF JobReview, ReviewSees, In, Idle
  <2> QED BY <1>a, <2>1, <2>3, ReviewsKept
<1>9. ASSUME NEW c \in Clients, NEW v \in Versions, BeginRollback(c, v)
      PROVE  ReviewInv'
  <2>1. /\ jobs' = [jobs EXCEPT ![c] = [Idle EXCEPT !.phase = "rolling", !.targets = {v},
                                                    !.fingerprint = Fingerprint({v})]]
        /\ requests' = requests
    BY <1>9 DEF BeginRollback
  <2>2. Fingerprint({v}).drafts = {}
    BY <1>9, UnusedId DEF BeginRollback, Fingerprint
  <2>3. JobReview(c)' /\ \A d \in Clients \ {c} : jobs'[d] = jobs[d]
    BY <2>1, <2>2 DEF JobReview, ReviewSees, In, Idle
  <2> QED BY <1>a, <2>1, <2>3, ReviewsKept
<1>10. ASSUME NEW c \in Clients, NEW q \in Requests, BeginApproval(c, q)
       PROVE  ReviewInv'
  <2>1. /\ jobs' = [jobs EXCEPT ![c] = [Idle EXCEPT !.phase = "approving", !.request = q,
                                                    !.targets = requests[q].targets]]
        /\ requests' = requests
    BY <1>10 DEF BeginApproval
  <2>2. Fingerprint(requests[q].targets).drafts = requests[q].targets
    BY <1>10, <1>b DEF BeginApproval, Fingerprint, TargetsInv, TargetsExist, Request
  <2>3. requests[q].purpose = "protected_promotion"
    BY <1>10, <2>2, <1>b DEF BeginApproval, ReviewInv, RequestReview, ReviewSees
  <2>4. JobReview(c)' /\ \A d \in Clients \ {c} : jobs'[d] = jobs[d]
    BY <2>1, <2>3 DEF JobReview, In, Idle
  <2> QED BY <1>a, <2>1, <2>4, ReviewsKept
<1>11. ASSUME NEW c \in Clients, NEW q \in Requests, CommitPromotion(c, q)
       PROVE  ReviewInv'
  <2>1. ReviewStays
    BY <1>11, <1>b DEF CommitPromotion, ReviewStays, Request, LocksHold, RequestInv, PendingPromotions
  <2>2. \A p \in Requests : requests[p] = None /\ requests'[p] # None => RequestReview(p)'
    <3>1. ReviewSees("protected_promotion", jobs[c]) /\ jobs[c].superseded \subseteq PendingPromotions
      BY <1>11 DEF CommitPromotion, ReviewInv, JobReview, RequestInv, LocksHold
    <3>2. ASSUME NEW p \in Requests, requests[p] = None, requests'[p] # None
          PROVE  requests'[p] = [purpose |-> "protected_promotion", status |-> "pending",
                                 targets |-> jobs[c].targets, fingerprint |-> jobs[c].fingerprint]
      BY <1>11, <3>1, <3>2 DEF CommitPromotion, PendingPromotions
    <3> QED BY <3>1, <3>2 DEF RequestReview, ReviewSees
  <2> QED BY <1>11, <1>c, <2>1, <2>2, ReviewsKept DEF CommitPromotion
<1>12. ASSUME NEW c \in Clients, NEW v \in Versions, NEW source \in Versions, NEW q \in Requests,
              CommitRollback(c, v, source, q)
       PROVE  ReviewInv'
  <2>1. /\ requests' = [requests EXCEPT ![q] =
             [purpose |-> "protected_rollback", status |-> "pending", targets |-> jobs[c].targets,
              fingerprint |-> jobs[c].fingerprint]]
        /\ requests[q] = None /\ jobs' = [jobs EXCEPT ![c] = Idle]
        /\ ReviewSees("protected_rollback", jobs[c])
    BY <1>12 DEF CommitRollback, ReviewInv, JobReview
  <2>2. ReviewStays
    BY <2>1 DEF ReviewStays
  <2>3. \A p \in Requests : requests[p] = None /\ requests'[p] # None => RequestReview(p)'
    BY <2>1 DEF RequestReview, ReviewSees
  <2> QED BY <1>c, <2>1, <2>2, <2>3, ReviewsKept
<1> QED
  BY <1>1, <1>2, <1>3, <1>4, <1>5, <1>6, <1>7, <1>8, <1>9, <1>10, <1>11, <1>12
  DEF Next, vars, ChangeDelivery, WriteDraft, WriteLive, CopyAsDraft

LEMMA ReviewInvariant == Spec => [](BaseInv /\ ReviewInv)
<1>1. Init => ReviewInv
  BY DEF Init, ReviewInv, JobReview, In, Idle
<1> QED BY <1>1, BaseStart, BaseStep, ReviewStep, PTL DEF Spec

\* What the review of an existing version names is what a later review of it names.
LEMMA TargetsReviewed ==
  ASSUME BaseInv, NEW q \in Requests, requests[q] # None
  PROVE  Fingerprint(requests[q].targets) = [delivery |-> delivery, drafts |-> requests[q].targets]
BY DEF BaseInv, TypeInv, PromotionTypeOK, Fingerprint, TargetsInv, TargetsExist, Request

\* A promotion goes stale by a change of the environment's delivery and by nothing
\* else: other writes, publishes, discards and requests leave its review as it was.
THEOREM OnlyDeliveryMakesStale == Spec => []PromotionReviewStays
<1>1. BaseInv /\ ReviewInv => PromotionReviewStays
  <2> SUFFICES ASSUME BaseInv, ReviewInv, NEW q \in Requests, requests[q] # None,
                      requests[q].purpose = "protected_promotion",
                      requests[q].fingerprint.delivery = delivery
               PROVE  requests[q].fingerprint = Fingerprint(requests[q].targets)
    BY DEF PromotionReviewStays
  <2>1. requests[q].fingerprint \in Fingerprints
    BY DEF BaseInv, TypeInv, PromotionTypeOK, Request
  <2>2. requests[q].fingerprint.drafts = requests[q].targets
    BY DEF ReviewInv, RequestReview, ReviewSees
  <2> QED BY <2>1, <2>2, TargetsReviewed DEF Fingerprints
<1> QED BY <1>1, ReviewInvariant, PTL

\* The comparison of reviews refuses every approval of a rollback, for any number of
\* secrets, versions, requests and clients: the review was of a version that did
\* not exist, and the recomputed one finds it.  UnchangedReviewIsFresh fails there.
THEOREM RollbacksAreNeverApplied == Spec => []RollbackStaysUnapproved
<1>1. BaseInv /\ ReviewInv => RollbackStaysUnapproved
  <2> SUFFICES ASSUME BaseInv, ReviewInv, NEW q \in Requests, requests[q] # None,
                      requests[q].purpose = "protected_rollback"
               PROVE  /\ requests[q].status # "approved_applied"
                      /\ requests[q].fingerprint # Fingerprint(requests[q].targets)
    BY DEF RollbackStaysUnapproved
  <2>1. /\ requests[q].fingerprint.drafts = {} /\ requests[q].targets # {}
        /\ requests[q].status # "approved_applied"
    BY DEF ReviewInv, RequestReview, ReviewSees
  <2>2. Fingerprint(requests[q].targets).drafts = requests[q].targets
    BY TargetsReviewed DEF Fingerprint
  <2> QED BY <2>1, <2>2
<1> QED BY <1>1, ReviewInvariant, PTL

\* A discarded version ends the publishing of its secret: no version with a higher
\* number is ever published.  OldestDraftIsPublishable fails there.
DiscardEndsPublishing ==
  \A v, w \in Versions :
    versions[v] # None /\ versions[v].state = "discarded"
        /\ Published(w) /\ versions[w].secret = versions[v].secret
      => versions[w].number < versions[v].number

\* The live guard never passes the number of a discarded version, because no other
\* version has that number: no approval publishes what was written after it.
THEOREM DiscardsEndPublishing == Spec => []DiscardEndsPublishing
<1>1. HistoryInv => DiscardEndsPublishing
  <2> SUFFICES ASSUME HistoryInv, NEW v \in Versions, NEW w \in Versions,
                      versions[v] # None, versions[v].state = "discarded",
                      Published(w), versions[w].secret = versions[v].secret
               PROVE  versions[w].number < versions[v].number
    BY DEF DiscardEndsPublishing
  <2> DEFINE s == versions[v].secret
             last == secrets[s].liveNumber
  <2>1. /\ versions[v] \in Version /\ versions[w] \in Version /\ s \in Secrets /\ last \in Nat
        /\ versions[v].number \in Nat \ {0} /\ versions[w].number \in Nat
    BY DEF HistoryInv, VersionInv, BaseInv, TypeInv, PromotionTypeOK, Version, Secret, Published
  <2>2. {versions[x].number : x \in {y \in Versions : Published(y) /\ versions[y].secret = s}} = 1..last
    BY <2>1 DEF HistoryInv, VersionInv, PublishedInOrder
  <2>3. versions[w].number <= last
    BY <2>1, <2>2
  <2>4. versions[v].number \notin 1..last
    <3> SUFFICES ASSUME versions[v].number \in 1..last PROVE FALSE
      OBVIOUS
    <3>1. \E x \in Versions : /\ Published(x) /\ versions[x].secret = s
                              /\ versions[x].number = versions[v].number
      BY <2>2
    <3>2. PICK x \in Versions : /\ Published(x) /\ versions[x].secret = s
                                /\ versions[x].number = versions[v].number
      BY <3>1
    <3>3. x = v
      BY <3>2 DEF HistoryInv, NumberInv, UniqueNumbers, Published
    <3> QED BY <3>2, <3>3 DEF Published
  <2> HIDE DEF s, last
  <2> QED BY <2>1, <2>3, <2>4
<1> QED BY <1>1, HistoryInvariant, PTL
=============================================================================
