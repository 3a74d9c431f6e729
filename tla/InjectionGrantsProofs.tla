------------------------- MODULE InjectionGrantsProofs -------------------------
(***************************************************************************)
(* Theorems about InjectionGrants, for any number of secrets, versions,    *)
(* grants and requests, on top of those about its data keys.               *)
(***************************************************************************)
EXTENDS InjectionGrants, DataKeysProofs

-----------------------------------------------------------------------------
(* Values.                                                                 *)

\* A value is a function from some secrets to version numbers.
LEMMA ValuesAre ==
  ASSUME NEW v
  PROVE  v \in Values <=> /\ v = [s \in DOMAIN v |-> v[s]]
                          /\ DOMAIN v \subseteq Secrets
                          /\ \A s \in DOMAIN v : v[s] \in 1 .. MaxVersions
<1>1. v \in Values <=> \E S \in SUBSET Secrets : v \in [S -> 1 .. MaxVersions]
  BY DEF Values
<1>2. ASSUME NEW S \in SUBSET Secrets, v \in [S -> 1 .. MaxVersions]
      PROVE  /\ v = [s \in DOMAIN v |-> v[s]]
             /\ DOMAIN v \subseteq Secrets
             /\ \A s \in DOMAIN v : v[s] \in 1 .. MaxVersions
  BY <1>2
<1>3. ASSUME v = [s \in DOMAIN v |-> v[s]], DOMAIN v \subseteq Secrets,
             \A s \in DOMAIN v : v[s] \in 1 .. MaxVersions
      PROVE  v \in [DOMAIN v -> 1 .. MaxVersions]
  BY <1>3
<1> QED BY <1>1, <1>2, <1>3

LEMMA NoValuesAre == NoValues \in Values /\ DOMAIN NoValues = {}
<1>1. DOMAIN NoValues = {} /\ NoValues = [s \in DOMAIN NoValues |-> NoValues[s]]
  BY DEF NoValues
<1> QED BY <1>1, ValuesAre

LEMMA AddedValues ==
  ASSUME NEW v \in Values, NEW s \in Secrets, NEW n \in 1 .. MaxVersions
  PROVE  /\ Add(v, s, n) \in Values
         /\ DOMAIN Add(v, s, n) = DOMAIN v \cup {s}
         /\ Add(v, s, n)[s] = n
         /\ \A t \in DOMAIN v \ {s} : Add(v, s, n)[t] = v[t]
<1> DEFINE a == Add(v, s, n)
<1>1. /\ DOMAIN a = DOMAIN v \cup {s} /\ a[s] = n
      /\ \A t \in DOMAIN v \ {s} : a[t] = v[t]
      /\ a = [t \in DOMAIN a |-> a[t]]
  BY DEF Add
<1>2. DOMAIN v \subseteq Secrets /\ \A t \in DOMAIN v : v[t] \in 1 .. MaxVersions
  BY ValuesAre
<1> HIDE DEF a
<1>3. a \in Values
  BY <1>1, <1>2, ValuesAre
<1> QED BY <1>1, <1>3 DEF a

\* Two values that agree on the same secrets are the same.
LEMMA SameValues ==
  ASSUME NEW v \in Values, NEW w \in Values, DOMAIN v = DOMAIN w,
         \A s \in DOMAIN v : v[s] = w[s]
  PROVE  v = w
<1>1. v = [s \in DOMAIN v |-> v[s]] /\ w = [s \in DOMAIN w |-> w[s]]
  BY ValuesAre
<1> QED BY <1>1

-----------------------------------------------------------------------------
(* The inductive invariant.                                                *)

\* A version is sealed with the key that is stored for the Project of its secret.
SecretsHold ==
  /\ \A s \in Secrets : CurrentVersion(s) <= MaxVersions
  /\ CiphertextsAreReadable

\* What a request knows about its secret or grant.
JobHolds(j) ==
  /\ j.phase = "writing" => j.secret \in Secrets
  /\ j.phase \in {"decrypting", "delivering"} =>
       /\ j.grant \in Grants
       /\ grants[j.grant] # None
       /\ j.pins = grants[j.grant].pins
  /\ j.phase = "decrypting" =>
       /\ j.todo \subseteq DOMAIN j.pins
       /\ DOMAIN j.plain = DOMAIN j.pins \ j.todo
       /\ \A s \in DOMAIN j.plain : j.plain[s] = j.pins[s]
  /\ j.phase = "delivering" => j.plain = j.pins /\ grants[j.grant].consumed

JobsHold == \A c \in Clients : JobHolds(jobs[c])

\* A request that writes asks the keyring for the key of its secret's Project.
WritersHold == \A c \in Clients : In(c, "writing") =>
  calls[c].phase # "idle" /\ calls[c].project = Home[jobs[c].secret]

\* The winner of a grant is about to hand its values out, or has done so.
DeliveredOnce ==
  /\ \A c \in Clients : In(c, "delivering") =>
       /\ delivered[jobs[c].grant] = <<>>
       /\ \A d \in Clients \ {c} : In(d, "delivering") => jobs[d].grant # jobs[c].grant
  /\ DeliveredAsPinned

InjectionInv ==
  /\ KeyInv
  /\ InjectionTypeOK
  /\ SecretsHold
  /\ JobsHold
  /\ WritersHold
  /\ DeliveredOnce

\* The row of a grant is inserted once; then only its flags are set, and only while
\* it is active.
GrantsMove ==
  \A g \in Grants :
    \/ grants'[g] = grants[g]
    \/ grants[g] = None
    \/ /\ grants[g] # None /\ grants'[g] # None
       /\ grants'[g].pins = grants[g].pins
       /\ ~grants[g].consumed

-----------------------------------------------------------------------------
(* What a step leaves alone.                                               *)

\* Every step of InjectionGrants moves the keys as DataKeys does.
LEMMA StepMovesKeys == InjectionTypeOK /\ [Next]_vars => KeyMove
<1> SUFFICES ASSUME InjectionTypeOK, [Next]_vars PROVE KeyMove
  OBVIOUS
<1>1. ASSUME NEW c \in Clients, NEW s \in Secrets, BeginWrite(c, s) PROVE KeyMove
  BY <1>1, InjectionAssumption DEF BeginWrite, KeyMove
<1>2. ASSUME NEW c \in Clients, NEW g \in Grants, BeginConsume(c, g) PROVE KeyMove
  <2>1. grants[g].pins \in Values
    BY <1>2 DEF BeginConsume, InjectionTypeOK, Grant
  <2>2. PICK s \in DOMAIN grants[g].pins : BeginDecrypt(c, Home[s])
    BY <1>2 DEF BeginConsume
  <2>3. Home[s] \in Projects
    BY <2>1, <2>2, ValuesAre, InjectionAssumption
  <2> QED BY <2>2, <2>3 DEF KeyMove
<1>3. ASSUME NEW c \in Clients, AppendVersion(c) PROVE KeyMove
  BY <1>3 DEF AppendVersion, KeyMove, ForgetCall
<1>4. ASSUME NEW c \in Clients, NEW s \in Secrets, Decrypt(c, s) PROVE KeyMove
  BY <1>4 DEF Decrypt, KeyMove, ForgetCall, AskAgain
<1>5. ASSUME NEW c \in Clients, Fail(c) PROVE KeyMove
  BY <1>5 DEF Fail, KeyMove, ForgetCall
<1>6. UNCHANGED keyVars => KeyMove
  BY DEF KeyMove
<1>7. Keys => KeyMove
  BY DEF Keys, KeyMove
<1>8. ASSUME NEW c \in Clients, Request(c) PROVE KeyMove
  BY <1>1, <1>2, <1>3, <1>4, <1>5, <1>6, <1>8
  DEF Request, BeginIssue, ResolveBinding, PersistGrant, CommitConsume, Deliver
<1>9. UNCHANGED vars => UNCHANGED keyVars
  BY DEF vars, keyVars
<1> QED BY <1>6, <1>7, <1>8, <1>9
        DEF Next, RevokeForSuspension, RevokeForVersion, RevokeWhere, Expire

LEMMA JobStillHolds ==
  ASSUME GrantsMove, NEW j \in Job, JobHolds(j)
  PROVE  JobHolds(j)'
  BY DEF GrantsMove, JobHolds

LEMMA JobsStillHold ==
  ASSUME InjectionInv, GrantsMove, NEW c \in Clients, NEW j \in Job, JobHolds(j)',
         jobs' = [jobs EXCEPT ![c] = j]
  PROVE  JobsHold' /\ jobs' \in [Clients -> Job]
<1>1. ASSUME NEW d \in Clients PROVE JobHolds(jobs[d])'
  <2>1. PICK i \in Job : jobs'[d] = i /\ JobHolds(i)'
    <3>1. CASE d = c
      BY <3>1 DEF InjectionInv, InjectionTypeOK
    <3>2. CASE d # c
      <4>1. PICK i \in Job : jobs[d] = i /\ jobs'[d] = i
        BY <3>2 DEF InjectionInv, InjectionTypeOK
      <4>2. JobHolds(i)
        BY <4>1 DEF InjectionInv, JobsHold
      <4> QED BY <4>1, <4>2, JobStillHolds
    <3> QED BY <3>1, <3>2
  <2> QED BY <2>1 DEF JobHolds
<1>2. jobs' \in [Clients -> Job]
  BY DEF InjectionInv, InjectionTypeOK
<1> QED BY <1>1, <1>2 DEF JobsHold

LEMMA JobsStay ==
  ASSUME InjectionInv, GrantsMove, UNCHANGED jobs
  PROVE  JobsHold' /\ jobs' \in [Clients -> Job]
<1>1. ASSUME NEW d \in Clients PROVE JobHolds(jobs[d])'
  <2>1. PICK i \in Job : jobs[d] = i /\ jobs'[d] = i
    BY DEF InjectionInv, InjectionTypeOK
  <2>2. JobHolds(i)
    BY <2>1 DEF InjectionInv, JobsHold
  <2>3. JobHolds(i)'
    BY <2>2, JobStillHolds
  <2> QED BY <2>1, <2>3 DEF JobHolds
<1> QED BY <1>1 DEF JobsHold, InjectionInv, InjectionTypeOK

\* Stored versions stay readable while the keys are kept.
LEMMA SecretsStay ==
  ASSUME InjectionInv, KeysKept, UNCHANGED sealed
  PROVE  SecretsHold'
<1>1. \A s \in Secrets : Home[s] \in Projects
  BY InjectionAssumption
<1>2. CiphertextsAreReadable'
  BY <1>1 DEF InjectionInv, SecretsHold, CiphertextsAreReadable, KeysKept, SameKey
<1> QED BY <1>2 DEF InjectionInv, SecretsHold, CurrentVersion

\* The step of a request that touches no version, no grant and no value.
LEMMA OnlyItsJob ==
  ASSUME InjectionInv, KeyInv', KeysKept, NEW c \in Clients, NEW j \in Job, JobHolds(j),
         j.phase # "delivering",
         j.phase = "writing" => calls'[c].phase # "idle" /\ calls'[c].project = Home[j.secret],
         \A d \in Clients \ {c} : calls'[d] = calls[d],
         jobs' = [jobs EXCEPT ![c] = j],
         UNCHANGED <<sealed, grants, delivered>>
  PROVE  InjectionInv'
<1>1. GrantsMove
  BY DEF GrantsMove
<1>2. JobsHold' /\ jobs' \in [Clients -> Job]
  BY <1>1, JobStillHolds, JobsStillHold
<1>3. InjectionTypeOK'
  BY <1>2 DEF InjectionInv, InjectionTypeOK, KeyInv
<1>4. SecretsHold'
  BY SecretsStay
<1>5. WritersHold'
  BY DEF InjectionInv, InjectionTypeOK, WritersHold, In
<1>6. DeliveredOnce'
  <2>1. \A d \in Clients : In(d, "delivering")' => In(d, "delivering") /\ jobs'[d] = jobs[d]
    BY DEF InjectionInv, InjectionTypeOK, In
  <2> QED BY <2>1 DEF InjectionInv, DeliveredOnce, DeliveredAsPinned, In
<1> QED BY <1>2, <1>3, <1>4, <1>5, <1>6 DEF InjectionInv

\* A step of the keys, or of the grants, while every request stands still.
LEMMA OnlyGrants ==
  ASSUME InjectionInv, KeyInv', KeysKept, GrantsMove, grants' \in [Grants -> Grant \cup {None}],
         \A g \in Grants : grants[g] # None /\ grants[g].consumed => grants'[g] = grants[g],
         \A d \in Clients : calls[d].phase # "idle" =>
           calls'[d].phase # "idle" /\ calls'[d].project = calls[d].project,
         UNCHANGED <<sealed, jobs, delivered>>
  PROVE  InjectionInv'
<1>1. JobsHold' /\ jobs' \in [Clients -> Job]
  BY JobsStay
<1>2. InjectionTypeOK'
  BY <1>1 DEF InjectionInv, InjectionTypeOK, KeyInv
<1>3. SecretsHold'
  BY SecretsStay
<1>4. WritersHold'
  BY DEF InjectionInv, WritersHold, In
<1>5. DeliveredOnce'
  BY DEF InjectionInv, DeliveredOnce, DeliveredAsPinned, In
<1> QED BY <1>1, <1>2, <1>3, <1>4, <1>5 DEF InjectionInv

-----------------------------------------------------------------------------
(* One lemma per action.                                                   *)

LEMMA IdleHolds == Idle \in Job /\ JobHolds(Idle)
  BY NoValuesAre DEF Idle, Job, JobHolds

\* What a request in the middle of its work is about.
LEMMA WorkingJob ==
  ASSUME InjectionInv, NEW c \in Clients
  PROVE  /\ jobs[c] \in Job /\ JobHolds(jobs[c])
         /\ calls[c] \in Call /\ CallKnows(calls[c])
  BY WorkingCall DEF InjectionInv, InjectionTypeOK, JobsHold

LEMMA OtherCallsStay ==
  ASSUME KeyInv, NEW c \in Clients, NEW k, calls' = [calls EXCEPT ![c] = k]
  PROVE  calls'[c] = k /\ \A d \in Clients \ {c} : calls'[d] = calls[d]
  BY DEF KeyInv, KeysTypeOK

LEMMA BeginWriteStep ==
  ASSUME InjectionInv, KeyInv', KeysKept, NEW c \in Clients, NEW s \in Secrets, BeginWrite(c, s)
  PROVE  InjectionInv'
<1>1. PICK j \in Job : j = [Idle EXCEPT !.phase = "writing", !.secret = s]
  BY IdleHolds DEF Idle, Job
<1>2. JobHolds(j)
  BY <1>1 DEF Idle, JobHolds
<1>3. calls'[c].phase # "idle" /\ calls'[c].project = Home[s]
      /\ \A d \in Clients \ {c} : calls'[d] = calls[d]
  BY DEF BeginWrite, BeginEncrypt, InjectionInv, KeyInv, KeysTypeOK, NoCall
<1> QED BY <1>1, <1>2, <1>3, OnlyItsJob DEF BeginWrite, Idle

LEMMA BeginIssueStep ==
  ASSUME InjectionInv, KeyInv', KeysKept, NEW c \in Clients, NEW S \in SUBSET Secrets,
         BeginIssue(c, S)
  PROVE  InjectionInv'
<1>1. PICK j \in Job : j = [Idle EXCEPT !.phase = "issuing", !.todo = S]
  BY IdleHolds DEF Idle, Job
<1>2. JobHolds(j)
  BY <1>1 DEF Idle, JobHolds
<1> QED BY <1>1, <1>2, OnlyItsJob DEF BeginIssue, Idle, keyVars

LEMMA ResolveBindingStep ==
  ASSUME InjectionInv, KeyInv', KeysKept, NEW c \in Clients, NEW s \in Secrets,
         ResolveBinding(c, s)
  PROVE  InjectionInv'
<1>1. CurrentVersion(s) \in 1 .. MaxVersions
  BY InjectionAssumption
  DEF ResolveBinding, InjectionInv, InjectionTypeOK, SecretsHold, CurrentVersion
<1>2. jobs[c] \in Job /\ jobs[c].phase = "issuing"
  BY WorkingJob DEF ResolveBinding, In
<1>3. Add(jobs[c].pins, s, CurrentVersion(s)) \in Values
  BY <1>1, <1>2, AddedValues DEF Job
<1>4. PICK j \in Job : j = [jobs[c] EXCEPT !.todo = jobs[c].todo \ {s},
                                           !.pins = Add(jobs[c].pins, s, CurrentVersion(s))]
  BY <1>2, <1>3 DEF Job
<1>5. jobs' = [jobs EXCEPT ![c] = j]
  BY <1>4 DEF ResolveBinding, InjectionInv, InjectionTypeOK
<1>6. j.phase = "issuing" /\ JobHolds(j)
  BY <1>2, <1>4 DEF Job, JobHolds
<1> QED BY <1>4, <1>5, <1>6, OnlyItsJob DEF ResolveBinding, keyVars

LEMMA BeginConsumeStep ==
  ASSUME InjectionInv, KeyInv', KeysKept, NEW c \in Clients, NEW g \in Grants,
         BeginConsume(c, g)
  PROVE  InjectionInv'
<1> DEFINE pins == grants[g].pins
<1>1. grants[g] # None /\ pins \in Values
  BY DEF BeginConsume, InjectionInv, InjectionTypeOK, Grant
<1>2. DOMAIN pins \subseteq Secrets
  BY <1>1, ValuesAre
<1>3. PICK j \in Job : j = [Idle EXCEPT !.phase = "decrypting", !.grant = g,
                                        !.todo = DOMAIN pins, !.pins = pins]
  BY <1>1, <1>2, IdleHolds DEF Idle, Job
<1>4. /\ j.phase = "decrypting" /\ j.grant = g /\ j.todo = DOMAIN pins /\ j.pins = pins
      /\ j.plain = NoValues
  BY <1>3 DEF Idle
<1>5. JobHolds(j)
  BY <1>1, <1>4, NoValuesAre DEF JobHolds
<1>6. \A d \in Clients \ {c} : calls'[d] = calls[d]
  BY OtherCallsStay DEF BeginConsume, BeginDecrypt, InjectionInv
<1> QED BY <1>3, <1>4, <1>5, <1>6, OnlyItsJob DEF BeginConsume

LEMMA DecryptStep ==
  ASSUME InjectionInv, KeyInv', KeysKept, NEW c \in Clients, NEW s \in Secrets, Decrypt(c, s)
  PROVE  InjectionInv'
<1> DEFINE i    == jobs[c]
           rest == i.todo \ {s}
           n    == i.pins[s]
<1>1. /\ i \in Job /\ JobHolds(i) /\ i.phase = "decrypting" /\ s \in i.todo
      /\ i.grant \in Grants /\ grants[i.grant] # None /\ i.pins = grants[i.grant].pins
      /\ i.todo \subseteq DOMAIN i.pins /\ DOMAIN i.plain = DOMAIN i.pins \ i.todo
      /\ \A t \in DOMAIN i.plain : i.plain[t] = i.pins[t]
  BY WorkingJob DEF Decrypt, In, JobHolds
<1>2. i.plain \in Values /\ i.pins \in Values /\ n \in 1 .. MaxVersions
  BY <1>1, ValuesAre DEF Job
<1> DEFINE plain == Add(i.plain, s, n)
<1>3. /\ plain \in Values /\ DOMAIN plain = DOMAIN i.plain \cup {s} /\ plain[s] = n
      /\ \A t \in DOMAIN i.plain \ {s} : plain[t] = i.plain[t]
  <2>1. PICK v \in Values, m \in 1 .. MaxVersions : v = i.plain /\ m = n
    BY <1>2
  <2>2. /\ Add(v, s, m) \in Values /\ DOMAIN Add(v, s, m) = DOMAIN v \cup {s} /\ Add(v, s, m)[s] = m
        /\ \A t \in DOMAIN v \ {s} : Add(v, s, m)[t] = v[t]
    BY AddedValues
  <2> QED BY <2>1, <2>2
<1>4. jobs' = [jobs EXCEPT ![c] = [i EXCEPT !.todo = rest, !.plain = plain]]
  <2>1. jobs' = [jobs EXCEPT ![c].todo = rest, ![c].plain = Add(@, s, n)]
    BY Zenon DEF Decrypt, Pinned
  <2>2. jobs \in [Clients -> Job]
    BY DEF InjectionInv, InjectionTypeOK
  <2> QED BY <2>1, <2>2
<1> HIDE DEF plain, n
<1>5. PICK j \in Job : j = [i EXCEPT !.todo = rest, !.plain = plain]
  BY <1>1, <1>3 DEF Job
<1>6. /\ j.phase = "decrypting" /\ j.grant = i.grant /\ j.pins = i.pins
      /\ j.todo = rest /\ j.plain = plain
  BY <1>1, <1>5 DEF Job
<1>7. JobHolds(j)
  <2>1. DOMAIN plain = DOMAIN i.pins \ rest
    BY <1>1, <1>3
  <2>2. \A t \in DOMAIN plain : plain[t] = i.pins[t]
    BY <1>1, <1>3 DEF n
  <2> QED BY <1>1, <1>6, <2>1, <2>2 DEF JobHolds
<1>8. \A d \in Clients \ {c} : calls'[d] = calls[d]
  BY DEF Decrypt, EndCall, ResolveAgain, InjectionInv, KeyInv, KeysTypeOK
<1> QED BY <1>4, <1>5, <1>6, <1>7, <1>8, OnlyItsJob DEF Decrypt

LEMMA FailStep ==
  ASSUME InjectionInv, KeyInv', KeysKept, NEW c \in Clients, Fail(c)
  PROVE  InjectionInv'
<1>1. \A d \in Clients \ {c} : calls'[d] = calls[d]
  BY OtherCallsStay DEF Fail, EndCall, InjectionInv
<1>2. Idle.phase = "idle"
  BY DEF Idle
<1> QED BY <1>1, <1>2, IdleHolds, OnlyItsJob DEF Fail

LEMMA AppendVersionStep ==
  ASSUME InjectionInv, KeyInv', KeysKept, NEW c \in Clients, AppendVersion(c)
  PROVE  InjectionInv'
<1> DEFINE s == jobs[c].secret
           k == calls[c].key
<1>1. /\ s \in Secrets /\ Home[s] \in Projects
      /\ projects[Home[s]] # None /\ k = projects[Home[s]].key /\ k \in Nat
      /\ CurrentVersion(s) < MaxVersions
      /\ projects' = projects
  BY WorkingJob, InjectionAssumption
  DEF AppendVersion, In, InCall, JobHolds, CallKnows, Call, Room, InjectionInv, WritersHold
<1>2. sealed' = [sealed EXCEPT ![s] = Append(sealed[s], k)]
  BY DEF AppendVersion, SealedWith
<1>3. /\ sealed[s] \in Seq(Nat) /\ sealed'[s] \in Seq(Nat)
      /\ Len(sealed'[s]) = Len(sealed[s]) + 1 /\ sealed'[s][Len(sealed[s]) + 1] = k
      /\ \A n \in 1 .. Len(sealed[s]) : sealed'[s][n] = sealed[s][n]
  BY <1>1, <1>2 DEF InjectionInv, InjectionTypeOK
<1>4. sealed' \in [Secrets -> Seq(Nat)] /\ \A t \in Secrets \ {s} : sealed'[t] = sealed[t]
  BY <1>1, <1>2, <1>3 DEF InjectionInv, InjectionTypeOK
<1>5. SecretsHold'
  <2>1. ASSUME NEW t \in Secrets
        PROVE  Len(sealed'[t]) <= MaxVersions
    <3>1. CASE t = s
      BY <1>1, <1>3, <3>1, InjectionAssumption DEF CurrentVersion
    <3>2. CASE t # s
      BY <1>4, <3>2 DEF InjectionInv, SecretsHold, CurrentVersion
    <3> QED BY <3>1, <3>2
  <2>2. ASSUME NEW t \in Secrets, NEW n \in 1 .. Len(sealed'[t])
        PROVE  projects[Home[t]] # None /\ sealed'[t][n] = projects[Home[t]].key
    <3>1. CASE t # s
      BY <1>4, <2>2, <3>1 DEF InjectionInv, SecretsHold, CiphertextsAreReadable
    <3>2. CASE t = s /\ n = Len(sealed[s]) + 1
      BY <1>1, <1>3, <3>2
    <3>3. CASE t = s /\ n # Len(sealed[s]) + 1
      <4>1. n \in 1 .. Len(sealed[s])
        BY <1>3, <2>2, <3>3
      <4> QED BY <1>1, <1>3, <3>3, <4>1 DEF InjectionInv, SecretsHold, CiphertextsAreReadable
    <3> QED BY <3>1, <3>2, <3>3
  <2> QED BY <1>1, <2>1, <2>2 DEF SecretsHold, CurrentVersion, CiphertextsAreReadable
<1>6. GrantsMove
  BY DEF AppendVersion, GrantsMove
<1>7. JobsHold' /\ jobs' \in [Clients -> Job]
  BY <1>6, IdleHolds, JobStillHolds, JobsStillHold DEF AppendVersion
<1>8. InjectionTypeOK'
  BY <1>4, <1>7 DEF AppendVersion, InjectionInv, InjectionTypeOK, KeyInv
<1>9. WritersHold'
  <2>1. \A d \in Clients \ {c} : calls'[d] = calls[d]
    BY OtherCallsStay DEF AppendVersion, EndCall, InjectionInv
  <2> QED BY <2>1 DEF AppendVersion, InjectionInv, InjectionTypeOK, WritersHold, In, Idle
<1>10. DeliveredOnce'
  <2>1. \A d \in Clients : In(d, "delivering")' => In(d, "delivering") /\ jobs'[d] = jobs[d]
    BY DEF AppendVersion, InjectionInv, InjectionTypeOK, In, Idle
  <2> QED BY <2>1 DEF AppendVersion, InjectionInv, DeliveredOnce, DeliveredAsPinned, In
<1> QED BY <1>5, <1>7, <1>8, <1>9, <1>10 DEF InjectionInv

LEMMA PersistGrantStep ==
  ASSUME InjectionInv, KeyInv', KeysKept, NEW c \in Clients, NEW g \in Grants, PersistGrant(c, g)
  PROVE  InjectionInv'
<1> DEFINE row == [pins |-> jobs[c].pins, consumed |-> FALSE, revoked |-> FALSE, expired |-> FALSE]
<1>1. row \in Grant
  BY WorkingJob DEF Job, Grant
<1>2. /\ grants[g] = None /\ grants' = [grants EXCEPT ![g] = row]
      /\ jobs' = [jobs EXCEPT ![c] = Idle]
      /\ UNCHANGED <<organization, projects, current, minted, calls, sweeps, sealed, delivered>>
  BY DEF PersistGrant, keyVars
<1> HIDE DEF row
<1>3. GrantsMove /\ grants' \in [Grants -> Grant \cup {None}]
  BY <1>1, <1>2 DEF GrantsMove, InjectionInv, InjectionTypeOK
<1>4. JobsHold' /\ jobs' \in [Clients -> Job]
  BY <1>2, <1>3, IdleHolds, JobStillHolds, JobsStillHold
<1>5. InjectionTypeOK'
  BY <1>2, <1>3, <1>4 DEF InjectionInv, InjectionTypeOK, KeyInv
<1>6. SecretsHold'
  BY <1>2, SecretsStay
<1>7. WritersHold'
  BY <1>2 DEF InjectionInv, InjectionTypeOK, WritersHold, In, Idle
<1>8. DeliveredOnce'
  <2>1. \A d \in Clients : In(d, "delivering")' => In(d, "delivering") /\ jobs'[d] = jobs[d]
    BY <1>2 DEF InjectionInv, InjectionTypeOK, In, Idle
  <2>2. DeliveredAsPinned'
    <3>1. \A h \in Grants : grants[h] # None => grants'[h] = grants[h]
      BY <1>2 DEF InjectionInv, InjectionTypeOK
    <3> QED BY <1>2, <3>1 DEF InjectionInv, DeliveredOnce, DeliveredAsPinned
  <2> QED BY <1>2, <2>1, <2>2 DEF InjectionInv, DeliveredOnce, In
<1> QED BY <1>4, <1>5, <1>6, <1>7, <1>8 DEF InjectionInv

\* The one step that consumes a grant: its request holds every pinned value.
LEMMA ConsumingJob ==
  ASSUME InjectionInv, NEW c \in Clients, CommitConsume(c)
  PROVE  /\ jobs[c] \in Job /\ jobs[c].phase = "decrypting"
         /\ jobs[c].grant \in Grants
         /\ grants[jobs[c].grant] \in Grant /\ grants[jobs[c].grant] # None
         /\ jobs[c].plain = jobs[c].pins /\ jobs[c].pins = grants[jobs[c].grant].pins
         /\ ~grants[jobs[c].grant].consumed
<1>1. /\ jobs[c] \in Job /\ JobHolds(jobs[c]) /\ jobs[c].phase = "decrypting"
      /\ jobs[c].todo = {} /\ ~grants[jobs[c].grant].consumed
  BY WorkingJob DEF CommitConsume, Decrypted, In, Active
<1>2. jobs[c].plain = jobs[c].pins
  BY <1>1, SameValues DEF Job, JobHolds
<1> QED BY <1>1, <1>2 DEF JobHolds, InjectionInv, InjectionTypeOK

LEMMA CommitConsumeStep ==
  ASSUME InjectionInv, KeyInv', KeysKept, NEW c \in Clients, CommitConsume(c)
  PROVE  InjectionInv'
<1> DEFINE g == jobs[c].grant
<1>1. /\ jobs[c] \in Job /\ jobs[c].phase = "decrypting" /\ g \in Grants
      /\ grants[g] \in Grant /\ grants[g] # None
      /\ jobs[c].plain = jobs[c].pins /\ jobs[c].pins = grants[g].pins /\ ~grants[g].consumed
  BY ConsumingJob
<1>2. /\ grants' = [grants EXCEPT ![g].consumed = TRUE]
      /\ UNCHANGED <<organization, projects, current, minted, calls, sweeps, sealed, delivered>>
  BY DEF CommitConsume, keyVars
<1>3. /\ grants'[g] \in Grant /\ grants'[g].pins = grants[g].pins /\ grants'[g].consumed
      /\ \A h \in Grants \ {g} : grants'[h] = grants[h]
      /\ grants' \in [Grants -> Grant \cup {None}]
  BY <1>1, <1>2 DEF InjectionInv, InjectionTypeOK, Grant
<1>4. GrantsMove /\ grants'[g] # None
  BY <1>1, <1>3, AbsentGrant DEF GrantsMove
<1>5. PICK j \in Job : j = [jobs[c] EXCEPT !.phase = "delivering"]
  BY <1>1 DEF Job
<1>6. jobs' = [jobs EXCEPT ![c] = j]
  BY <1>5 DEF CommitConsume, InjectionInv, InjectionTypeOK
<1>7. j.phase = "delivering" /\ j.grant = g /\ j.pins = jobs[c].pins /\ j.plain = jobs[c].plain
  BY <1>1, <1>5 DEF Job
<1>8. JobHolds(j)'
  BY <1>1, <1>3, <1>4, <1>7 DEF JobHolds
<1>9. JobsHold' /\ jobs' \in [Clients -> Job]
  BY <1>4, <1>6, <1>8, JobsStillHold
<1>10. InjectionTypeOK'
  BY <1>2, <1>3, <1>9 DEF InjectionInv, InjectionTypeOK, KeyInv
<1>11. SecretsHold'
  BY <1>2, SecretsStay
<1>12. WritersHold'
  BY <1>2, <1>6, <1>7 DEF InjectionInv, InjectionTypeOK, WritersHold, In
<1>13. DeliveredOnce'
  <2>1. \A d \in Clients : In(d, "delivering") => jobs[d].grant # g
    BY <1>1 DEF InjectionInv, JobsHold, JobHolds, In
  <2>2. delivered[g] = <<>>
    <3>1. delivered[g] \in Seq(Values) /\ ~(1 \in DOMAIN delivered[g])
      BY <1>1 DEF InjectionInv, InjectionTypeOK, DeliveredOnce, DeliveredAsPinned
    <3> QED BY <3>1
  <2>3. \A d \in Clients : In(d, "delivering")' =>
          \/ d = c /\ jobs'[d].grant = g
          \/ d # c /\ In(d, "delivering") /\ jobs'[d] = jobs[d]
    BY <1>6, <1>7 DEF InjectionInv, InjectionTypeOK, In
  <2>4. ASSUME NEW d \in Clients, In(d, "delivering")'
        PROVE  /\ delivered[jobs'[d].grant] = <<>>
               /\ \A e \in Clients \ {d} : In(e, "delivering")' => jobs'[e].grant # jobs'[d].grant
    BY <2>1, <2>2, <2>3, <2>4 DEF InjectionInv, DeliveredOnce
  <2>5. DeliveredAsPinned'
    BY <1>2, <1>3, <1>4 DEF InjectionInv, DeliveredOnce, DeliveredAsPinned
  <2> QED BY <1>2, <2>4, <2>5 DEF DeliveredOnce, In
<1> QED BY <1>9, <1>10, <1>11, <1>12, <1>13 DEF InjectionInv

LEMMA DeliverStep ==
  ASSUME InjectionInv, KeyInv', KeysKept, NEW c \in Clients, Deliver(c)
  PROVE  /\ InjectionInv'
         /\ delivered[jobs[c].grant] = <<>>
         /\ Len(delivered'[jobs[c].grant]) = 1
<1> DEFINE g == jobs[c].grant
<1>1. /\ jobs[c] \in Job /\ jobs[c].phase = "delivering" /\ g \in Grants /\ grants[g] # None
      /\ jobs[c].plain = grants[g].pins /\ grants[g].consumed /\ jobs[c].plain \in Values
  BY WorkingJob DEF Deliver, In, JobHolds, Job
<1>2. /\ delivered' = [delivered EXCEPT ![g] = Append(delivered[g], jobs[c].plain)]
      /\ jobs' = [jobs EXCEPT ![c] = Idle]
      /\ UNCHANGED <<organization, projects, current, minted, calls, sweeps, sealed, grants>>
  BY DEF Deliver, keyVars
<1>3. delivered[g] = <<>>
  BY <1>1 DEF InjectionInv, DeliveredOnce, In
<1>4. /\ delivered'[g] \in Seq(Values) /\ Len(delivered'[g]) = 1
      /\ delivered'[g][1] = jobs[c].plain /\ DOMAIN delivered'[g] = {1}
      /\ \A h \in Grants \ {g} : delivered'[h] = delivered[h]
      /\ delivered' \in [Grants -> Seq(Values)]
  BY <1>1, <1>2, <1>3 DEF InjectionInv, InjectionTypeOK
<1>5. GrantsMove
  BY <1>2 DEF GrantsMove
<1>6. JobsHold' /\ jobs' \in [Clients -> Job]
  BY <1>2, <1>5, IdleHolds, JobStillHolds, JobsStillHold
<1>7. InjectionTypeOK'
  BY <1>2, <1>4, <1>6 DEF InjectionInv, InjectionTypeOK, KeyInv
<1>8. SecretsHold'
  BY <1>2, SecretsStay
<1>9. WritersHold'
  BY <1>2 DEF InjectionInv, InjectionTypeOK, WritersHold, In, Idle
<1>10. DeliveredOnce'
  <2>1. \A d \in Clients : In(d, "delivering")' =>
          d # c /\ In(d, "delivering") /\ jobs'[d] = jobs[d]
    BY <1>2 DEF InjectionInv, InjectionTypeOK, In, Idle
  <2>2. \A d \in Clients \ {c} : In(d, "delivering") => jobs[d].grant # g
    BY <1>1 DEF InjectionInv, DeliveredOnce, In
  <2>3. \A d \in Clients : In(d, "delivering") => jobs[d].grant \in Grants
    BY DEF InjectionInv, JobsHold, JobHolds, In
  <2>4. ASSUME NEW d \in Clients, In(d, "delivering")'
        PROVE  /\ delivered'[jobs'[d].grant] = <<>>
               /\ \A e \in Clients \ {d} : In(e, "delivering")' => jobs'[e].grant # jobs'[d].grant
    BY <1>4, <2>1, <2>2, <2>3, <2>4 DEF InjectionInv, DeliveredOnce
  <2>5. ASSUME NEW h \in Grants
        PROVE  /\ Len(delivered'[h]) <= 1
               /\ \A i \in DOMAIN delivered'[h] :
                    grants[h] # None /\ grants[h].consumed /\ delivered'[h][i] = grants[h].pins
    <3>1. CASE h = g
      <4>1. \A i \in DOMAIN delivered'[g] : i = 1 /\ delivered'[g][i] = grants[g].pins
        BY <1>1, <1>4
      <4>2. Len(delivered'[g]) <= 1
        BY <1>4
      <4> QED BY <1>1, <3>1, <4>1, <4>2
    <3>2. CASE h # g
      BY <1>4, <3>2 DEF InjectionInv, DeliveredOnce, DeliveredAsPinned
    <3> QED BY <3>1, <3>2
  <2> QED BY <1>2, <2>4, <2>5 DEF DeliveredOnce, DeliveredAsPinned, In
<1> QED BY <1>3, <1>4, <1>6, <1>7, <1>8, <1>9, <1>10 DEF InjectionInv

\* What a revocation and an expiry do to the rows.
LEMMA RevokedRows ==
  ASSUME InjectionInv, NEW G, RevokeWhere(G)
  PROVE  /\ grants' \in [Grants -> Grant \cup {None}]
         /\ \A g \in Grants :
              \/ grants'[g] = grants[g] /\ ~(g \in G /\ grants[g] # None /\ Active(grants[g]))
              \/ /\ g \in G /\ grants[g] # None /\ grants'[g] # None /\ Active(grants[g])
                 /\ grants'[g].pins = grants[g].pins /\ grants'[g].revoked
                 /\ ~grants'[g].consumed /\ ~grants'[g].expired
<1> SUFFICES ASSUME NEW g \in Grants
             PROVE  /\ grants'[g] \in Grant \cup {None}
                    /\ \/ grants'[g] = grants[g] /\ ~(g \in G /\ grants[g] # None /\ Active(grants[g]))
                       \/ /\ g \in G /\ grants[g] # None /\ grants'[g] # None /\ Active(grants[g])
                          /\ grants'[g].pins = grants[g].pins /\ grants'[g].revoked
                          /\ ~grants'[g].consumed /\ ~grants'[g].expired
  BY DEF RevokeWhere
<1>1. CASE g \in G /\ grants[g] # None /\ Active(grants[g])
  <2>1. grants[g] \in Grant /\ grants'[g] = [grants[g] EXCEPT !.revoked = TRUE]
    BY <1>1 DEF RevokeWhere, InjectionInv, InjectionTypeOK
  <2>2. grants'[g] \in Grant /\ grants'[g].pins = grants[g].pins /\ grants'[g].revoked
        /\ grants'[g].consumed = grants[g].consumed /\ grants'[g].expired = grants[g].expired
    BY <2>1 DEF Grant
  <2> QED BY <1>1, <2>2, AbsentGrant DEF Active
<1>2. CASE ~(g \in G /\ grants[g] # None /\ Active(grants[g]))
  BY <1>2 DEF RevokeWhere, InjectionInv, InjectionTypeOK
<1> QED BY <1>1, <1>2

LEMMA RevokeStep ==
  ASSUME InjectionInv, KeyInv', KeysKept, NEW G, RevokeWhere(G)
  PROVE  InjectionInv'
<1>1. /\ GrantsMove /\ grants' \in [Grants -> Grant \cup {None}]
      /\ \A g \in Grants : grants[g] # None /\ grants[g].consumed => grants'[g] = grants[g]
  BY RevokedRows DEF GrantsMove, Active
<1> QED BY <1>1, OnlyGrants DEF RevokeWhere, keyVars

LEMMA ExpiredRow ==
  ASSUME InjectionInv, NEW g \in Grants, Expire(g)
  PROVE  /\ grants' \in [Grants -> Grant \cup {None}]
         /\ grants[g] # None /\ Active(grants[g]) /\ grants'[g] # None
         /\ grants'[g].pins = grants[g].pins /\ grants'[g].expired
         /\ ~grants'[g].consumed /\ ~grants'[g].revoked
         /\ \A h \in Grants \ {g} : grants'[h] = grants[h]
<1>1. /\ grants[g] # None /\ Active(grants[g]) /\ grants[g] \in Grant
      /\ grants' = [grants EXCEPT ![g] = [grants[g] EXCEPT !.expired = TRUE]]
  BY DEF Expire, InjectionInv, InjectionTypeOK
<1>2. PICK row \in Grant : row = [grants[g] EXCEPT !.expired = TRUE]
  BY <1>1 DEF Grant
<1>3. row.pins = grants[g].pins /\ row.expired /\ ~row.consumed /\ ~row.revoked
  BY <1>1, <1>2 DEF Grant, Active
<1> QED BY <1>1, <1>2, <1>3, AbsentGrant DEF InjectionInv, InjectionTypeOK

LEMMA ExpireStep ==
  ASSUME InjectionInv, KeyInv', KeysKept, NEW g \in Grants, Expire(g)
  PROVE  InjectionInv'
<1>1. /\ GrantsMove /\ grants' \in [Grants -> Grant \cup {None}]
      /\ \A h \in Grants : grants[h] # None /\ grants[h].consumed => grants'[h] = grants[h]
  BY ExpiredRow DEF GrantsMove, Active
<1> QED BY <1>1, OnlyGrants DEF Expire, keyVars

\* The keyring and the sweeps never change which Project a request is about.
LEMMA KeysStep ==
  ASSUME InjectionInv, KeyInv', KeysKept, Keys, UNCHANGED grantVars
  PROVE  InjectionInv'
<1>1. \A d \in Clients : calls[d].phase # "idle" =>
        calls'[d].phase # "idle" /\ calls'[d].project = calls[d].project
  <2>1. ASSUME NEW c \in Clients, KeyringStep(c), NEW d \in Clients, calls[d].phase # "idle"
        PROVE  calls'[d].phase # "idle" /\ calls'[d].project = calls[d].project
    <3>1. calls[c] \in Call /\ calls \in [Clients -> Call]
      BY DEF InjectionInv, KeyInv, KeysTypeOK
    <3>2. CASE d # c
      BY <2>1, <3>1, <3>2
      DEF KeyringStep, ReadOrganization, MintOrganization, ReadRoot, ReadProject, MintProject,
          Resolve, Unwrap
    <3>3. CASE d = c
      BY <2>1, <3>1, <3>3
      DEF KeyringStep, ReadOrganization, MintOrganization, ReadRoot, ReadProject, MintProject,
          Resolve, Unwrap, Call
    <3> QED BY <3>2, <3>3
  <2>2. DeployRoot => UNCHANGED calls
    BY DEF DeployRoot
  <2>3. \A s \in Sweepers : SweepStep(s) => UNCHANGED calls
    BY DEF SweepStep, BeginSweep, ListProjects, RewrapProject, RewrapOrganization, VerifySweep,
           AbandonSweep
  <2> QED BY <2>1, <2>2, <2>3 DEF Keys
<1>2. GrantsMove /\ grants' \in [Grants -> Grant \cup {None}]
      /\ UNCHANGED <<sealed, jobs, delivered>> /\ grants' = grants
  BY DEF grantVars, GrantsMove, InjectionInv, InjectionTypeOK
<1> QED BY <1>1, <1>2, OnlyGrants

-----------------------------------------------------------------------------
(* The theorems.                                                           *)

LEMMA InjectionInvInit == Init => InjectionInv
<1> SUFFICES ASSUME Init PROVE InjectionInv
  OBVIOUS
<1>1. KeyInv
  BY KeyInvInit DEF Init
<1>2. InjectionTypeOK
  BY <1>1, IdleHolds DEF Init, InjectionTypeOK, KeyInv
<1>3. SecretsHold
  BY InjectionAssumption DEF Init, SecretsHold, CurrentVersion, CiphertextsAreReadable
<1>4. JobsHold
  <2> SUFFICES ASSUME NEW c \in Clients PROVE JobHolds(jobs[c])
    BY DEF JobsHold
  <2> QED BY IdleHolds DEF Init
<1>5. WritersHold /\ DeliveredOnce
  BY DEF Init, WritersHold, DeliveredOnce, DeliveredAsPinned, In, Idle
<1> QED BY <1>1, <1>2, <1>3, <1>4, <1>5 DEF InjectionInv

LEMMA InjectionInvNext == InjectionInv /\ [Next]_vars => InjectionInv' /\ KeyInv' /\ KeysKept
<1> SUFFICES ASSUME InjectionInv, [Next]_vars PROVE InjectionInv' /\ KeyInv' /\ KeysKept
  OBVIOUS
<1>1. KeyInv' /\ KeysKept
  BY StepMovesKeys, KeyMoveKeeps DEF InjectionInv
<1>2. ASSUME NEW c \in Clients, Request(c) PROVE InjectionInv'
  BY <1>1, <1>2, BeginWriteStep, ResolveBindingStep, DecryptStep, BeginIssueStep,
     BeginConsumeStep, PersistGrantStep, AppendVersionStep, CommitConsumeStep, DeliverStep,
     FailStep DEF Request
<1>3. ASSUME NEW G, RevokeWhere(G) PROVE InjectionInv'
  BY <1>1, <1>3, RevokeStep
<1>4. CASE UNCHANGED vars
  <2>1. GrantsMove /\ grants' \in [Grants -> Grant \cup {None}]
    BY <1>4 DEF vars, GrantsMove, InjectionInv, InjectionTypeOK
  <2> QED BY <1>1, <1>4, <2>1, OnlyGrants DEF vars
<1> QED BY <1>1, <1>2, <1>3, <1>4, KeysStep, ExpireStep
        DEF Next, RevokeForSuspension, RevokeForVersion

LEMMA InjectionInvHolds == Spec => []InjectionInv
  BY InjectionInvInit, InjectionInvNext, PTL DEF Spec

\* InjectionTypeOK: the keys, the versions, the grants and the requests always have
\* their types.
THEOREM InjectionTypeCorrect == Spec => []InjectionTypeOK
<1>1. InjectionInv => InjectionTypeOK
  BY DEF InjectionInv
<1> QED BY <1>1, InjectionInvHolds, PTL

\* CiphertextsAreReadable: every stored version is sealed with the key that is in the
\* row of its Project, whatever mints and rewraps raced with its write.
THEOREM CiphertextsStayReadable == Spec => []CiphertextsAreReadable
<1>1. InjectionInv => CiphertextsAreReadable
  BY DEF InjectionInv, SecretsHold
<1> QED BY <1>1, InjectionInvHolds, PTL

\* DeliveredAsPinned: the values of a grant leave the Worker at most once, and they are
\* those it pinned.
THEOREM DeliveriesArePinned == Spec => []DeliveredAsPinned
<1>1. InjectionInv => DeliveredAsPinned
  BY DEF InjectionInv, DeliveredOnce
<1> QED BY <1>1, InjectionInvHolds, PTL

\* What a step does to a grant: one request consumes it, with its values in hand, or
\* its row is inserted, revoked, expired or left alone.
LEMMA GrantStep ==
  ASSUME InjectionInv, [Next]_vars
  PROVE  \/ \E c \in Clients, g \in Grants : PersistGrant(c, g)
         \/ \E c \in Clients : CommitConsume(c) \/ Deliver(c)
         \/ \E G \in SUBSET Grants : RevokeWhere(G)
         \/ \E g \in Grants : Expire(g)
         \/ UNCHANGED <<grants, delivered>>
<1>1. ASSUME NEW c \in Clients, Request(c)
      PROVE  \/ \E g \in Grants : PersistGrant(c, g)
             \/ CommitConsume(c) \/ Deliver(c)
             \/ UNCHANGED <<grants, delivered>>
  BY <1>1 DEF Request, BeginWrite, ResolveBinding, Decrypt, BeginIssue, BeginConsume,
              AppendVersion, Fail
<1>2. UNCHANGED vars \/ UNCHANGED grantVars => UNCHANGED <<grants, delivered>>
  BY DEF vars, grantVars
<1>3. \A s \in Secrets, n \in 1 .. MaxVersions :
        RevokeForVersion(s, n) => \E G \in SUBSET Grants : RevokeWhere(G)
  BY DEF RevokeForVersion, Pinning
<1>4. RevokeForSuspension => \E G \in SUBSET Grants : RevokeWhere(G)
  BY DEF RevokeForSuspension
<1> QED BY <1>1, <1>2, <1>3, <1>4 DEF Next

\* SpentWithValuesInHand: a grant is only consumed by a request that has decrypted every
\* version it pins.
THEOREM SpentWithValues == Spec => SpentWithValuesInHand
<1> DEFINE Spent(g) == grants'[g] # None /\ grants'[g].consumed /\ ~grants[g].consumed =>
                         \E c \in Clients :
                           /\ In(c, "decrypting")
                           /\ jobs[c].grant = g
                           /\ jobs[c].plain = grants[g].pins
<1>1. ASSUME InjectionInv, [Next]_vars, NEW g \in Grants PROVE Spent(g)
  <2>1. ASSUME NEW c \in Clients, CommitConsume(c) PROVE Spent(g)
    <3>1. /\ jobs[c].phase = "decrypting" /\ jobs[c].grant \in Grants
          /\ jobs[c].plain = grants[jobs[c].grant].pins
      BY <1>1, <2>1, ConsumingJob
    <3>2. CASE jobs[c].grant = g
      BY <3>1, <3>2 DEF In
    <3>3. CASE jobs[c].grant # g
      BY <1>1, <2>1, <3>1, <3>3 DEF CommitConsume, InjectionInv, InjectionTypeOK
    <3> QED BY <3>2, <3>3
  <2>2. ASSUME NEW c \in Clients, NEW h \in Grants, PersistGrant(c, h) PROVE Spent(g)
    BY <1>1, <2>2 DEF PersistGrant, InjectionInv, InjectionTypeOK
  <2>3. ASSUME NEW G \in SUBSET Grants, RevokeWhere(G) PROVE Spent(g)
    BY <1>1, <2>3, RevokedRows
  <2>4. ASSUME NEW h \in Grants, Expire(h) PROVE Spent(g)
    BY <1>1, <2>4, ExpiredRow
  <2>5. (UNCHANGED <<grants, delivered>> => Spent(g))
        /\ \A c \in Clients : Deliver(c) => Spent(g)
    BY DEF Deliver
  <2> QED BY <1>1, <2>1, <2>2, <2>3, <2>4, <2>5, GrantStep
<1>2. InjectionInv /\ [Next]_vars => [\A g \in Grants : Spent(g)]_vars
  BY <1>1
<1> QED BY <1>2, InjectionInvHolds, PTL DEF Spec, SpentWithValuesInHand

\* KeyIdentityIsStable: also with requests that encrypt and decrypt, a stored data key
\* never changes.
THEOREM KeysStayTheSame == Spec => KeyIdentityIsStable
<1> DEFINE Stable == /\ organization # None => SameKey(organization, organization')
                     /\ \A p \in Projects : projects[p] # None => SameKey(projects[p], projects'[p])
<1>1. InjectionInv /\ [Next]_vars => [Stable]_keyVars
  BY InjectionInvNext DEF KeysKept
<1> QED BY <1>1, InjectionInvHolds, PTL DEF Spec, KeyIdentityIsStable

\* ImplementsGrantLifecycle: consumes, revocations and expiries of a grant take it out
\* of "issued" once and for good, and only its consume hands its values out, once.
THEOREM GrantsImplementLifecycle == Spec => ImplementsGrantLifecycle
<1> DEFINE st   == [g \in Grants |-> Status(g)]
           dl   == [g \in Grants |-> Len(delivered[g])]
           seen == <<st, dl>>
<1>1. Init => Lifecycle!Init
  BY DEF Init, Lifecycle!Init, Status
<1>2. InjectionInv /\ [Next]_vars => [Lifecycle!Next]_seen
  <2> SUFFICES ASSUME InjectionInv, [Next]_vars PROVE Lifecycle!Next \/ UNCHANGED seen
    OBVIOUS
  <2>1. ASSUME NEW c \in Clients, NEW g \in Grants, PersistGrant(c, g)
        PROVE  Lifecycle!Issue(g)
    <3>1. st[g] = "none"
      BY <2>1 DEF PersistGrant, Status
    <3>2. \A h \in Grants : Status(h)' = IF h = g THEN "issued" ELSE Status(h)
      <4>1. [pins |-> jobs[c].pins, consumed |-> FALSE, revoked |-> FALSE, expired |-> FALSE] # None
        <5>1. [pins |-> jobs[c].pins, consumed |-> FALSE, revoked |-> FALSE,
               expired |-> FALSE] \in Grant
          BY WorkingJob DEF Job, Grant
        <5> QED BY <5>1, AbsentGrant
      <4> QED BY <2>1, <4>1 DEF PersistGrant, Status, InjectionInv, InjectionTypeOK
    <3>3. st' = [st EXCEPT ![g] = "issued"]
      BY <3>2
    <3>4. dl' = dl
      BY <2>1 DEF PersistGrant
    <3> QED BY <3>1, <3>3, <3>4 DEF Lifecycle!Issue
  <2>2. ASSUME NEW c \in Clients, CommitConsume(c)
        PROVE  Lifecycle!Leave({jobs[c].grant}, "consumed") /\ jobs[c].grant \in Grants
    <3> DEFINE g == jobs[c].grant
    <3>1. g \in Grants /\ grants[g] \in Grant /\ grants[g] # None /\ Active(grants[g])
      BY <2>2, ConsumingJob DEF CommitConsume
    <3>2. grants' = [grants EXCEPT ![g].consumed = TRUE] /\ delivered' = delivered
      BY <2>2 DEF CommitConsume
    <3>3. grants'[g] # None /\ grants'[g].consumed /\ \A h \in Grants \ {g} : grants'[h] = grants[h]
      BY <3>1, <3>2, AbsentGrant DEF Grant, InjectionInv, InjectionTypeOK
    <3>4. Status(g) = "issued"
      BY <3>1 DEF Status, Active
    <3>5. \A h \in Grants : Status(h)' = IF h \in {g} THEN "consumed" ELSE Status(h)
      BY <3>3 DEF Status
    <3>6. st' = [h \in Grants |-> IF h \in {g} THEN "consumed" ELSE st[h]] /\ dl' = dl
      BY <3>2, <3>5
    <3> QED BY <3>1, <3>4, <3>6 DEF Lifecycle!Leave
  <2>3. ASSUME NEW G \in SUBSET Grants, RevokeWhere(G)
        PROVE  \E H \in SUBSET Grants : Lifecycle!Leave(H, "revoked")
    <3> DEFINE H == {g \in G : grants[g] # None /\ Active(grants[g])}
    <3>1. \A g \in H : Status(g) = "issued"
      BY DEF Status, Active
    <3>2. \A g \in Grants : Status(g)' = IF g \in H THEN "revoked" ELSE Status(g)
      BY <2>3, RevokedRows DEF Status
    <3>3. st' = [g \in Grants |-> IF g \in H THEN "revoked" ELSE st[g]] /\ dl' = dl
      BY <2>3, <3>2 DEF RevokeWhere
    <3>4. Lifecycle!Leave(H, "revoked")
      BY <3>1, <3>3 DEF Lifecycle!Leave
    <3> QED BY <3>4
  <2>4. ASSUME NEW g \in Grants, Expire(g)
        PROVE  Lifecycle!Leave({g}, "expired")
    <3>1. Status(g) = "issued"
      BY <2>4 DEF Expire, Status, Active
    <3>2. \A h \in Grants : Status(h)' = IF h \in {g} THEN "expired" ELSE Status(h)
      BY <2>4, ExpiredRow DEF Status
    <3>3. st' = [h \in Grants |-> IF h \in {g} THEN "expired" ELSE st[h]] /\ dl' = dl
      BY <2>4, <3>2 DEF Expire
    <3> QED BY <3>1, <3>3 DEF Lifecycle!Leave
  <2>5. ASSUME NEW c \in Clients, Deliver(c)
        PROVE  \E g \in Grants : Lifecycle!Deliver(g)
    <3>1. PICK g \in Grants :
            /\ g = jobs[c].grant /\ grants[g] # None /\ grants[g].consumed
            /\ delivered[g] = <<>> /\ Len(delivered'[g]) = 1
      BY <2>5, WorkingJob, StepMovesKeys, KeyMoveKeeps, DeliverStep
      DEF Deliver, In, JobHolds, InjectionInv
    <3>2. Status(g) = "consumed" /\ dl[g] = 0
      BY <3>1 DEF Status
    <3>3. \A h \in Grants : Len(delivered'[h]) = IF h = g THEN 1 ELSE Len(delivered[h])
      BY <2>5, <3>1 DEF Deliver, InjectionInv, InjectionTypeOK
    <3>4. dl' = [dl EXCEPT ![g] = 1]
      BY <3>3
    <3>5. st' = st
      BY <2>5 DEF Deliver, Status
    <3>6. Lifecycle!Deliver(g)
      BY <3>2, <3>4, <3>5 DEF Lifecycle!Deliver
    <3> QED BY <3>6
  <2>6. UNCHANGED <<grants, delivered>> => UNCHANGED seen
    BY DEF Status
  <2>7. ASSUME NEW c \in Clients, CommitConsume(c) \/ Deliver(c) PROVE Lifecycle!Next
    <3>1. CASE CommitConsume(c)
      BY <2>2, <3>1 DEF Lifecycle!Next
    <3>2. CASE Deliver(c)
      BY <2>5, <3>2 DEF Lifecycle!Next
    <3> QED BY <2>7, <3>1, <3>2
  <2>8. ASSUME NEW c \in Clients, NEW g \in Grants, PersistGrant(c, g) PROVE Lifecycle!Next
    BY <2>1, <2>8 DEF Lifecycle!Next
  <2>9. ASSUME NEW G \in SUBSET Grants, RevokeWhere(G) PROVE Lifecycle!Next
    BY <2>3, <2>9 DEF Lifecycle!Next
  <2>10. ASSUME NEW g \in Grants, Expire(g) PROVE Lifecycle!Next
    BY <2>4, <2>10 DEF Lifecycle!Next
  <2> HIDE DEF seen
  <2> QED BY <2>6, <2>7, <2>8, <2>9, <2>10, GrantStep
<1> QED BY <1>1, <1>2, InjectionInvHolds, PTL
        DEF Spec, ImplementsGrantLifecycle, Lifecycle!Spec
=============================================================================
