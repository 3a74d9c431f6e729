--------------------------- MODULE InjectionGrants ---------------------------
(***************************************************************************)
(* The delivery of Sensitive Values at run time (packages/secret-store,    *)
(* runtime-injection-issue, runtime-injection, tenant-store/src/           *)
(* injection-grants), on top of the data keys of DataKeys.                 *)
(*                                                                         *)
(* A write encrypts a value and appends it as the current version.  An     *)
(* issue pins the current versions of its secrets in a grant.  A consume   *)
(* loads the grant, decrypts every pinned version and only then marks the  *)
(* grant consumed with one conditional UPDATE; the values leave the Worker *)
(* after that transaction.  Every step here is a transaction, or the end   *)
(* of a call, of one of several concurrent requests.                       *)
(***************************************************************************)
EXTENDS DataKeys, Sequences, FiniteSets

CONSTANTS
  Secrets,     \* the secrets of the Organization
  Home,        \* the Project of each secret
  Grants,      \* grant IDs
  MaxVersions, \* bound on the versions of a secret
  MaxWrites    \* bound on the versions of all secrets

ASSUME InjectionAssumption ==
  /\ Home \in [Secrets -> Projects]
  /\ MaxVersions \in Nat
  /\ MaxWrites \in Nat

VARIABLES
  sealed,    \* per secret, the key each of its versions is encrypted with
  grants,    \* the injection_grants table
  jobs,      \* per client, the request it is in the middle of
  delivered  \* history: per grant, the values that left the Worker

grantVars == <<sealed, grants, jobs, delivered>>

vars == <<organization, projects, current, minted, calls, sweeps,
          sealed, grants, jobs, delivered>>

-----------------------------------------------------------------------------
(* Rows and requests.                                                      *)

\* Values are told apart by the number of the version they come from.
Values == UNION {[S -> 1 .. MaxVersions] : S \in SUBSET Secrets}

NoValues == [s \in {} |-> 0]

Grant == [pins : Values, consumed : BOOLEAN, revoked : BOOLEAN, expired : BOOLEAN]

ASSUME AbsentGrant == None \notin Grant \cup Grants \cup Secrets

Job == [phase : {"idle", "writing", "issuing", "decrypting", "delivering"},
        secret : Secrets \cup {None}, grant : Grants \cup {None}, todo : SUBSET Secrets,
        pins : Values, plain : Values]

Idle == [phase |-> "idle", secret |-> None, grant |-> None, todo |-> {},
         pins |-> NoValues, plain |-> NoValues]

In(c, phase) == jobs[c].phase = phase

\* The version a new grant pins.
CurrentVersion(s) == Len(sealed[s])

Versions == {v \in Secrets \X (1 .. MaxVersions) : v[2] <= CurrentVersion(v[1])}

\* The bounds leave room for one more version of s.
Room(s) == CurrentVersion(s) < MaxVersions /\ Cardinality(Versions) < MaxWrites

Add(values, s, n) == [t \in DOMAIN values \cup {s} |-> IF t = s THEN n ELSE values[t]]

Init ==
  /\ KeyInit
  /\ sealed    = [s \in Secrets |-> <<>>]
  /\ grants    = [g \in Grants |-> None]
  /\ jobs      = [c \in Clients |-> Idle]
  /\ delivered = [g \in Grants |-> <<>>]

-----------------------------------------------------------------------------
(* Blind Secret Write.                                                     *)

BeginWrite(c, s) ==
  /\ In(c, "idle")
  /\ Room(s)
  /\ jobs' = [jobs EXCEPT ![c] = [Idle EXCEPT !.phase = "writing", !.secret = s]]
  /\ BeginEncrypt(c, Home[s])
  /\ UNCHANGED <<sealed, grants, delivered>>

\* Mutant of SealedWith: the key minted last, although another one may be stored.
SealedMinted(c) == minted

\* encryptSecretValue seals with the key the keyring returned.
SealedWith(c) == calls[c].key

\* appendVersionAndMakeLive under the row lock of the secret.
AppendVersion(c) ==
  LET s == jobs[c].secret IN
  /\ In(c, "writing")
  /\ InCall(c, "ready")
  /\ Room(s)
  /\ sealed' = [sealed EXCEPT ![s] = Append(@, SealedWith(c))]
  /\ jobs' = [jobs EXCEPT ![c] = Idle]
  /\ EndCall(c)
  /\ UNCHANGED <<organization, projects, current, minted, sweeps, grants, delivered>>

-----------------------------------------------------------------------------
(* Issue.                                                                  *)

\* One secret, or those of a Runtime Injection Policy Version.
BeginIssue(c, S) ==
  /\ In(c, "idle")
  /\ S # {}
  /\ \A s, t \in S : Home[s] = Home[t]
  /\ jobs' = [jobs EXCEPT ![c] = [Idle EXCEPT !.phase = "issuing", !.todo = S]]
  /\ UNCHANGED <<keyVars, sealed, grants, delivered>>

\* resolveBindingForSelector, one secret after the other.
ResolveBinding(c, s) ==
  /\ In(c, "issuing")
  /\ s \in jobs[c].todo
  /\ CurrentVersion(s) > 0
  /\ jobs' = [jobs EXCEPT ![c].todo = @ \ {s}, ![c].pins = Add(@, s, CurrentVersion(s))]
  /\ UNCHANGED <<keyVars, sealed, grants, delivered>>

\* persistIssuedGrant, in a later transaction and with a new ID.
PersistGrant(c, g) ==
  /\ In(c, "issuing")
  /\ jobs[c].todo = {}
  /\ grants[g] = None
  /\ grants' = [grants EXCEPT ![g] = [pins |-> jobs[c].pins, consumed |-> FALSE,
                                      revoked |-> FALSE, expired |-> FALSE]]
  /\ jobs' = [jobs EXCEPT ![c] = Idle]
  /\ UNCHANGED <<keyVars, sealed, delivered>>

-----------------------------------------------------------------------------
(* Consume.                                                                *)

\* loadGrantBinding and loadPolicyGrantBindings look at the bindings only.
BeginConsume(c, g) ==
  /\ In(c, "idle")
  /\ grants[g] # None
  /\ LET pins == grants[g].pins IN
       /\ jobs' = [jobs EXCEPT ![c] = [Idle EXCEPT !.phase = "decrypting", !.grant = g,
                                                   !.todo = DOMAIN pins, !.pins = pins]]
       /\ \E s \in DOMAIN pins : BeginDecrypt(c, Home[s])
  /\ UNCHANGED <<sealed, grants, delivered>>

\* Mutant of Pinned: the version is resolved again at consume.
PinnedLate(c, s) == CurrentVersion(s)

\* The version the loaded grant names for a secret.
Pinned(c, s) == jobs[c].pins[s]

\* decryptBoundGrantSecretVersion: a key that is not the one the version was sealed
\* with does not open it.
Decrypt(c, s) ==
  LET rest == jobs[c].todo \ {s} IN
  /\ In(c, "decrypting")
  /\ InCall(c, "ready")
  /\ s \in jobs[c].todo
  /\ calls[c].key = sealed[s][Pinned(c, s)]
  /\ jobs' = [jobs EXCEPT ![c].todo = rest, ![c].plain = Add(@, s, Pinned(c, s))]
  /\ IF rest = {} THEN EndCall(c) ELSE ResolveAgain(c)
  /\ UNCHANGED <<organization, projects, current, minted, sweeps, sealed, grants, delivered>>

\* Mutant of Active: the revocation is not part of the condition.
ActiveUnrevoked(grant) == ~grant.consumed /\ ~grant.expired

\* activeInjectionGrantWhere.
Active(grant) == ~grant.consumed /\ ~grant.revoked /\ ~grant.expired

\* Mutant of Decrypted: the grant is consumed before its values are there.
DecryptedLater(c) == In(c, "decrypting")

Decrypted(c) == In(c, "decrypting") /\ jobs[c].todo = {}

\* tryConsumeGrant and tryConsumeGrantAll, with the audit event.
CommitConsume(c) ==
  LET g == jobs[c].grant IN
  /\ Decrypted(c)
  /\ Active(grants[g])
  /\ grants' = [grants EXCEPT ![g].consumed = TRUE]
  /\ jobs' = [jobs EXCEPT ![c].phase = "delivering"]
  /\ UNCHANGED <<keyVars, sealed, delivered>>

Deliver(c) ==
  LET g == jobs[c].grant IN
  /\ In(c, "delivering")
  /\ delivered' = [delivered EXCEPT ![g] = Append(@, jobs[c].plain)]
  /\ jobs' = [jobs EXCEPT ![c] = Idle]
  /\ UNCHANGED <<keyVars, sealed, grants>>

\* A request is refused or fails, the plaintext it holds is overwritten, or its
\* Worker dies.
Fail(c) ==
  /\ ~In(c, "idle")
  /\ jobs' = [jobs EXCEPT ![c] = Idle]
  /\ EndCall(c)
  /\ UNCHANGED <<organization, projects, current, minted, sweeps, sealed, grants, delivered>>

-----------------------------------------------------------------------------
(* Revocation and expiry.                                                  *)

\* Both revocations are one UPDATE over the active grants.
RevokeWhere(G) ==
  /\ grants' = [g \in Grants |-> IF g \in G /\ grants[g] # None /\ Active(grants[g])
                                 THEN [grants[g] EXCEPT !.revoked = TRUE] ELSE grants[g]]
  /\ UNCHANGED <<keyVars, sealed, jobs, delivered>>

\* revokeInjectionGrantsForTenantSuspension.
RevokeForSuspension == RevokeWhere(Grants)

Pinning(s, n) ==
  {g \in Grants : grants[g] # None /\ s \in DOMAIN grants[g].pins /\ grants[g].pins[s] = n}

\* revokeInjectionGrantsForCompromiseVersion.
RevokeForVersion(s, n) ==
  /\ n \in 1 .. Len(sealed[s])
  /\ RevokeWhere(Pinning(s, n))

\* expiresAt passes; no row is written.  Nobody looks at it on a grant that is consumed
\* or revoked.
Expire(g) ==
  /\ grants[g] # None
  /\ Active(grants[g])
  /\ grants' = [grants EXCEPT ![g].expired = TRUE]
  /\ UNCHANGED <<keyVars, sealed, jobs, delivered>>

-----------------------------------------------------------------------------
Request(c) ==
  \/ \E s \in Secrets : BeginWrite(c, s) \/ ResolveBinding(c, s) \/ Decrypt(c, s)
  \/ \E S \in SUBSET Secrets : BeginIssue(c, S)
  \/ \E g \in Grants : BeginConsume(c, g) \/ PersistGrant(c, g)
  \/ AppendVersion(c)
  \/ CommitConsume(c)
  \/ Deliver(c)
  \/ Fail(c)

Keys == \/ \E c \in Clients : KeyringStep(c)
        \/ DeployRoot
        \/ \E s \in Sweepers : SweepStep(s)

Next ==
  \/ \E c \in Clients : Request(c)
  \/ Keys /\ UNCHANGED grantVars
  \/ RevokeForSuspension
  \/ \E s \in Secrets, n \in 1 .. MaxVersions : RevokeForVersion(s, n)
  \/ \E g \in Grants : Expire(g)

Spec == Init /\ [][Next]_vars

-----------------------------------------------------------------------------
(* Properties.                                                             *)

\* Type invariant of the keys, the versions, the grants and the requests.
InjectionTypeOK ==
  /\ KeysTypeOK
  /\ sealed \in [Secrets -> Seq(Nat)]
  /\ grants \in [Grants -> Grant \cup {None}]
  /\ jobs \in [Clients -> Job]
  /\ delivered \in [Grants -> Seq(Values)]

\* Every stored version stays decryptable: it was sealed with the data key that is in
\* the row of its Project today, although the writer may have lost the race to mint
\* that key, and the row was rewrapped and overwritten by sweeps since.
CiphertextsAreReadable ==
  \A s \in Secrets : \A n \in 1 .. Len(sealed[s]) :
    /\ projects[Home[s]] # None
    /\ sealed[s][n] = projects[Home[s]].key

\* Whatever left the Worker is what the grant pinned at its issue, all of it and
\* nothing newer, and it left once (ADR-0074: the version it was issued for or nothing).
DeliveredAsPinned ==
  \A g \in Grants :
    /\ Len(delivered[g]) <= 1
    /\ \A i \in DOMAIN delivered[g] :
         grants[g] # None /\ grants[g].consumed /\ delivered[g][i] = grants[g].pins

\* A grant is only ever spent by a request that holds the plaintext of every pinned
\* version: a decrypt that fails, in the middle of a rewrap for one, burns no grant.
SpentWithValuesInHand ==
  [][\A g \in Grants :
       grants'[g] # None /\ grants'[g].consumed /\ ~grants[g].consumed =>
         \E c \in Clients :
           /\ In(c, "decrypting")
           /\ jobs[c].grant = g
           /\ jobs[c].plain = grants[g].pins]_vars

\* The state of a grant as ADR-0074 names it.
Status(g) ==
  IF grants[g] = None THEN "none"
  ELSE IF grants[g].consumed THEN "consumed"
  ELSE IF grants[g].revoked THEN "revoked"
  ELSE IF grants[g].expired THEN "expired"
  ELSE "issued"

Lifecycle == INSTANCE GrantLifecycle WITH
  status     <- [g \in Grants |-> Status(g)],
  deliveries <- [g \in Grants |-> Len(delivered[g])]

\* Racing consumes, revocations and expiries of a grant implement GrantLifecycle: one
\* of them wins for good, and only the winning consume hands its values out.
ImplementsGrantLifecycle == Lifecycle!Spec
=============================================================================
