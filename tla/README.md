# A verification development of insecur

This directory models the transactional core of insecur in TLA+: the Operation Store, the Sync
Target leases, a run of Inline Sync Execution, the promotion, rollback and approval of Secret
Versions, High-Assurance Challenges and the mutations they gate, data keys with the Injection Grants
that deliver what they encrypt, the scheduled backup with its restore, and the one-way migration of a
Local Mode project. TLC checks every module on small instances, and TLAPS proves the safety properties that the runs check for every value
of the constants.

Run inside this directory:

    tlc -workers 2 -config OperationStoreEvidence.cfg MCOperationStore.tla
    tlapm OperationStoreProofs.tla

`PROJECT.json` lists the runs, the mutants that show each property to bite, the source lines every
definition translates, the hazards, the findings and the theorems.

## 1. The system

insecur stores secrets for teams. Cloudflare Workers serve an API (`apps/api`), a runtime service
(`apps/runtime`), a console (`apps/web`) and a site (`apps/site`); a CLI (`packages/cli`) calls the
API. Every command of the service is a function of a package, runs in one Worker request, and keeps
its state in Postgres through short READ COMMITTED transactions (`withTenantScope`). There are no
queues, no background sweepers and no in-memory state shared by requests, the data-key rewrap (a
request of its own) and the keyring's cache of opened keys excepted. What is hard is therefore what
happens between the transactions of several requests, between the statements of one, and when a
Worker dies between two of its awaits. Local Mode is the same on a smaller scale: CLI processes of
one machine share a committed config file and a SQLite store without a lock around the two.

| Component | State | Operations | Interacts with | Hard behaviour | Correct when |
| --- | --- | --- | --- | --- | --- |
| Operation Store, `packages/operations` | `operations` rows: state, revision, deadline, progress document | create, transition, retry, cancel, progress, clear / deny / consume evidence, get | called by sync, high assurance, protected change, backup, CLI polling | unlocked read, then compare-and-set; retry loops; lazy parking of abandoned claims; idempotent replays | no lost update, exact-once evidence, one arm of the table per step, terminal is final, claim iff running |
| Sync Target leases, `packages/operations` | `sync_target_leases` rows, binding in the Operation's progress | claim, renew, release, assert | sync runs; every mutation of a leased Operation | takeover of an expired lease, stale holders, reuse of tokens | one holder, a token names one holder |
| Inline Sync Execution, `packages/secret-sync` | a request's locals, its Operation, its lease, provider contents | create, claim, start, revalidate, write each binding, deploy, finish, release | Operation Store, leases, provider | crash, cancel, expiry between awaits; ambiguous provider calls | at most one lost write, truthful results, no partial deploy, the target is freed |
| Secret Versions, `packages/tenant-store/src/secrets` | `secrets` (current version, live number), `secret_versions` | append draft, append live, publish, copy, discard | approvals, blind writes | discard without the secret lock, optimistic live guard, version numbers with gaps | pointer and version state agree, published in order |
| Approval Requests, `packages/protected-change`, `tenant-store/src/approvals` | `approval_requests` and change sets | request (supersede), approve, reject, cancel, close on discard | Secret Versions, delivery policies, high assurance | several transactions per command, races of decisions | one pending promotion, decided is final, published iff approved |
| High-Assurance Challenges, `packages/high-assurance` | evidence in an Operation's progress, audits | request, clear, deny, resume with consume | Operation Store, protected change, policies | audits after the state change and repeated, replacement of a challenge, crash between consume and mutation | no mutation without its own consumed evidence, an audit log in order, denial is final |
| Injection Grants, `packages/runtime-injection*` | `injection_grants` rows | issue, consume, revoke | secrets, policies, data keys | decrypt before consume, consume against revoke and expiry | spent once, with all values in hand, and only what was pinned |
| Data keys, `tenant-store/src/data-keys`, `packages/crypto`, `packages/tenant-keyring` | data key rows, root key versions, the keyring's cache | mint on first use, rewrap, load | every encryption | concurrent mint, unguarded rewrap over an earlier read, a request between two rows of a sweep | a key's identity is stable, every ciphertext opens |
| Local Mode, `packages/cli`, `packages/local-store` | `.insecur.json`, SQLite rows | `secrets set`, adoption, `projects migrate` | the Hosted Instance | stale config written back whole, crash between delete and flip, other users' writes between list and write | no value is lost, none is overwritten, a retry converges |
| Protected Change, `packages/protected-change` | `protected_changes` rows | create, transition | approvals | freshness check before the transition | no transition on a stale review |
| Instance bootstrap, `packages/instance-bootstrap` | claim row, grants | complete claim | access | two claimants | claimed once |
| Backup, `packages/backup-restore`, `apps/runtime/src/backup` and `restore` | artifact, evidence and pointer objects, an Operation, audits; the journal and the rows of a restore target | scheduled export, replay of a cron event, publish; import into a fresh target | Operation Store, storage, source and target database | reads that are not one snapshot, lost answers, racing publishers, a death between two objects, two imports on one target | the pointer names the newest complete export, what was exported can be imported, a restore is whole or marked as not |
| Onboarding, notifications, delivery policy, app connections, machine auth, access, auth, audit | rows of their own | single-transaction commands | - | little concurrency | - |
| Gates (`storage-security-gate`, `release-gate`), `domain`, `observability`, `ui`, `worker-kit`, `preview-smoke`, apps, the rest of `cli` | none, or local | pure functions, I/O, rendering | - | none for a model checker | - |

`PROJECT.json` has one entry per component, the ones that are not modelled included, with the
reason.

## 2. The modules

| Module | Models |
| --- | --- |
| `OperationStates` | the nine states and the transition table, `operation-states.ts` |
| `OperationLifecycle` | the abstract specification: created pending, then one arm of the table at a time |
| `OperationRows` | the rows of the operations table, the calls, and what a call computes from a row; no variables |
| `AtomicStore` | the abstract specification of the store: every call is one step on the stored row |
| `ChallengeLifecycle` | the abstract specification of challenges, between the store and the gates that spend them |
| `OperationStore` | the Operation Store for Operations that never claim a lease |
| `SyncTargetLease` | the lease table, the bindings, ownership and enforcement |
| `SecretSyncRun` | sync runs; EXTENDS `SyncTargetLease`, and composes it with the Operation rows and the provider |
| `PublicationHistory` | the abstract specification of promotion: histories of published versions, every call one step |
| `ProtectedPromotion` | Secret Versions and Approval Requests |
| `HighAssurance` | challenges, the audit log, and the gates with their mutations |
| `DataKeys` | wrapped data keys, the keyring and the rewrap sweep |
| `GrantLifecycle` | the abstract specification of a grant: issued, then spent once or revoked |
| `InjectionGrants` | writes, issues, consumes and revocations; EXTENDS `DataKeys` |
| `BackupService` | the abstract specification of backups: seal once, publish forward, restore one export whole |
| `BackupExport` | the scheduled export: source, Operation, objects, latest pointer |
| `BackupRestore` | the import into a fresh target; EXTENDS `BackupExport`, whose artifacts it restores |
| `LocalMigration` | Local Mode: `secrets set` and `projects migrate` |
| `*Proofs` | the theorems of the module they extend |
| `MCOperationStore`, `MCSecretSyncRun`, `MCProtectedPromotion`, `MCHighAssurance`, `MCRuntimeDelivery` (of `InjectionGrants`), `MCBackupRestore`, `MCLocalMigration` | instances for TLC: model values, symmetry, and one initial state |

### OperationStore

A call is an open transaction `tx[c]`: `Begin` is its unlocked SELECT (with the evaluation of
liveness, `expired`), and one of the outcomes is the rest. `CasHolds` is the WHERE clause
`state = read AND revision = read` of every UPDATE; `EvidenceCas` is the additional clause on the
stored challenge. Parking an abandoned claim and then doing the call's own transition are two
UPDATEs of one transaction; the first holds the row lock, so no other call comes between and they
are one step. A refusal rolls all of it back (`Abort`), which stands for the death of the Worker too.
The progress document is abstracted to what the properties tell apart: the audit references, the
challenge evidence, the `abandoned` flag and the mutation key. `recordProgress` and the clear retry
after a lost compare-and-set (`RetryProgress`), transitions do not. `start` and `finish` are
`transitionOperation` as its callers use it: the client that was told `created = true` starts, and a
client that entered `running` finishes. `acked`, `ledger` and `executes` are histories.

Two abstract specifications say what this is for. `AtomicStore` has the same rows and the same
computations (both take them from `OperationRows`) and none of the machinery: no snapshots, no
transactions, no compare-and-set; a call is one step that decides on the stored row, and an expired
claim may be parked at any moment. `ChallengeLifecycle` is the contract of the evidence: a challenge
is raised while its Operation can still wait, cleared while it waits, and its denial cancels and its
consumption resumes the Operation. `HighAssurance` is shown to keep the same contract, so
that what its calls assume of the store is what the store provides. `AtomicStore` is also why the
modules of the callers (`SecretSyncRun`, `HighAssurance`, `BackupExport`) make a store call one step.

### SyncTargetLease

Each of the three lease calls is decided by a single statement on the row. `Claimable` is the WHERE
of the upsert, `NextToken` its CASE, `Releasable` the WHERE of the delete, `MayMutate` the check
that every mutation of a leased Operation passes through. `renewSyncTargetLease` has no production
caller; it is an action because the package exports it. One clock serves the Workers and the
database. The calls also resolve the liveness of the present holder; as the comment of `LeaseClaim`
says, a parking done there never takes effect.

### SecretSyncRun

`pc[r]` is the await at which the run's request stands. Each store call is one step that decides on
the row it commits on, which the theorem `StoreIsAtomic` of `OperationStoreProofs` justifies. Planning, gates and revalidation are one
choice, because they change nothing that another actor reads. Providers are external: a write or a
deploy may be applied or not, and may be reported failed although it was applied. Targets in
`StagedTargets` are the one-deploy provider (Cloudflare Worker secrets), the others write each
secret in place (GitHub). A crash can come between any two awaits.

`ParkAcrossExpiry` needs a word: the lease of a running Operation is selected with
`expires_at > now()`, where `now()` is the start of the transaction, and is then compared with the
Worker's clock. A running Operation with a lease is therefore parked only when its lease expires
between the two.

### ProtectedPromotion

A job is a command that spans several transactions and keeps what it read. Publishing and
superseding read, lock and write, so they are two steps with `LockedSecrets` and `LockedRequests`
between them; every other transaction conflicts with another one in a single statement and is one
step. In the publish transaction all writes and the request's compare-and-set are one step: what
they touch is locked, or conflicts only with a discard, which the database serializes on the version
row. The validation of drafts and the review of their impact are one step too: what they read of a
draft never changes except by its discard. "rejected" stands for "canceled" as well. Secrets of
unprotected environments are written live at once. The fingerprint keeps what changes: the delivery
configuration and which of the target rows exist.

`PublicationHistory` is what callers see of all that: the history of published versions of each
secret, its drafts, and how each request ended. It has no jobs, no locks, no version numbers and no
live guard. A history is read off the rows (`Nth`: the live or retained version of a number).

### HighAssurance

A call is a chain of transactions, and `jobs[c]` is where it stands in the chain: read the
Operation, let the store write, record the audit events one by one, and, for a gate, make the
mutation. A call of the store is one step that decides on the row it commits on, again by
`StoreIsAtomic`; what a call decided before on an earlier read is a step of its own, and the
module's races are there, and the refinement of `ChallengeLifecycle` says that they do not show. Evidence is kept per challenge, as the row last held it: the row names the
challenge it holds, and a request replaces it. An audit event that was written twice is the same
event (its ID is in the evidence). `Cancel` and `Park` are the other calls on the Operation: a
cancellation, and the parking of a resumed Operation whose claim expired, which the next read of it
does. Nobody retries the Operation of a gate. `expired` is the set of challenges whose `expiresAt` has passed;
time is nothing else here. `effects` counts the mutations made on the strength of a challenge.

### DataKeys and InjectionGrants

A key is a number, the order in which it was generated; a ciphertext is the number of the key that
opens it, and a blob the key it wraps and the root version it is wrapped under. `calls[c]` follows
a request through the keyring: the organization row, the mint of a missing key (generated before the
insert, which is decided under the advisory lock), the project row, the resolution of the root
version and the unwrap. `sweeps[s]` is a rewrap: it lists, rewraps row by row what it listed, and
verifies. `InjectionGrants` puts a Blind Secret Write, an issue and a consume on top: `BeginEncrypt`
and `BeginDecrypt` start a call of `DataKeys`, and `jobs[c]` continues when it is ready. Issuing
resolves each secret in one transaction and inserts the grant in a later one; consuming decrypts
every pinned version, then spends the grant with one conditional UPDATE, then hands out the values.
`GrantLifecycle` is what a grant promises, and the refinement maps a grant row to its life there.

### BackupExport and BackupRestore

`runs[r]` is one invocation of the scheduled handler, of the schedule that is its idempotency key, and
its phase is the await at which it stands. `Answered` is a write whose answer may be lost: the run
then takes the failure path although the write took effect. `Fail` is a step that fails without
effect, `Stop` a handler that throws or a Worker that dies. The Operation is reduced to its state and
to whether its deadline has passed; a call of the store is one step, by `StoreIsAtomic`. An object
in storage is written once (`If-None-Match`), the pointer with the etag it was read with. The etag is
the schedule that the pointer names, because a pointer never returns to a value it had.
What an export holds is which instances, claims and organizations it read; rows below an
organization share its snapshot. The source changes while it is read: `Bootstrap`, `Onboard`, `Delete`.
`imports[i]` is one invocation of the restore entrypoint against the one target; `Plan` is the
artifact it verified. The lock, the proof of freshness and the marker in the journal are one
transaction whose lock another import sees, so `Prove` and `Arm` are two steps. A row that the
constraints of the target refuse (`OrganizationFits`, `ClaimsFit`) fails the copy. A target that failed
is discarded by its operator, never reused, so there is no action for it.

`BackupService` is what is left of all this for whoever relies on it: the content of each export, which
exports are complete, where the pointer is, which exports a run reported as published, and the copy a
target was declared to hold (nothing, until its journal says succeeded).

### LocalMigration

A machine has the config (`host`, `manifest`) and the store (`adopted`, `shapes`, `local`). A `set`
reads the config once, adopts what it names, resolves the shape (and, for a new key, writes the
config back whole, from what it read, and then adds the Secret Shape) and writes the value. A `migrate` reads the config, adopts,
takes a snapshot, lists the remote keys, classifies every key, writes and verifies, deletes the
project and flips the config. The audit event and the delete are one step, because the audit needs
the rows that the delete removes. The creation of the remote project and environment is idempotent
and left out. The initial manifest is arbitrary, which is a checkout whose keys another machine set:
the exchange of configs through git is nothing but that, and a machine whose config changes under a
running command is not modelled. Partial adoption is in the model as rows without values. A `set`
that is overtaken by the delete ("lost") fails or leaves a row nobody can read, and is not followed
further. `owed` is what a user may not lose: a value set while a migrate of the machine holds its
snapshot is not owed, because nothing in the code lets that migrate see it (section 4), and neither
is one the user skipped. `seen` are the values that have been current on the Hosted Instance.

## 3. What is checked

| Run | Instance | States | Shows |
| --- | --- | --- | --- |
| `OperationStoreEvidence` | 1 Operation, 2 clients, 2 challenges, 2 mutation keys, TTL 1, 2 attempts, revision <= 4, clock <= 1, symmetric | 556k | `SnapshotIsCurrent`, `AcknowledgedAuditsKept`, `EvidenceExactOnce`, `ClaimIffRunning`, `TerminalIsFinal`, `LiveClaimEndsByItsCall`, `KeyedMutationAppliesOnce`, refinement of `AtomicStore` and of `ChallengeLifecycle` |
| `OperationStoreLiveness` | 1 Operation, 1 executor, 1 poller, 1 create key, 1 mutation key, revision <= 6, clock <= 3 | 225k | `ExpiredClaimIsParked` |
| `SecretSyncRun` | 2 runs, targets t1 (in place) and t2 (staged), 2 bindings, TTL 2, clock <= 4, symmetric | 1.56M | `TokenNamesOneHolder`, `UnexpiredLeaseIsKept`, `AtMostOneLostWrite`, `OutcomeMatchesEffects`, `NoPartialDeploy`, `ResultIsTrue` |
| `SecretSyncRunLiveness` | 2 runs on one target, 1 binding | 74k | `TargetIsFreed` |
| `ProtectedPromotion` | 2 protected secrets, 1 unprotected, 4 versions, 4 requests, 2 clients, 1 change of delivery, symmetric | 365k | `CurrentIsLive`, `PublishedInOrder`, `PublishedIffApproved`, `OnePendingPromotion`, `DecidedIsFinal`, `CallsAreAtomic` |
| `HighAssurance` | 1 Operation, 2 challenges, 2 users, 2 kinds of mutation, 2 clients, symmetric | 144k | `MutationIsAuthorized`, `AuditTrailIsOrdered`, `DenialIsFinal`, refinement of `ChallengeLifecycle` |
| `RuntimeDelivery` | 1 project, 2 secrets, 1 grant, 2 clients, 1 sweep, 2 root versions, 3 keys, 2 versions, 2 writes, symmetric | 695k | `CiphertextsAreReadable`, `DeliveredAsPinned`, `KeyIdentityIsStable`, `SpentWithValuesInHand`, refinement of `GrantLifecycle` |
| `BackupRestore` | 3 runs, 2 schedules, 2 attempts at the pointer, 2 instances, 4 organizations, 2 imports, symmetric, reduced | 1.1M | `LatestIsComplete`, `LatestIsNewest`, `RestoreIsWhole`, `GenuineArtifactsImport`, refinement of `BackupService` |
| `LocalMigration` | 1 machine, 2 processes, 1 environment, 1 key, 2 values, 3 writes, 1 crash | 230k | `NothingIsLost`, `RemoteIsNeverOverwritten`, `MigrationConverges` |

Every bound is a guard or a constant with a name: `MaxRevision` and `MaxClock` (no mutation begins
beyond them), `MaxToken`, `MaxTime` (`WithinBounds`), `MaxDelivery`, `MaxRoot`, `MaxKeys`,
`MaxVersions`, `MaxWrites`, `MaxValue`, `MaxCrashes`; `MaxAttempts` is the code's own bound, made
smaller; IDs are finite sets. The type invariants are in no run, because they are proved. `CallsAreAtomic` is the
step part of the refinement of `PublicationHistory`, because its run starts in a later state; the
theorem covers the initial state too.

Why they are enough. In `OperationStoreEvidence` a lost update needs two open calls, and the fourth
revision lets an Operation be created, challenged, cleared or denied and consumed, or challenged
twice, while another call holds a snapshot of any earlier revision; TTL 1 lets the claim expire, and
be parked and made anew by a retry. Two keys are the least with which two calls that both read a row
without a key could both store theirs. In
`OperationStoreLiveness` six revisions allow start, park, retry, park, retry. Sync: a target is
claimed, expires and is taken over within four ticks, with a release in between; the run has no
renewal, because no code renews, and the lease theorems cover that call. Two runs and two bindings are the least that gives a takeover in the middle of a write loop
and a partial write set. `ProtectedPromotion` starts in `AfterTwoPromotions`, a state reachable from
`Init` in which a rollback has a source; the two fresh versions and requests are then enough for
two racing decisions, a supersede race, a discard race and a rollback. `HighAssurance`: two
challenges of one Operation give the replacement of one that was cleared, denied or is being
audited; a second user and kind give the wrong ones. `RuntimeDelivery`: two requests race for the
mint of the organization and of the project key (three keys: one is lost), a sweep to the second
root version runs across them, and two secrets make a grant whose values are decrypted one by one.
`BackupRestore`: three runs are an export of each schedule and a replay of one, and two attempts
let a publisher lose a swap and win or give up; one organization is deleted during a read, one
instance is bootstrapped with its own, and two are always there. Its action constraint `Reduced`
leaves out orders that commute: `FixedReadFirst` reads the two permanent organizations first, which
no other step can tell. `ImportsLast` starts the imports when the runs have ended: an import reads only
objects, which are never overwritten, and writes a database of its own. It imports from one of the
states with the same objects, the one in which the runs died after their last write. The theorems
assume neither.
`LocalMigration`: two processes of one machine give every pair of commands; other machines and users
are what changes the remote value (`RemoteWrite`), and what fills the initial manifest; three writes
are one value replaced locally and one remotely. The theorems of section 5 cover any number of each.
Symmetry is used in runs without liveness only. Deadlock checking is off in the cfgs because every
instance stops at its bounds.

### Fairness

- `OperationStore!FairSpec`: time passes; a poller's answer arrives; and it polls again and again
  (strong, because a poll may begin only between polls). This is what `insecur operations wait`
  does. Executors are owed nothing: they may die at any point.
- `SecretSyncRun!FairSpec`: time passes, and a request continues until it returns, which is what a
  Worker does with a pending promise. Dying is the separate action `Crash`, so a run that stops for
  good is a behaviour of the model.
- `LocalMigration!FairSpec`: a command that has begun goes on or dies (`Crash`, bounded), and the user
  of a machine runs migrate again and again, skipping the keys it is asked about (strong, because a
  command begins only in an idle process). `MigrationConverges` assumes nothing else, except that
  the keys end up with values: a key without one anywhere is an error the user has to resolve.

## 4. Where the code and its documents disagree

Three runs expect a violation; their findings are in `PROJECT.json`.

1. `ProtectedPromotionDiscard`: a discard leaves a gap in the version numbers that the live guard
   never passes: no later draft of the secret can be published (`DiscardsEndPublishing` proves this
   for every instance).
2. `ProtectedPromotionRollback`: the fingerprint of a rollback request is computed before the copied
   version exists, so the request is stale from the start and can never be approved
   (`RollbacksAreNeverApplied`; a promotion, by `OnlyDeliveryMakesStale`, goes stale by a change of
   the delivery only).
3. `LocalMigrationEnvironments`: migrate moves and verifies the default environment, and the delete
   of the local project cascades through all of them. ADR-0080 (line 54) removes local copies "only
   after every value is proven present remotely".

Others, met while modelling and without a run:

- A backup run whose first transition fails leaves its Operation `pending`, because the table has no
  arm from `pending` to `failed` (`MarkFailed` cannot fire); ADR-0072 says that a failed run ends
  `failed`. A replay of the same event then neither runs nor publishes.
- An export past its deadline, or one whose answer to the last transition is lost, records a failure
  audit beside its success audit, and the artifact and evidence stay; only the pointer tells.
- The instance rows of a backup are read before its organizations. A claim that was pending when it was
  read can be restored beside an owner membership that was granted since. (A claim whose organization
  was not captured is dropped, which is what `GenuineArtifactsImport` needs.)
- A publisher that loses the pointer four times gives up, although nothing is wrong; its export
  stays complete and unpublished until a replay.
- ADR-0073 (lines 55-56) lets a slow executor's compare-and-set fail closed after its claim was
  parked. It does while the Operation stays parked; once somebody has resumed it, the slow
  executor's finish reads the new row and ends the new claim (`transition-operation.ts:22`).
- An Operation accepts one mutation key in its life, and a call under it is a repeat only while the state
  it asks for stands: when another call has moved the Operation on, a delayed repeat is applied again
  (`apply-operation-transition.ts:95`; a test of that file intends it). `KeyedMutationAppliesOnce` says
  what remains.
- The predicate by which a keyed consume recognizes its repeat asks for a row that waits for a human
  and holds consumed evidence (`transition-operation-consume-evidence.ts:38-42`). A consume resumes the
  Operation, so no such row exists: a repeat is refused and not answered with the first result.
- The fencing token is not monotonic (`docs/architecture.md:320`): release deletes the row and the
  next claim starts at 1. Within the life of a row it is sound (`TokenNamesOneHolder`).
- A running sync Operation whose lease expired is not parked by later reads, because the query
  hides expired leases (`resolve-operation-liveness.ts:28`, `docs/operation-store.md:138-145`). It
  stays `running` until it is canceled.
- Every refused start is reported as a cancellation (`execute-secret-sync-run.ts:95`).
- `docs/operation-store.md` says that a stale lease holder cannot write. The check and the write are
  two awaits (`secret-sync-write-loop.ts:126`), so one write can slip through, and never a second
  one. The same holds after a cancellation (both are `AtMostOneLostWrite`).
- The impact review is compared in one transaction and the publish runs in the next; a delivery
  change in between is published unreviewed (`approve-approval-request.ts:124`).
- A draft discarded between the validation of a promotion and the insert of its request leaves a
  pending request that can be declined or superseded but never applied.
- Two batches that publish the same secrets in different target orders can deadlock; the database
  aborts one of them, and the retry is the user's.
- A resume whose consume committed and whose audit failed is answered with a new handoff
  (`protected-environment-mutation-handoff.ts:46-55`): the user is asked to clear an Operation whose
  evidence is spent. The gates present no idempotency key, so a Worker that dies after the consume
  leaves spent evidence without its mutation. Both are safe, and both need a new challenge.
  No gate repeats a request today; `RetryRequest` models what the function is written for.
- The secrets of a grant are resolved in earlier transactions than its insert: a revocation for a
  compromised version that commits in between misses the grant (`issue-injection-grant.ts:185`), and
  a policy published meanwhile gives it bindings of two versions
  (`resolve-policy-grant-bindings.ts:89`).
- The root version of a new project key is read in one transaction and the key is stored in a later
  one (`persisting-metadata-tenant-data-key-source.ts:171`). A rotation in between leaves a key
  under the old root that the sweep did not list, although the sweep ends verified; ADR-0028 (lines
  27 and 80) retires the old root after it.
- A value that another process sets during a migrate, after the snapshot or after its key was
  verified, is deleted with the project (`projects-migrate.ts:155`).
- A `secrets set` of a new key writes the config as it read it: it can undo the flip of a migrate, or
  the manifest entry of another set (`local-secrets-write-helpers.ts:56`).

## 5. What is proved

`OperationStoreProofs` (for all constants that satisfy `StoreAssumption`):
`TypeCorrect`, `SnapshotsCurrent`, `RunningHasClaim`, `AuditsKept`, `TerminalRowsAreFinal`,
`LiveClaimsEndByTheirCalls`, `KeyedMutationsApplyOnce`, `StoreImplementsLifecycle`, `EvidenceIsExactOnce`, `StoreIsAtomic`,
`StoreImplementsChallenges`.

The inductive invariant is `RowInv`: `TypeOK`, `SnapshotIsCurrent`, and `VerdictStands`, which says
that a call that found its claim expired holds a snapshot whose deadline has passed. `ClaimIffRunning`
and `AcknowledgedAuditsKept` have inductive steps of their own on top of it.
`SnapshotIsCurrent` carries the argument: a step that writes a row increments its revision, so an
older snapshot never has the stored revision again, and a compare-and-set that holds decided on the
stored row. Everything a transaction computed from its snapshot is then a fact about the row it
overwrites: the audits it merged are all there, and the transition it checked starts where the row
is. It is also why a live claim ends by its call (`LiveClaimsEndByTheirCalls`): the call that ends it
read it, and by `VerdictStands` did not find it expired, so that a verdict about an earlier claim of the
Operation never reaches a later one. And it is why a call under the key of a row finds that key in its
snapshot, and is then a replay (`KeyedMutationsApplyOnce`). The action properties follow from the invariant and one lemma per kind of write; the refinement
maps every step to `Create`, `Move` or a stutter.

`EvidenceIsExactOnce` needs two more parts. `CallsHold` says that only keyed mutations have a key,
that a call about a challenge names one that was issued, that a denial cancels, and that the challenge of a request at work is its own and
unheard of until it commits. `RowsHold` ties the ledger of what was reported to the flags of the one row that holds a challenge: a
challenge in no row was reported nothing, a denial has canceled its row, and no call commits on a row
that is terminal. A call that reports a clear, a denial or a consume sets, in the same
compare-and-set, the flag that makes every later snapshot refuse the next one.

`StoreIsAtomic` is the linearizability of the store. The point of a call is the commit of its
compare-and-set: by `SnapshotIsCurrent` what it decided on is the row stored there, and by
`VerdictStands` a parking it did on the way was due. `CallsHold` gives the arguments of its call the
form an atomic call has; reads, refusals, retries and replays are stutters or parkings.
`StoreImplementsChallenges` adds that no other call changes an outcome: the challenge of an
Operation is replaced by a request only while that is still unheard of, and a parking takes an
Operation along an arm of the table with its evidence as it was.

`SecretSyncRunProofs` proves first, of `SyncTargetLease` alone (under `LeaseAssumption`):
`LeaseTypeCorrect`, `TokensNameOneHolder`, `UnexpiredLeasesAreKept`. `LeaseInv` adds to the types
`EraEndsWithRow` (the grants of an era are forgotten with the row) and `TokenNamesOneHolder`, which is
stated so that it is inductive: every grant since the row was inserted carries a token at most the
row's, equal tokens mean equal Operations, and the row's own token belongs to its holder.

Of the composition it proves (also under `SyncAssumption` and `AbsentContext`):
`SyncTypeCorrect`, `LostWritesAreBounded`, `OutcomesMatchEffects`, `DeploysAreComplete`,
`ResultsAreTrue`: all the safety properties of its run; and `RunsImplementLifecycle`.
`SyncInv` adds `RunsHold` to the types, which says for every run what its phase means: which state its
Operation can be in (`StateFits`), how many bindings it has written and which it has staged
(`WritesHold`), that it holds the lease only while it is at work and with a token that was granted to
it (`LeaseHolds`), and that after a lost write it goes no further than the next check (`LostHolds`). `RunsUseTheLeases` makes
every step of a run a step of `SyncTargetLease`, so that the theorems about leases hold of the
composition: `RunsKeepUnexpiredLeases` is the one that follows.

`ProtectedPromotionProofs` (under `PromotionAssumption` and `RowAssumption`): `PromotionTypeCorrect`,
`OnlyOnePending`, `DecisionsAreFinal`, `PointersAreLive`, `VersionsInOrder`,
`OnlyApprovedIsPublished`, `PromotionsAreAtomic`, which are all the safety properties of its run, and
three theorems about its disagreements. `TypeInv` adds to the
types that the rows a job and a secret refer to exist (`JobsHold`, `CurrentExists`); `NextNumberIsNext`
shows that a version number is a positive number above all others of its secret, which needs that a
finite set of numbers has a greatest one (`MaximumExists`). `RequestInv` adds that the rows a
supersede selected stay pending while it holds their locks, that two supersedes hold different rows,
and that two pending promotions are the same one: the second of two inserts finds a pending row it
did not lock, and the partial unique index refuses it. `TargetsInv` says that requests name existing
versions, that a rollback owns the ID of its copy, and that an approval works on the targets of its
request. `PublishInv` is the argument for the discard race: an open publish has one version per
secret, shares no secret with another one, and its versions are drafts for as long as its request is
pending. A discard that takes one of them away closes the request in the same transaction, and then
the publish cannot commit. With the live guard, `CurrentIsLive` and `PublishedInOrder` are then
inductive.

`PromotionsAreAtomic` shows that the specification implements `PublicationHistory`. Its invariant
`HistoryInv` adds that two published versions of a secret never have one number (`UniqueNumbers`) and
that the live one has the last of them (`CurrentIsLast`), so that the numbers 1 to `liveNumber` are a
history (`HistoryEntry`). A publish and a live write append to it (`HistoryGrows`), every other step
leaves each entry where it is (`HistoryStays`), and the locks make the requests a supersede closes
the ones that are pending when it commits.

Three more theorems say how far two of the disagreements of section 4 reach; TLC checked their
formulas on the instance of `ProtectedPromotion` before. `DiscardsEndPublishing` follows from
`HistoryInv`: the number of a discarded version is never the number of a published one.
`OnlyDeliveryMakesStale` and `RollbacksAreNeverApplied` rest on `ReviewInv`: a promotion reviewed
exactly its targets and a rollback none of them, and only a promotion gets as far as a publish.

`HighAssuranceProofs` (under `ChallengeAssumption` and `AbsentAssumption`): `HATypeCorrect`,
`MutationsAreAuthorized`, `AuditTrailsAreOrdered`, `DenialsAreFinal`, `GatesKeepContract`, all the
properties of its run.
`HAInv` adds `RecordsHold` (the evidence in a row was raised for it, evidence is that of the user and
the mutation its Operation was created for, it is consumed only after a clear, and denied evidence
is never cleared and stays in a canceled row), `JobsHold` (what a call in the middle of its work knows
about its Operation, its challenge and the audit events it still owes, which the writes of other
calls leave true), and `SingleUse`: one call at most is on its way to the mutation of a challenge, and
only while none was made; the challenge of a mutation that was made is consumed. `GatesKeepContract`
needs nothing more: what a call read before its store call is confirmed by the clause of the UPDATE
or left true by `JobsHold`.

`DataKeysProofs` (under `DataKeyAssumption` and `AbsentRow`): `KeysTypeCorrect`,
`KeyIdentitiesAreStable`. `KeyInv` adds to the types that a call whose keyring has unwrapped a key
holds the key of its Project (`CallsKnow`), and that a row a sweep listed holds the key that is stored
today, whatever root version it is wrapped under by now (`SweepsKnow`): this is what makes an
unguarded rewrap over an earlier read harmless.

`InjectionGrantsProofs` (also under `InjectionAssumption` and `AbsentGrant`): `InjectionTypeCorrect`,
`CiphertextsStayReadable`, `DeliveriesArePinned`, `SpentWithValues`, `KeysStayTheSame`,
`GrantsImplementLifecycle`, all the properties of its run. `InjectionInv` joins `KeyInv` with
`SecretsHold` (every version is sealed with the stored key of its project), `JobsHold` (a consume has
decrypted exactly the pins of its grant that are not on its list), `WritersHold` (a write asks the
keyring for the key of its secret's Project), and `DeliveredOnce`: one request at most is about to
deliver a grant, and only while nothing of it was delivered.

`BackupRestoreProofs` (under `BackupAssumption`, `AbsentBackup` and `AbsentRestore`):
`BackupTypeCorrect`, `LatestExportIsComplete`, `LatestExportIsNewest`, `RestoresAreWhole`,
`ArtifactsCanBeRestored`, `BackupsKeepService`, all the properties of its run, and
`BackupOperationsKeepLifecycle`, all without the reduction of the run.
`ExportInv` adds to the types `SourceHolds` (the canary stays, and an organization is never without its
instance), `StoreHolds` (a stored artifact is genuine, that is, it could be read from such a source; evidence
describes it; an Operation succeeds only after both and its audit) and, for every run, `RunHolds`:
what it has listed and read is genuine so far, and what its phase says it wrote is stored. The step of
one run leaves the others' facts true because the stores only grow (`Grows`); this is where a write
whose answer was lost, and a replay that publishes what another run wrote, are covered. `Inv` adds
`OneImport` (at most one import is past the arming transaction), `TargetHolds` and `ImportHolds(i)`:
how much of its artifact the target holds at each phase, and that a journal is succeeded only with all
of it. `BackupsKeepService` takes each step to one of the service or to a stutter: the swap of the
pointer finds the pointer it read, which was not newer; a step that finds a newer one reports a
publication that is already overtaken; and an import whose journal is not running copies nothing, so
a declared copy is never touched again. `BackupOperationsKeepLifecycle` is the third refinement of
`OperationLifecycle`, beside the store and the sync runs: it needs that a run stays with an Operation
that exists (`OperationsExist`), and that only running claims are past their deadline.

`LocalMigrationProofs` (under `MigrationAssumption`): `MigrateTypeCorrect`, `MigrationLosesNothing`,
`RemoteValuesStand`. `MigrationInv` adds to types and `NothingIsLost` that a remote value has been seen
(`RemoteIsSeen`), that a value has its Secret Shape and a set writes under one (`ShapesHold`), and
`JobsCover`, which is the argument: for every migrate that holds a snapshot, a key
whose owed value was never remote was in the snapshot, and is still to be classified, created or
verified, or its user skips it. What is remote is never replaced by a command, because the write is
decided by the server's guard and not by what the migrate listed.

Assumptions are the named ASSUMEs of the modules, which TLC evaluates on every run: `None` is
outside the ID sets and the row types, versions are finitely many, durations and root versions are
positive, the default environment exists, bounds are natural numbers.

Only model-checked: liveness (`ExpiredClaimIsParked`, `TargetIsFreed`, `MigrationConverges`).
Liveness under fairness and ENABLED are outside the prover's reach, and so is induction over data.

## 6. Not modelled

Authorization, audits as records (outside `HighAssurance`), validation of inputs, plaintext, the
wording of results and the retention window of rollback sources are left out: they refuse a command
or write rows that no modelled decision reads. `clearExecutionDeadline` is
called when a lease is claimed (`claim-sync-target-lease.ts:42`), and Operations with a lease are not
in `OperationStore`: in `SecretSyncRun` a claim by deadline is not looked at while there is a lease.
`clearSyncTargetLeaseBinding` outside a release has no production caller. Clock skew between
Workers and database is left out; the model has one clock.

- `createProtectedChange` and `transitionProtectedChange` have no caller outside their package: the
  approvals that the API offers are the Approval Requests of `ProtectedPromotion`.
- Instance bootstrap is a conditional UPDATE in one transaction; onboarding, delivery policy, access
  and the other CRUD packages are single-row transactions that share nothing but their row.
- The evaluation of backup readiness and the gates are pure functions of evidence. Of the backup,
  encryption, checksums and the canonical form are one choice (evidence describes the artifact or not),
  and the Preview proof request that may ask for an export is left out; a second cron event after a
  failed attempt can mark such a request `completed` without an export.
- Two outcomes of Local Mode: a secrets row that an overtaken set left behind refuses a later set of
  the same key by its unique index (`schema.ts:56`), and a migrate into a Protected remote environment
  is refused (`projects-migrate-remote.ts:93`). Both end a command with an error and change no value.
- The machine root key of Local Mode (a lock file, a probe and a keychain entry), local grants and the
  local audit log are left out of `LocalMigration`.
- Rows of data keys without a wrapped blob, and second versions of a data key, are created by no code.

The components with status `not_modelled` are listed in `PROJECT.json`.

## 7. Plan

Done: the modules above, their runs, and the theorems of section 5.

Next, in this order:

1. The custody of the machine root key in Local Mode: lock, probe, keychain, and a crash in between.
2. The Preview proof request of the backup, onboarding (accept against revoke).
