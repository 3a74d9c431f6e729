---------------------------- MODULE SyncTargetLease ----------------------------
(***************************************************************************)
(* Sync Target Serialization leases (packages/operations): one row per     *)
(* target with its holder, a fencing token and an expiry, and the binding  *)
(* the holder keeps in its Operation's progress.                           *)
(*                                                                         *)
(* Claim, renew and release are one transaction each, decided by a single  *)
(* statement on the lease row, so each is one step.  Names start with      *)
(* Lease where SecretSyncRun, which extends this module, has its own.      *)
(***************************************************************************)
EXTENDS Naturals, FiniteSets

CONSTANTS
  Targets,     \* sync targets: Organization, project, provider and identity
  Operations,  \* Operation IDs
  None,        \* no holder, no binding
  LeaseTTL,    \* ttlSeconds of a claim, in ticks
  MaxToken,    \* bound: no claim begins on a row with this fencing token
  MaxTime      \* bound: the clock stops here, and no claim begins that would outlive it

ASSUME LeaseAssumption ==
  /\ LeaseTTL \in Nat \ {0}
  /\ MaxToken \in Nat
  /\ MaxTime \in Nat
  /\ None \notin Operations

VARIABLES
  leases,    \* the sync_target_leases table
  bindings,  \* per Operation, progress.syncTargetLease
  now,       \* the clock of the database and the Workers
  granted,   \* history: every claim that succeeded
  era        \* history: per target, the claims since its row was inserted

leaseVars == <<leases, bindings, now, granted, era>>

NoLease == [holder |-> None, token |-> 0, expiresAt |-> 0]

Lease == [holder : Operations, token : Nat \ {0}, expiresAt : Nat]

\* What a claim returns, what a caller presents as its lease context, and what
\* the Operation's progress stores.
Context == [token : Nat \ {0}, target : Targets]

\* No lease context is not one.
ASSUME AbsentContext == None \notin Context

Unexpired(row) == row.expiresAt > now

-----------------------------------------------------------------------------
(* The statements.                                                         *)

\* Mutants of Claimable: the upsert always overwrites; it never does over another
\* holder's row, expired or not.
ClaimableAlways(t, o) == TRUE

ClaimableOnceOnly(t, o) == leases[t] = NoLease \/ leases[t].holder = o

\* The WHERE of the upsert.
Claimable(t, o) ==
  leases[t] = NoLease \/ ~Unexpired(leases[t]) \/ leases[t].holder = o

\* Mutant of NextToken: a takeover keeps the token.
NextTokenOnTakeover(row, o) == IF row = NoLease THEN 1 ELSE row.token

\* The fencing token the upsert writes: a fresh row starts again at one.
NextToken(row, o) ==
  IF row = NoLease THEN 1
  ELSE IF Unexpired(row) /\ row.holder = o THEN row.token
  ELSE row.token + 1

Claimed(row, o) == [holder |-> o, token |-> NextToken(row, o), expiresAt |-> now + LeaseTTL]

\* assertLeaseOwnership.
Owns(o, c) ==
  LET row == leases[c.target] IN
  row.holder = o /\ row.token = c.token /\ Unexpired(row)

\* The WHERE of the delete, which an expired lease passes too.
Releasable(o, c) == leases[c.target].holder = o /\ leases[c.target].token = c.token

\* The unexpired leases of an Operation.
HeldTargets(o) == {t \in Targets : leases[t].holder = o /\ Unexpired(leases[t])}

\* What enforceSyncTargetLease requires of a mutation: an active lease decides,
\* else the binding in the progress, else nothing.
RequiredContexts(o) ==
  IF HeldTargets(o) # {}
    THEN {[token |-> leases[t].token, target |-> t] : t \in HeldTargets(o)}
    ELSE {bindings[o]} \ {None}

\* enforceSyncTargetLease passes for a caller that presents context c or None.
MayMutate(o, c) ==
  IF RequiredContexts(o) = {}
    THEN c = None \/ Owns(o, c)
    ELSE c \in RequiredContexts(o) /\ Owns(o, c)

-----------------------------------------------------------------------------
(* The calls.                                                              *)

\* Bounds of every claim.
WithinBounds(t) == leases[t].token < MaxToken /\ now + LeaseTTL <= MaxTime

LeaseInit ==
  /\ leases   = [t \in Targets |-> NoLease]
  /\ bindings = [o \in Operations |-> None]
  /\ now      = 0
  /\ granted  = {}
  /\ era      = [t \in Targets |-> {}]

\* claimSyncTargetLease.  It first resolves the liveness of the present holder,
\* but only a lease that expires inside the transaction could be parked there,
\* and to the upsert that lease is unexpired: the claim is refused and rolled
\* back, the parking with it.
LeaseClaim(o, t) ==
  LET c == [token |-> NextToken(leases[t], o), target |-> t]
      g == [operation |-> o, context |-> c]
  IN
  /\ Claimable(t, o)
  /\ leases' = [leases EXCEPT ![t] = Claimed(@, o)]
  /\ bindings' = [bindings EXCEPT ![o] = c]
  /\ granted' = granted \cup {g}
  /\ era' = [era EXCEPT ![t] = @ \cup {g}]
  /\ UNCHANGED now

\* renewSyncTargetLease.
LeaseRenew(o, c) ==
  /\ Owns(o, c)
  /\ leases' = [leases EXCEPT ![c.target].expiresAt = now + LeaseTTL]
  /\ UNCHANGED <<bindings, now, granted, era>>

\* releaseSyncTargetLease deletes the row, expired or not, and the binding.
LeaseRelease(o, c) ==
  /\ Releasable(o, c)
  /\ leases' = [leases EXCEPT ![c.target] = NoLease]
  /\ bindings' = [bindings EXCEPT ![o] = None]
  /\ era' = [era EXCEPT ![c.target] = {}]
  /\ UNCHANGED <<now, granted>>

LeaseTick ==
  /\ now < MaxTime
  /\ now' = now + 1
  /\ UNCHANGED <<leases, bindings, granted, era>>

\* Any Operation may claim; it renews and releases with a context it was given.
LeaseNext ==
  \/ LeaseTick
  \/ \E o \in Operations, t \in Targets : WithinBounds(t) /\ LeaseClaim(o, t)
  \/ \E g \in granted : LeaseRenew(g.operation, g.context) \/ LeaseRelease(g.operation, g.context)

LeaseSpec == LeaseInit /\ [][LeaseNext]_leaseVars

-----------------------------------------------------------------------------
(* What the leases promise.                                                *)

Grant == [operation : Operations, context : Context]

\* Every variable has the shape the code gives it.
LeaseTypeOK ==
  /\ leases \in [Targets -> Lease \cup {NoLease}]
  /\ bindings \in [Operations -> Context \cup {None}]
  /\ now \in Nat
  /\ granted \subseteq Grant
  /\ era \in [Targets -> SUBSET Grant]

\* While a row lives, its fencing token alone tells the holders apart: no two
\* Operations were ever granted the same token, and none a higher one than the
\* row's, so a holder that was superseded can never pass the ownership check.
TokenNamesOneHolder ==
  \A t \in Targets : \A g, h \in era[t] :
    /\ g.context.token <= leases[t].token
    /\ g.context.token = h.context.token => g.operation = h.operation
    /\ g.context.token = leases[t].token => g.operation = leases[t].holder

\* "One writer per target": an unexpired lease leaves its holder only by being
\* released, never by another Operation's claim or by a renewal of an old claim.
UnexpiredLeaseIsKept ==
  [][\A t \in Targets :
       Unexpired(leases[t]) =>
         \/ leases'[t] = NoLease
         \/ /\ leases'[t].holder = leases[t].holder
            /\ leases'[t].token = leases[t].token]_leaseVars
=============================================================================
