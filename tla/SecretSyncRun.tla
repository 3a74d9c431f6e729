----------------------------- MODULE SecretSyncRun -----------------------------
(***************************************************************************)
(* Inline Sync Execution (packages/secret-sync): one Worker request per    *)
(* Operation creates it, claims the lease of its Sync Target, starts it,   *)
(* revalidates, writes every binding to the provider behind a fencing      *)
(* check, finishes the Operation and releases the lease.                   *)
(*                                                                         *)
(* The requests share the Operation rows, the leases of SyncTargetLease    *)
(* and the provider; between any two of their awaits other requests run,   *)
(* the clock moves, an operator cancels, or the Worker dies.  Each call    *)
(* into the Operation Store is one step, taken with the row it commits on: *)
(* OperationStoreProofs shows that a compare-and-set that holds decided on *)
(* the stored row.  A retried start of an existing Operation returns it    *)
(* without effects, so every Operation is executed by one request.         *)
(***************************************************************************)
EXTENDS SyncTargetLease, OperationStates

CONSTANTS
  NumBindings,    \* bindings of a run
  StagedTargets   \* targets of one-deploy providers (Cloudflare Worker secrets)

ASSUME SyncAssumption ==
  /\ NumBindings \in Nat \ {0}
  /\ StagedTargets \subseteq Targets

VARIABLES
  state,     \* per Operation, its row's state, "absent" before it is created
  pc,        \* per run, what its request does next
  lease,     \* per run, its sync target and the fencing token it was granted, 0 before
  next,      \* per run, how many bindings it has sent to the provider
  failed,    \* per run, whether a provider call was reported failed
  staged,    \* per run, the bindings in its staged provider version
  live,      \* per target and binding, the run whose value is deployed
  outcome,   \* per run, the Operation state its result names, None before
  stale,     \* history: per run, provider writes sent without owning the lease
  late       \* history: per run, provider writes sent after the cancellation

runVars  == <<state, pc, lease, next, failed, staged, live, outcome, stale, late>>
syncVars == <<leaseVars, runVars>>

Binding == 1..NumBindings

\* "ended": the result was returned.  "stale": the write loop lost its lease and
\* returned.  "dead": an uncaught error, or the Worker died.
Stops == {"ended", "stale", "dead"}

Pc == {"idle", "created", "refused", "leased", "notStarted", "running", "blocking", "writing",
       "asserted", "wrote", "deploying", "verifying", "releasing"} \cup Stops

Active(r) == pc[r] \notin {"idle"} \cup Stops

TargetOf(r) == lease[r].target

OwnsLease(r) == Owns(r, lease[r])

\* transitionOperation by a run that presents context c.
TransitionAllowed(r, c, to) ==
  /\ MayMutate(r, c)
  /\ state[r] \notin Terminal
  /\ IsTransitionAllowed(state[r], to)

Goto(r, label) == pc' = [pc EXCEPT ![r] = label]

Result(r, s) == outcome' = [outcome EXCEPT ![r] = s]

-----------------------------------------------------------------------------
Init ==
  /\ LeaseInit
  /\ state    = [r \in Operations |-> "absent"]
  /\ pc       = [r \in Operations |-> "idle"]
  /\ lease    \in [Operations -> [token : {0}, target : Targets]]
  /\ next     = [r \in Operations |-> 0]
  /\ failed   = [r \in Operations |-> FALSE]
  /\ staged   = [r \in Operations |-> {}]
  /\ live     = [t \in Targets |-> [b \in Binding |-> None]]
  /\ outcome = [r \in Operations |-> None]
  /\ stale    = [r \in Operations |-> 0]
  /\ late     = [r \in Operations |-> 0]

-----------------------------------------------------------------------------
(* Before the lease.                                                       *)

\* createRunOperation, told created = true.
CreateRun(r) ==
  /\ pc[r] = "idle"
  /\ state' = [state EXCEPT ![r] = "pending"]
  /\ Goto(r, "created")
  /\ UNCHANGED <<leaseVars, lease, next, failed, staged, live, outcome, stale, late>>

\* parkBlocked without a lease: an ineligible connection, a closed storage gate,
\* no plan, a plan other than the one expected, or a refused claim.
ParkUnleased(r) ==
  /\ pc[r] \in {"created", "refused"}
  /\ IF TransitionAllowed(r, None, "blocked")
       THEN /\ state' = [state EXCEPT ![r] = "blocked"]
            /\ Result(r, "blocked")
            /\ Goto(r, "ended")
       ELSE Goto(r, "dead") /\ UNCHANGED <<state, outcome>>
  /\ UNCHANGED <<leaseVars, lease, next, failed, staged, live, stale, late>>

\* claimRunLease.  persistOperationSyncTargetLease refuses a terminal Operation,
\* and the transaction rolls the claim back.
ClaimAllowed(r) == Claimable(TargetOf(r), r) /\ state[r] \notin Terminal

ClaimLease(r) ==
  /\ pc[r] = "created"
  /\ ClaimAllowed(r)
  /\ WithinBounds(TargetOf(r))
  /\ LeaseClaim(r, TargetOf(r))
  /\ lease' = [lease EXCEPT ![r].token = NextToken(leases[TargetOf(r)], r)]
  /\ Goto(r, "leased")
  /\ UNCHANGED <<state, next, failed, staged, live, outcome, stale, late>>

ClaimRefused(r) ==
  /\ pc[r] = "created"
  /\ ~ClaimAllowed(r)
  /\ Goto(r, "refused")
  /\ UNCHANGED <<leaseVars, state, lease, next, failed, staged, live, outcome, stale, late>>

-----------------------------------------------------------------------------
(* Under the lease, before the first write.                                *)

StartRunning(r) ==
  /\ pc[r] = "leased"
  /\ IF TransitionAllowed(r, lease[r], "running")
       THEN state' = [state EXCEPT ![r] = "running"] /\ Goto(r, "running")
       ELSE Goto(r, "notStarted") /\ UNCHANGED state
  /\ UNCHANGED <<leaseVars, lease, next, failed, staged, live, outcome, stale, late>>

\* A start that was refused for any reason releases the lease and reports the
\* Operation canceled.
EndNotStarted(r) ==
  /\ pc[r] = "notStarted"
  /\ IF Releasable(r, lease[r])
       THEN LeaseRelease(r, lease[r]) /\ Result(r, "canceled") /\ Goto(r, "ended")
       ELSE Goto(r, "dead") /\ UNCHANGED <<leaseVars, outcome>>
  /\ UNCHANGED <<state, lease, next, failed, staged, live, stale, late>>

\* revalidateUnderLease and resolveGatedMaterials: no call of theirs changes the
\* Operation, the lease or the provider, and each can deny the run.
Revalidate(r) ==
  /\ pc[r] = "running"
  /\ Goto(r, "writing") \/ Goto(r, "blocking")
  /\ UNCHANGED <<leaseVars, state, lease, next, failed, staged, live, outcome, stale, late>>

\* Mutant of FinishAs: a refused transition is ignored.
FinishRegardless(r, to) ==
  /\ state' = IF TransitionAllowed(r, lease[r], to) THEN [state EXCEPT ![r] = to] ELSE state
  /\ Result(r, to)
  /\ Goto(r, "releasing")

\* A transition that ends the run's execution; the result is returned after the
\* lease is released.  A refused transition is an uncaught error.
FinishAs(r, to) ==
  IF TransitionAllowed(r, lease[r], to)
    THEN state' = [state EXCEPT ![r] = to] /\ Result(r, to) /\ Goto(r, "releasing")
    ELSE Goto(r, "dead") /\ UNCHANGED <<state, outcome>>

\* parkBlocked under the lease.
ParkLeased(r) ==
  /\ pc[r] = "blocking"
  /\ FinishAs(r, "blocked")
  /\ UNCHANGED <<leaseVars, lease, next, failed, staged, live, stale, late>>

-----------------------------------------------------------------------------
(* The write loop.                                                         *)

LoopDone(r) == pc[r] = "writing" /\ next[r] = NumBindings

\* Mutant of AllWritten: failed provider calls are forgotten.
AllSent(r) == LoopDone(r)

AllWritten(r) == LoopDone(r) /\ ~failed[r]

IsStaged(r) == TargetOf(r) \in StagedTargets

\* Mutant of AssertLease: a run that lost its lease waits for it.
AssertLeaseOrWait(r) ==
  /\ pc[r] = "writing"
  /\ next[r] < NumBindings \/ (AllWritten(r) /\ IsStaged(r))
  /\ OwnsLease(r)
  /\ Goto(r, IF next[r] < NumBindings THEN "asserted" ELSE "deploying")
  /\ UNCHANGED <<leaseVars, state, lease, next, failed, staged, live, outcome, stale, late>>

\* assertSyncTargetLease before a binding's write, or before the one deploy.
AssertLease(r) ==
  /\ pc[r] = "writing"
  /\ next[r] < NumBindings \/ (AllWritten(r) /\ IsStaged(r))
  /\ IF OwnsLease(r)
       THEN /\ Goto(r, IF next[r] < NumBindings THEN "asserted" ELSE "deploying")
            /\ UNCHANGED outcome
       ELSE Goto(r, "stale") /\ Result(r, "running")
  /\ UNCHANGED <<leaseVars, state, lease, next, failed, staged, live, stale, late>>

\* What the histories record of a provider call sent now.
Sent(r) ==
  /\ stale' = IF OwnsLease(r) THEN stale ELSE [stale EXCEPT ![r] = @ + 1]
  /\ late'  = IF state[r] = "canceled" THEN [late EXCEPT ![r] = @ + 1] ELSE late

\* External: the provider applies a write or stages it, and a call reported
\* failed may have been applied.
ProviderWrite(r, b, applied) ==
  IF ~applied THEN UNCHANGED <<staged, live>>
  ELSE IF IsStaged(r)
    THEN staged' = [staged EXCEPT ![r] = @ \cup {b}] /\ UNCHANGED live
    ELSE live' = [live EXCEPT ![TargetOf(r)][b] = r] /\ UNCHANGED staged

\* External: one deploy of the staged version replaces what it stages.
ProviderDeploy(r, applied) ==
  live' = IF applied
            THEN [live EXCEPT ![TargetOf(r)] =
                    [b \in Binding |-> IF b \in staged[r] THEN r ELSE @[b]]]
            ELSE live

WriteBinding(r) ==
  /\ pc[r] = "asserted"
  /\ \E applied \in BOOLEAN, ok \in BOOLEAN :
       /\ ok => applied
       /\ ProviderWrite(r, next[r] + 1, applied)
       /\ failed' = [failed EXCEPT ![r] = @ \/ ~ok]
  /\ next' = [next EXCEPT ![r] = @ + 1]
  /\ Sent(r)
  /\ Goto(r, "wrote")
  /\ UNCHANGED <<leaseVars, state, lease, outcome>>

\* commitStagedDeploy.
Deploy(r) ==
  /\ pc[r] = "deploying"
  /\ \E applied \in BOOLEAN, ok \in BOOLEAN :
       /\ ok => applied
       /\ ProviderDeploy(r, applied)
       /\ failed' = [failed EXCEPT ![r] = ~ok]
       /\ Goto(r, IF ok THEN "verifying" ELSE "wrote")
  /\ Sent(r)
  /\ UNCHANGED <<leaseVars, state, lease, next, staged, outcome>>

\* Mutant of RecordProgress: a terminal Operation takes progress too.
RecordProgressAnywhere(r) ==
  /\ pc[r] = "wrote"
  /\ Goto(r, IF MayMutate(r, lease[r]) THEN "writing" ELSE "dead")
  /\ UNCHANGED <<leaseVars, state, lease, next, failed, staged, live, outcome, stale, late>>

\* recordWriteProgress: recordOperationProgress under the lease.
RecordProgress(r) ==
  /\ pc[r] = "wrote"
  /\ Goto(r, IF MayMutate(r, lease[r]) /\ state[r] \notin Terminal
               THEN "writing" ELSE "dead")
  /\ UNCHANGED <<leaseVars, state, lease, next, failed, staged, live, outcome, stale, late>>

-----------------------------------------------------------------------------
(* The end of a run.                                                       *)

\* Mutant of FinalizeIncomplete: a run with failed writes is parked as blocked.
FinalizeBlocked(r) ==
  /\ LoopDone(r)
  /\ failed[r]
  /\ FinishAs(r, "blocked")
  /\ UNCHANGED <<leaseVars, lease, next, failed, staged, live, stale, late>>

FinalizeIncomplete(r) ==
  /\ LoopDone(r)
  /\ failed[r]
  /\ FinishAs(r, "incomplete")
  /\ UNCHANGED <<leaseVars, lease, next, failed, staged, live, stale, late>>

\* The verification lookups decide between success and success with warnings.
FinalizeComplete(r) ==
  /\ pc[r] = "verifying" \/ (AllWritten(r) /\ ~IsStaged(r))
  /\ \E to \in {"succeeded", "completed_with_warnings"} : FinishAs(r, to)
  /\ UNCHANGED <<leaseVars, lease, next, failed, staged, live, stale, late>>

\* releaseSyncTargetLease throws when the row is no longer the run's.
ReleaseLease(r) ==
  /\ pc[r] = "releasing"
  /\ IF Releasable(r, lease[r])
       THEN LeaseRelease(r, lease[r]) /\ Goto(r, "ended")
       ELSE Goto(r, "dead") /\ UNCHANGED leaseVars
  /\ UNCHANGED <<state, lease, next, failed, staged, live, outcome, stale, late>>

-----------------------------------------------------------------------------
(* The rest of the world.                                                  *)

\* The Worker of a run dies between two of its awaits.
Crash(r) ==
  /\ Active(r)
  /\ Goto(r, "dead")
  /\ UNCHANGED <<leaseVars, state, lease, next, failed, staged, live, outcome, stale, late>>

\* cancelOperation asks for no lease.
Cancel(r) ==
  /\ state[r] \in Cancelable
  /\ state' = [state EXCEPT ![r] = "canceled"]
  /\ UNCHANGED <<leaseVars, pc, lease, next, failed, staged, live, outcome, stale, late>>

\* getById, in any transaction that reads the Operation: the lease it selects is
\* unexpired at the transaction's start, so a running Operation is parked only
\* when that lease expires before the check that follows.
ReadAcrossExpiry(r) ==
  /\ state[r] = "running"
  /\ \E t \in HeldTargets(r) : leases[t].expiresAt = now + 1
  /\ now < MaxTime
  /\ now' = now + 1
  /\ state' = [state EXCEPT ![r] = "incomplete"]
  /\ UNCHANGED <<leases, bindings, granted, era>>

ParkAcrossExpiry(r) ==
  /\ ReadAcrossExpiry(r)
  /\ UNCHANGED <<pc, lease, next, failed, staged, live, outcome, stale, late>>

\* The run's own progress update parks it, having checked the lease before.
RecordAcrossExpiry(r) ==
  /\ pc[r] = "wrote"
  /\ MayMutate(r, lease[r])
  /\ ReadAcrossExpiry(r)
  /\ Goto(r, "writing")
  /\ UNCHANGED <<lease, next, failed, staged, live, outcome, stale, late>>

Tick == LeaseTick /\ UNCHANGED runVars

Step(r) ==
  \/ ParkUnleased(r) \/ ClaimLease(r) \/ ClaimRefused(r) \/ StartRunning(r) \/ EndNotStarted(r)
  \/ Revalidate(r) \/ ParkLeased(r) \/ AssertLease(r) \/ WriteBinding(r) \/ Deploy(r)
  \/ RecordProgress(r) \/ FinalizeIncomplete(r) \/ FinalizeComplete(r) \/ ReleaseLease(r)

Next ==
  \/ Tick
  \/ \E r \in Operations :
       \/ CreateRun(r) \/ Step(r)
       \/ Crash(r) \/ Cancel(r) \/ ParkAcrossExpiry(r) \/ RecordAcrossExpiry(r)

Spec == Init /\ [][Next]_syncVars

\* A request goes on until it returns or dies, and time passes.
FairSpec ==
  /\ Spec
  /\ WF_syncVars(Tick)
  /\ \A r \in Operations : WF_syncVars(Step(r))

-----------------------------------------------------------------------------
(* What a run promises.                                                    *)

\* Every variable has the shape the code gives it.
SyncTypeOK ==
  /\ LeaseTypeOK
  /\ state \in [Operations -> States \cup {"absent"}]
  /\ pc \in [Operations -> Pc]
  /\ lease \in [Operations -> [token : Nat, target : Targets]]
  /\ next \in [Operations -> 0..NumBindings]
  /\ failed \in [Operations -> BOOLEAN]
  /\ staged \in [Operations -> SUBSET Binding]
  /\ live \in [Targets -> [Binding -> Operations \cup {None}]]
  /\ outcome \in [Operations -> States \cup {None}]
  /\ stale \in [Operations -> Nat]
  /\ late \in [Operations -> Nat]

\* "A stale lease holder cannot write after losing ... the fencing token" and "live
\* effects do not continue after cancellation" (docs/operation-store.md) hold up to
\* the one provider call in flight, whose fencing check had already passed: the
\* progress update after it, and every later check, stop the run.
AtMostOneLostWrite == \A r \in Operations : stale[r] <= 1 /\ late[r] <= 1

\* The state of an Operation says what its run did to the provider: "blocked" that
\* nothing was written, since every gate that blocks a run comes before its first
\* call; a success that the provider accepted every binding and, for a one-deploy
\* provider, the deploy of all of them.
OutcomeMatchesEffects ==
  \A r \in Operations :
    /\ state[r] = "blocked" =>
         /\ next[r] = 0
         /\ \A b \in Binding : live[TargetOf(r)][b] # r
    /\ state[r] \in {"succeeded", "completed_with_warnings"} =>
         /\ next[r] = NumBindings
         /\ ~failed[r]
         /\ IsStaged(r) => staged[r] = Binding

\* A one-deploy target is never left with some of a run's bindings: only complete
\* versions are deployed, by crashed, canceled and stale runs too.
NoPartialDeploy ==
  \A t \in StagedTargets : \A a, b \in Binding : live[t][a] = live[t][b]

\* A run that returned its result holds no lease any more, and the result names the
\* state the Operation was left in, unless it was canceled since.  (A refused start
\* is reported as canceled, whatever refused it.)
ResultIsTrue ==
  \A r \in Operations : pc[r] = "ended" =>
    /\ leases[TargetOf(r)].holder # r
    /\ outcome[r] # "canceled" => state[r] \in {outcome[r], "canceled"}

\* The store's Operations move along the transition table, however the runs
\* interleave with cancellations, expiries and crashes.
Lifecycle == INSTANCE OperationLifecycle

ImplementsLifecycle == Lifecycle!Spec

\* Every request that created an Operation comes to an end, also one that loses its lease in
\* the loop, and a lease that a dead or stopped run left behind does not stay: the target
\* becomes free for every other run.
TargetIsFreed ==
  /\ \A r \in Operations : Active(r) ~> ~Active(r)
  /\ \A r, q \in Operations :
       pc[r] \in Stops /\ TargetOf(r) = TargetOf(q) /\ leases[TargetOf(r)].holder = r
         ~> Claimable(TargetOf(r), q)
=============================================================================
