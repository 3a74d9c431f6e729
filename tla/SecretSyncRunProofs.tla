-------------------------- MODULE SecretSyncRunProofs --------------------------
(***************************************************************************)
(* Theorems about SecretSyncRun for any number of runs, targets and        *)
(* bindings, and every bound of the leases.                                *)
(***************************************************************************)
EXTENDS SecretSyncRun, TLAPS

-----------------------------------------------------------------------------
(* The leases by themselves: theorems about LeaseSpec, for every set of    *)
(* targets and Operations.                                                 *)

\* A deleted row takes the claims made on it out of the era.
EraEndsWithRow == \A t \in Targets : leases[t] = NoLease => era[t] = {}

LeaseInv == LeaseTypeOK /\ EraEndsWithRow /\ TokenNamesOneHolder

-----------------------------------------------------------------------------
(* The statements.                                                         *)

\* A missing row is not a lease.
LEMMA NoLeaseIsNoLease == NoLease \notin Lease
  BY LeaseAssumption DEF NoLease, Lease

\* What the upsert writes is a lease of the claimant: under its own unexpired
\* lease the token stays, over anybody else's it grows.
LEMMA ClaimedRow ==
  ASSUME now \in Nat, NEW row \in Lease \cup {NoLease}, NEW o \in Operations
  PROVE  /\ NextToken(row, o) \in Nat \ {0}
         /\ Claimed(row, o) \in Lease
         /\ Claimed(row, o).holder = o
         /\ Claimed(row, o).token = NextToken(row, o)
         /\ row # NoLease => \/ NextToken(row, o) = row.token /\ row.holder = o
                             \/ NextToken(row, o) = row.token + 1
<1>1. NextToken(row, o) \in Nat \ {0}
  BY DEF NextToken, Lease
<1>2. now + LeaseTTL \in Nat
  BY LeaseAssumption
<1>3. row # NoLease => \/ NextToken(row, o) = row.token /\ row.holder = o
                       \/ NextToken(row, o) = row.token + 1
  BY DEF NextToken
<1> QED BY <1>1, <1>2, <1>3 DEF Claimed, Lease

\* The lease row a step leaves behind: the same, deleted with its era, extended
\* in time, or claimed by an Operation that the WHERE clause let pass.
LeaseMove(t) ==
  \/ leases'[t] = leases[t] /\ era'[t] = era[t]
  \/ leases'[t] = NoLease /\ era'[t] = {}
  \/ /\ leases[t] # NoLease
     /\ leases'[t] = [leases[t] EXCEPT !.expiresAt = now + LeaseTTL]
     /\ era'[t] = era[t]
  \/ \E o \in Operations :
       /\ Claimable(t, o)
       /\ leases'[t] = Claimed(leases[t], o)
       /\ era'[t] = era[t] \cup {[operation |-> o,
                                  context |-> [token |-> NextToken(leases[t], o), target |-> t]]}

\* Every step leaves each lease row in one of these ways, and every variable in
\* its type.
LEMMA LeaseStep ==
  ASSUME LeaseTypeOK, [LeaseNext]_leaseVars
  PROVE  LeaseTypeOK' /\ \A t \in Targets : LeaseMove(t)
<1>1. CASE LeaseTick
  BY <1>1 DEF LeaseTick, LeaseTypeOK, LeaseMove
<1>2. CASE UNCHANGED leaseVars
  BY <1>2 DEF leaseVars, LeaseTypeOK, LeaseMove
<1>3. ASSUME NEW o \in Operations, NEW u \in Targets, LeaseClaim(o, u)
      PROVE  LeaseTypeOK' /\ \A t \in Targets : LeaseMove(t)
  <2> DEFINE c == [token |-> NextToken(leases[u], o), target |-> u]
             g == [operation |-> o, context |-> c]
  <2>1. /\ leases' = [leases EXCEPT ![u] = Claimed(leases[u], o)]
        /\ bindings' = [bindings EXCEPT ![o] = c]
        /\ granted' = granted \cup {g}
        /\ era' = [era EXCEPT ![u] = era[u] \cup {g}]
        /\ now' = now
        /\ Claimable(u, o)
    BY <1>3 DEF LeaseClaim
  <2>2. NextToken(leases[u], o) \in Nat \ {0} /\ Claimed(leases[u], o) \in Lease
    BY ClaimedRow DEF LeaseTypeOK
  <2>3. c \in Context /\ g \in Grant
    BY <2>2 DEF Context, Grant
  <2>4. LeaseTypeOK'
    BY <2>1, <2>2, <2>3 DEF LeaseTypeOK
  <2>5. \A t \in Targets : LeaseMove(t)
    BY <2>1 DEF LeaseTypeOK, LeaseMove
  <2> QED BY <2>4, <2>5
<1>4. ASSUME NEW g \in granted, LeaseRenew(g.operation, g.context)
      PROVE  LeaseTypeOK' /\ \A t \in Targets : LeaseMove(t)
  <2> DEFINE u == g.context.target
             row == [leases[u] EXCEPT !.expiresAt = now + LeaseTTL]
  <2>1. g \in Grant /\ u \in Targets /\ now + LeaseTTL \in Nat
    BY LeaseAssumption DEF LeaseTypeOK, Grant, Context
  <2>2. leases[u].holder # None
    BY <1>4, <2>1, LeaseAssumption DEF LeaseRenew, Owns, Grant
  <2>3. leases[u] \in Lease
    BY <2>1, <2>2 DEF LeaseTypeOK, NoLease
  <2>4. row \in Lease
    BY <2>1, <2>3 DEF Lease
  <2>5. /\ leases' = [leases EXCEPT ![u] = row]
        /\ UNCHANGED <<bindings, now, granted, era>>
    BY <1>4 DEF LeaseRenew
  <2>6. LeaseTypeOK'
    BY <2>4, <2>5 DEF LeaseTypeOK
  <2>7. \A t \in Targets : LeaseMove(t)
    BY <2>1, <2>3, <2>5, NoLeaseIsNoLease DEF LeaseTypeOK, LeaseMove
  <2> QED BY <2>6, <2>7
<1>5. ASSUME NEW g \in granted, LeaseRelease(g.operation, g.context)
      PROVE  LeaseTypeOK' /\ \A t \in Targets : LeaseMove(t)
  <2>1. g.operation \in Operations /\ g.context.target \in Targets
    BY DEF LeaseTypeOK, Grant, Context
  <2> QED BY <1>5, <2>1 DEF LeaseRelease, LeaseTypeOK, LeaseMove
<1> QED BY <1>1, <1>2, <1>3, <1>4, <1>5 DEF LeaseNext

-----------------------------------------------------------------------------
(* The fencing token.                                                      *)

\* A step keeps the tokens of a target apart.
LEMMA TokenStep ==
  ASSUME LeaseInv, [LeaseNext]_leaseVars
  PROVE  EraEndsWithRow' /\ TokenNamesOneHolder'
<1>t. LeaseTypeOK /\ LeaseTypeOK' /\ \A t \in Targets : LeaseMove(t)
  BY LeaseStep DEF LeaseInv
<1> DEFINE Apart(row, grants) ==
      \A g, h \in grants :
        /\ g.context.token <= row.token
        /\ g.context.token = h.context.token => g.operation = h.operation
        /\ g.context.token = row.token => g.operation = row.holder
<1> SUFFICES ASSUME NEW t \in Targets
             PROVE  /\ leases'[t] = NoLease => era'[t] = {}
                    /\ Apart(leases'[t], era'[t])
  BY DEF EraEndsWithRow, TokenNamesOneHolder
<1>1. /\ leases[t] \in Lease \cup {NoLease} /\ era[t] \subseteq Grant /\ now \in Nat
      /\ leases[t] = NoLease => era[t] = {}
      /\ Apart(leases[t], era[t])
  BY <1>t DEF LeaseInv, LeaseTypeOK, EraEndsWithRow, TokenNamesOneHolder
<1>2. CASE leases'[t] = leases[t] /\ era'[t] = era[t]
  BY <1>1, <1>2
<1>3. CASE leases'[t] = NoLease /\ era'[t] = {}
  BY <1>3
<1>4. CASE /\ leases[t] # NoLease
           /\ leases'[t] = [leases[t] EXCEPT !.expiresAt = now + LeaseTTL]
           /\ era'[t] = era[t]
  <2>1. /\ leases'[t].token = leases[t].token /\ leases'[t].holder = leases[t].holder
    BY <1>1, <1>4 DEF Lease
  <2>2. leases'[t] # NoLease
    <3>1. leases[t].holder # None
      BY <1>1, <1>4, LeaseAssumption DEF Lease
    <3> QED BY <2>1, <3>1 DEF NoLease
  <2> QED BY <1>1, <1>4, <2>1, <2>2
<1>5. ASSUME NEW o \in Operations,
             leases'[t] = Claimed(leases[t], o),
             era'[t] = era[t] \cup {[operation |-> o,
                                     context |-> [token |-> NextToken(leases[t], o),
                                                  target |-> t]]}
      PROVE  leases'[t] # NoLease /\ Apart(leases'[t], era'[t])
  <2> DEFINE n == NextToken(leases[t], o)
             g == [operation |-> o, context |-> [token |-> n, target |-> t]]
  <2>1. /\ n \in Nat /\ leases'[t] \in Lease
        /\ leases'[t].holder = o /\ leases'[t].token = n
        /\ leases[t] # NoLease => \/ n = leases[t].token /\ leases[t].holder = o
                                  \/ n = leases[t].token + 1
    BY <1>1, <1>5, ClaimedRow
  <2>2. leases'[t] # NoLease
    BY <2>1, NoLeaseIsNoLease
  <2>3. g.context.token = n /\ g.operation = o
    OBVIOUS
  <2> HIDE DEF n
  <2>4. ASSUME NEW h \in era[t]
        PROVE  h.context.token <= n /\ (h.context.token = n => h.operation = o)
    <3>1. leases[t] \in Lease /\ h.context.token \in Nat /\ leases[t].token \in Nat
      BY <1>1 DEF Lease, Grant, Context
    <3>2. /\ h.context.token <= leases[t].token
          /\ h.context.token = leases[t].token => h.operation = leases[t].holder
      BY <1>1
    <3> QED BY <2>1, <3>1, <3>2, NoLeaseIsNoLease
  <2> HIDE DEF g
  <2>5. era'[t] = era[t] \cup {g}
    BY <1>5 DEF g, n
  <2>6. ASSUME NEW x \in era'[t], NEW h \in era'[t]
        PROVE  /\ x.context.token <= n
               /\ x.context.token = h.context.token => x.operation = h.operation
               /\ x.context.token = n => x.operation = o
    BY <1>1, <2>1, <2>3, <2>4, <2>5
  <2> QED BY <2>1, <2>2, <2>6
<1> QED BY <1>t, <1>2, <1>3, <1>4, <1>5 DEF LeaseMove

\* The invariant the theorems below rest on.
LEMMA LeaseInvariant == LeaseSpec => []LeaseInv
<1>1. LeaseInit => LeaseInv
  BY LeaseAssumption DEF LeaseInit, LeaseInv, LeaseTypeOK, EraEndsWithRow, TokenNamesOneHolder
<1>2. LeaseInv /\ [LeaseNext]_leaseVars => LeaseInv'
  BY LeaseStep, TokenStep DEF LeaseInv
<1> QED BY <1>1, <1>2, PTL DEF LeaseSpec

\* The leases are well typed.
THEOREM LeaseTypeCorrect == LeaseSpec => []LeaseTypeOK
  BY LeaseInvariant, PTL DEF LeaseInv

\* While a lease row lives, a fencing token was never granted to two Operations,
\* so an Operation whose lease was taken over cannot pass the ownership check.
THEOREM TokensNameOneHolder == LeaseSpec => []TokenNamesOneHolder
  BY LeaseInvariant, PTL DEF LeaseInv

\* An unexpired lease is lost only by its release: one writer per target.
THEOREM UnexpiredLeasesAreKept == LeaseSpec => UnexpiredLeaseIsKept
<1> DEFINE Kept == \A t \in Targets :
      Unexpired(leases[t]) =>
        \/ leases'[t] = NoLease
        \/ /\ leases'[t].holder = leases[t].holder
           /\ leases'[t].token = leases[t].token
<1>1. LeaseInv /\ [LeaseNext]_leaseVars => Kept
  <2> SUFFICES ASSUME LeaseInv, [LeaseNext]_leaseVars, NEW t \in Targets,
                      Unexpired(leases[t]), leases'[t] # NoLease
               PROVE  leases'[t].holder = leases[t].holder /\ leases'[t].token = leases[t].token
    OBVIOUS
  <2>1. LeaseTypeOK /\ LeaseMove(t)
    BY LeaseStep DEF LeaseInv
  <2>2. leases[t] \in Lease
    BY <2>1 DEF LeaseTypeOK, NoLease, Unexpired
  <2>3. ASSUME NEW o \in Operations, Claimable(t, o), leases'[t] = Claimed(leases[t], o)
        PROVE  leases'[t].holder = leases[t].holder /\ leases'[t].token = leases[t].token
    <3>1. leases[t].holder = o
      BY <2>2, <2>3, NoLeaseIsNoLease DEF Claimable
    <3> QED BY <2>2, <2>3, <3>1, NoLeaseIsNoLease DEF Claimed, NextToken
  <2>4. CASE leases'[t] = [leases[t] EXCEPT !.expiresAt = now + LeaseTTL]
    BY <2>2, <2>4 DEF Lease
  <2> QED BY <2>1, <2>3, <2>4 DEF LeaseMove
<1> QED BY <1>1, LeaseInvariant, PTL DEF LeaseSpec, UnexpiredLeaseIsKept

-----------------------------------------------------------------------------
(* The inductive invariant, run by run.                                    *)

\* Before the write loop.
Early == {"idle", "created", "refused", "leased", "notStarted", "running", "blocking"}

\* Between the start and the end of the execution.
Executing == {"running", "blocking", "writing", "asserted", "wrote", "deploying", "verifying",
              "stale"}

\* The run was given a lease and has not released it.
UnderLease == {"leased", "notStarted", "releasing"} \cup (Executing \ {"stale"})

Outcomes == {"blocked", "incomplete", "succeeded", "completed_with_warnings", "canceled"}

Succeeded == {"succeeded", "completed_with_warnings"}

\* The state of an Operation fits the place where its request stands.
StateFits(r) ==
  /\ pc[r] = "idle" <=> state[r] = "absent"
  /\ pc[r] \in {"created", "refused", "leased", "notStarted"} => state[r] \in {"pending", "canceled"}
  /\ pc[r] \in Executing => state[r] \in {"running", "incomplete", "canceled"}
  /\ pc[r] \in {"releasing", "ended"} =>
       /\ outcome[r] \in Outcomes
       /\ outcome[r] # "canceled" => state[r] \in {outcome[r], "canceled"}
  /\ pc[r] = "releasing" => outcome[r] # "canceled"
  /\ pc[r] = "ended" /\ outcome[r] = "canceled" => state[r] \in {"pending", "canceled"}

\* Nothing was sent yet.
Untouched(r) == next[r] = 0 /\ \A t \in Targets, b \in Binding : live[t][b] # r

\* What was sent to the provider.
WritesHold(r) ==
  /\ pc[r] \in Early \/ state[r] = "blocked" => Untouched(r)
  /\ pc[r] = "asserted" => next[r] < NumBindings
  /\ pc[r] \in {"deploying", "verifying"} => next[r] = NumBindings /\ ~failed[r]
  /\ pc[r] = "deploying" => IsStaged(r)
  /\ IsStaged(r) /\ ~failed[r] => staged[r] = 1 .. next[r]
  /\ state[r] \in Succeeded => next[r] = NumBindings /\ ~failed[r]

\* Whose the leases are.
LeaseHolds(r) ==
  /\ pc[r] \in {"idle", "created", "refused", "ended"} => leases[TargetOf(r)].holder # r
  /\ pc[r] \in UnderLease => [operation |-> r, context |-> lease[r]] \in granted

\* After a lost write the run goes no further than the check that follows it.
LostHolds(r) ==
  /\ stale[r] # 0 => stale[r] = 1 /\ pc[r] \in {"wrote", "verifying", "dead"} /\ ~OwnsLease(r)
  /\ late[r] # 0 =>
       late[r] = 1 /\ pc[r] \in {"wrote", "verifying", "dead"} /\ state[r] = "canceled"

RunHolds(r) == StateFits(r) /\ WritesHold(r) /\ LeaseHolds(r) /\ LostHolds(r)

RunsHold == \A r \in Operations : RunHolds(r)

SyncInv == SyncTypeOK /\ RunsHold /\ NoPartialDeploy

-----------------------------------------------------------------------------
(* What a step leaves alone.                                               *)

\* The types of the variables that SecretSyncRun adds.
RunTypes ==
  /\ state \in [Operations -> States \cup {"absent"}]
  /\ pc \in [Operations -> Pc]
  /\ lease \in [Operations -> [token : Nat, target : Targets]]
  /\ next \in [Operations -> 0..NumBindings]
  /\ failed \in [Operations -> BOOLEAN]
  /\ staged \in [Operations -> SUBSET Binding]
  /\ live \in [Targets -> [Binding -> Operations \cup {None}]]
  /\ outcome \in [Operations -> States \cup {None}]
  /\ stale \in [Operations -> Nat]
  /\ late \in [Operations -> Nat]

\* No lease comes to q: one it does not hold or own, it does not hold or own afterwards.
GainsNoLease(q) ==
  /\ leases[TargetOf(q)].holder # q => leases'[TargetOf(q)].holder # q
  /\ ~OwnsLease(q) => ~Owns(q, lease[q])'

\* The lease calls of a run give no other run a lease, and only a claim gives it one.
LEMMA LeasesStand ==
  ASSUME SyncTypeOK, NEW r \in Operations, NEW q \in Operations, lease'[q] = lease[q],
         \/ UNCHANGED leaseVars
         \/ LeaseTick
         \/ LeaseRelease(r, lease[r])
         \/ LeaseClaim(r, TargetOf(r)) /\ q # r
  PROVE  GainsNoLease(q) /\ granted \subseteq granted'
<1>t. /\ LeaseTypeOK /\ lease[q] \in [token : Nat, target : Targets] /\ TargetOf(q) \in Targets
      /\ TargetOf(r) \in Targets /\ now \in Nat
      /\ \A t \in Targets : leases[t] \in Lease \cup {NoLease}
  BY DEF SyncTypeOK, TargetOf, LeaseTypeOK
<1>1. CASE UNCHANGED leaseVars
  BY <1>1 DEF leaseVars, GainsNoLease, OwnsLease, Owns, Unexpired, TargetOf
<1>2. CASE LeaseTick
  <2>1. leases' = leases /\ now' = now + 1 /\ granted' = granted
    BY <1>2 DEF LeaseTick
  <2>2. leases[TargetOf(q)].expiresAt \in Nat
    BY <1>t DEF Lease, NoLease
  <2> QED BY <1>t, <2>1, <2>2 DEF GainsNoLease, OwnsLease, Owns, Unexpired, TargetOf
<1>3. CASE LeaseRelease(r, lease[r])
  <2>1. /\ leases' = [leases EXCEPT ![TargetOf(r)] = NoLease]
        /\ now' = now /\ granted' = granted
    BY <1>3 DEF LeaseRelease, TargetOf
  <2>2. NoLease.holder # q
    BY LeaseAssumption DEF NoLease
  <2>3. leases'[TargetOf(q)] \in {leases[TargetOf(q)], NoLease}
    BY <1>t, <2>1 DEF LeaseTypeOK
  <2> QED BY <1>t, <2>1, <2>2, <2>3 DEF GainsNoLease, OwnsLease, Owns, Unexpired, TargetOf
<1>4. CASE LeaseClaim(r, TargetOf(r)) /\ q # r
  <2>1. /\ leases' = [leases EXCEPT ![TargetOf(r)] = Claimed(leases[TargetOf(r)], r)]
        /\ now' = now /\ granted \subseteq granted'
    BY <1>4 DEF LeaseClaim
  <2>2. Claimed(leases[TargetOf(r)], r).holder # q
    BY <1>4 DEF Claimed
  <2>3. leases'[TargetOf(q)] \in {leases[TargetOf(q)], Claimed(leases[TargetOf(r)], r)}
    BY <1>t, <2>1 DEF LeaseTypeOK
  <2> QED BY <1>t, <2>1, <2>2, <2>3 DEF GainsNoLease, OwnsLease, Owns, Unexpired, TargetOf
<1> QED BY <1>1, <1>2, <1>3, <1>4

\* The locals of q and its Operation are as they were.
SameRun(q) ==
  /\ state'[q] = state[q] /\ pc'[q] = pc[q] /\ lease'[q] = lease[q] /\ next'[q] = next[q]
  /\ failed'[q] = failed[q] /\ staged'[q] = staged[q] /\ outcome'[q] = outcome[q]
  /\ stale'[q] = stale[q] /\ late'[q] = late[q]

\* A step in which q has no part, and another run may write to q's target.
LEMMA BystanderHolds ==
  ASSUME SyncTypeOK, NEW q \in Operations, RunHolds(q), SameRun(q), GainsNoLease(q),
         granted \subseteq granted',
         \A t \in Targets, b \in Binding : live[t][b] # q => live'[t][b] # q
  PROVE  RunHolds(q)'
<1>1. StateFits(q)'
  BY DEF RunHolds, StateFits, SameRun
<1>2. WritesHold(q)'
  BY DEF RunHolds, WritesHold, SameRun, Untouched, IsStaged, TargetOf
<1>3. LeaseHolds(q)'
  BY DEF RunHolds, LeaseHolds, SameRun, GainsNoLease, TargetOf
<1>4. LostHolds(q)'
  BY DEF RunHolds, LostHolds, SameRun, GainsNoLease, OwnsLease
<1> QED BY <1>1, <1>2, <1>3, <1>4 DEF RunHolds

-----------------------------------------------------------------------------
(* Steps of control: the Operation's state, the request's place and its    *)
(* result.                                                                 *)

\* The invariant but for the leases, after a step.
HoldsAfter == RunTypes' /\ RunsHold' /\ NoPartialDeploy'

Control(r, s, p, u) ==
  /\ state' = [state EXCEPT ![r] = s]
  /\ pc' = [pc EXCEPT ![r] = p]
  /\ outcome' = [outcome EXCEPT ![r] = u]
  /\ UNCHANGED <<lease, next, failed, staged, live, stale, late>>

\* Of a step of control under which no lease is gained, only the run itself matters.
LEMMA ControlStep ==
  ASSUME SyncInv, NEW r \in Operations,
         NEW s \in States \cup {"absent"}, NEW p \in Pc, NEW u \in States \cup {None},
         Control(r, s, p, u),
         \A q \in Operations : GainsNoLease(q) /\ granted \subseteq granted',
         StateFits(r)', WritesHold(r)', LeaseHolds(r)', LostHolds(r)'
  PROVE  HoldsAfter
<1>1. RunTypes'
  BY DEF SyncInv, SyncTypeOK, RunTypes, Control
<1>2. NoPartialDeploy'
  BY DEF SyncInv, NoPartialDeploy, Control
<1>3. ASSUME NEW q \in Operations \ {r}
      PROVE  RunHolds(q)'
  <2>1. SameRun(q)
    BY DEF SyncInv, SyncTypeOK, SameRun, Control
  <2>2. \A t \in Targets, b \in Binding : live[t][b] # q => live'[t][b] # q
    BY DEF Control
  <2> QED BY <2>1, <2>2, BystanderHolds DEF SyncInv, RunsHold
<1>4. RunHolds(r)'
  BY DEF RunHolds
<1> QED BY <1>1, <1>2, <1>3, <1>4 DEF HoldsAfter, RunsHold

\* A step of control that leaves the leases alone, and leads the run on in a way that its
\* invariant allows.
LEMMA QuietStep ==
  ASSUME SyncInv, NEW r \in Operations,
         NEW s \in States \cup {"absent"}, NEW p \in Pc, NEW u \in States \cup {None},
         Control(r, s, p, u), UNCHANGED leaseVars \/ LeaseTick,
         \* StateFits
         p = "idle" <=> s = "absent",
         p \in {"created", "refused", "leased", "notStarted"} => s \in {"pending", "canceled"},
         p \in Executing => s \in {"running", "incomplete", "canceled"},
         p \in {"releasing", "ended"} =>
           u \in Outcomes /\ (u # "canceled" => s \in {u, "canceled"}),
         p = "releasing" => u # "canceled",
         p = "ended" /\ u = "canceled" => s \in {"pending", "canceled"},
         \* WritesHold
         p \in Early \/ s = "blocked" => pc[r] \in Early \/ state[r] = "blocked",
         p = "asserted" => next[r] < NumBindings,
         p \in {"deploying", "verifying"} => next[r] = NumBindings /\ ~failed[r],
         p = "deploying" => IsStaged(r),
         s \in Succeeded => next[r] = NumBindings /\ ~failed[r],
         \* LeaseHolds
         p \in {"idle", "created", "refused", "ended"} =>
           pc[r] \in {"idle", "created", "refused", "ended"},
         p \in UnderLease => pc[r] \in UnderLease,
         \* LostHolds
         stale[r] # 0 => p \in {"wrote", "verifying", "dead"},
         late[r] # 0 => p \in {"wrote", "verifying", "dead"} /\ s = "canceled"
  PROVE  HoldsAfter
<1>r. RunHolds(r)
  BY DEF SyncInv, RunsHold
<1>1. /\ state'[r] = s /\ pc'[r] = p /\ outcome'[r] = u /\ lease' = lease /\ next' = next
      /\ failed' = failed /\ staged' = staged /\ live' = live /\ stale' = stale /\ late' = late
  BY DEF SyncInv, SyncTypeOK, Control
<1>2. \A q \in Operations : GainsNoLease(q) /\ granted \subseteq granted'
  BY <1>1, LeasesStand DEF SyncInv
<1>3. StateFits(r)'
  BY <1>1 DEF StateFits
<1>4. WritesHold(r)'
  BY <1>r, <1>1 DEF RunHolds, WritesHold, Untouched, IsStaged, TargetOf
<1>5. LeaseHolds(r)'
  BY <1>r, <1>1, <1>2 DEF RunHolds, LeaseHolds, GainsNoLease, TargetOf
<1>6. LostHolds(r)'
  BY <1>r, <1>1, <1>2 DEF RunHolds, LostHolds, GainsNoLease, OwnsLease
<1> QED BY <1>2, <1>3, <1>4, <1>5, <1>6, ControlStep

\* A mutation that names the run's lease is let through only while the run owns it.
LEMMA MutationNeedsLease ==
  ASSUME SyncInv, NEW r \in Operations, pc[r] \in UnderLease, MayMutate(r, lease[r])
  PROVE  OwnsLease(r) /\ stale[r] = 0
<1>1. lease[r] \in Context
  BY DEF SyncInv, RunsHold, RunHolds, LeaseHolds, SyncTypeOK, LeaseTypeOK, Grant
<1>2. lease[r] # None
  BY <1>1, AbsentContext
<1>3. OwnsLease(r)
  BY <1>2 DEF MayMutate, OwnsLease
<1> QED BY <1>3 DEF SyncInv, RunsHold, RunHolds, LostHolds

\* What the steps below start from.
LEMMA RunFacts ==
  ASSUME SyncInv, NEW r \in Operations
  PROVE  /\ StateFits(r) /\ WritesHold(r) /\ LostHolds(r)
         /\ state[r] \in States \cup {"absent"} /\ pc[r] \in Pc /\ outcome[r] \in States \cup {None}
         /\ next[r] \in 0 .. NumBindings
         /\ state = [state EXCEPT ![r] = state[r]]
         /\ outcome = [outcome EXCEPT ![r] = outcome[r]]
  BY DEF SyncInv, SyncTypeOK, RunsHold, RunHolds

\* The places of a request and the states of an Operation, by name.
LEMMA Names ==
  /\ \A x \in {"idle", "created", "refused", "leased", "notStarted", "running", "blocking",
               "writing", "asserted", "wrote", "deploying", "verifying", "releasing", "ended",
               "stale", "dead"} : x \in Pc
  /\ \A x \in {"pending", "waiting_for_human", "running", "blocked", "incomplete", "succeeded",
               "completed_with_warnings", "canceled", "failed"} : x \in States
  BY DEF Pc, Stops, States

LEMMA CreateRunHolds ==
  ASSUME SyncInv, NEW r \in Operations, CreateRun(r)
  PROVE  HoldsAfter
<1>1. Control(r, "pending", "created", outcome[r]) /\ UNCHANGED leaseVars /\ pc[r] = "idle"
  BY RunFacts DEF CreateRun, Control, Goto
<1> QED
  BY <1>1, RunFacts, Names, QuietStep DEF LostHolds, Early, Executing, UnderLease, Succeeded

LEMMA ParkUnleasedHolds ==
  ASSUME SyncInv, NEW r \in Operations, ParkUnleased(r)
  PROVE  HoldsAfter
<1>1. pc[r] \in {"created", "refused"} /\ UNCHANGED leaseVars
  BY DEF ParkUnleased
<1>2. CASE TransitionAllowed(r, None, "blocked")
  <2>1. Control(r, "blocked", "ended", "blocked")
    BY <1>2 DEF ParkUnleased, Control, Goto, Result
  <2> QED
    BY <1>1, <2>1, RunFacts, Names, QuietStep
       DEF StateFits, LostHolds, Early, Executing, UnderLease, Succeeded, Outcomes
<1>3. CASE ~TransitionAllowed(r, None, "blocked")
  <2>1. Control(r, state[r], "dead", outcome[r])
    BY <1>3, RunFacts DEF ParkUnleased, Control, Goto
  <2> QED
    BY <1>1, <2>1, RunFacts, Names, QuietStep
       DEF StateFits, LostHolds, WritesHold, Early, Executing, UnderLease
<1> QED BY <1>2, <1>3

LEMMA ClaimRefusedHolds ==
  ASSUME SyncInv, NEW r \in Operations, ClaimRefused(r)
  PROVE  HoldsAfter
<1>1. Control(r, state[r], "refused", outcome[r]) /\ UNCHANGED leaseVars /\ pc[r] = "created"
  BY RunFacts DEF ClaimRefused, Control, Goto
<1> QED
  BY <1>1, RunFacts, Names, QuietStep
     DEF StateFits, LostHolds, WritesHold, Early, Executing, UnderLease, Succeeded

LEMMA StartRunningHolds ==
  ASSUME SyncInv, NEW r \in Operations, StartRunning(r)
  PROVE  HoldsAfter
<1>1. pc[r] = "leased" /\ UNCHANGED leaseVars
  BY DEF StartRunning
<1>2. CASE TransitionAllowed(r, lease[r], "running")
  <2>1. Control(r, "running", "running", outcome[r])
    BY <1>2, RunFacts DEF StartRunning, Control, Goto
  <2>2. state[r] # "canceled"
    BY <1>2 DEF TransitionAllowed, Terminal
  <2> QED
    BY <1>1, <2>1, <2>2, RunFacts, Names, QuietStep
       DEF LostHolds, Early, Executing, UnderLease, Succeeded
<1>3. CASE ~TransitionAllowed(r, lease[r], "running")
  <2>1. Control(r, state[r], "notStarted", outcome[r])
    BY <1>3, RunFacts DEF StartRunning, Control, Goto
  <2> QED
    BY <1>1, <2>1, RunFacts, Names, QuietStep
       DEF StateFits, LostHolds, WritesHold, Early, Executing, UnderLease, Succeeded
<1> QED BY <1>2, <1>3

LEMMA RevalidateHolds ==
  ASSUME SyncInv, NEW r \in Operations, Revalidate(r)
  PROVE  HoldsAfter
<1>1. PICK p \in {"writing", "blocking"} : Control(r, state[r], p, outcome[r])
  BY RunFacts DEF Revalidate, Control, Goto
<1>2. pc[r] = "running" /\ UNCHANGED leaseVars
  BY DEF Revalidate
<1> QED
  BY <1>1, <1>2, RunFacts, Names, QuietStep
     DEF StateFits, LostHolds, WritesHold, Early, Executing, UnderLease, Succeeded

LEMMA CrashHolds ==
  ASSUME SyncInv, NEW r \in Operations, Crash(r)
  PROVE  HoldsAfter
<1>1. Control(r, state[r], "dead", outcome[r]) /\ UNCHANGED leaseVars
  BY RunFacts DEF Crash, Control, Goto
<1>2. pc[r] # "idle"
  BY DEF Crash, Active
<1> QED
  BY <1>1, <1>2, RunFacts, Names, QuietStep
     DEF StateFits, LostHolds, WritesHold, Early, Executing, UnderLease

\* Any place but "idle" allows a cancellation.
LEMMA CancelHolds ==
  ASSUME SyncInv, NEW r \in Operations, Cancel(r)
  PROVE  HoldsAfter
<1>1. Control(r, "canceled", pc[r], outcome[r]) /\ UNCHANGED leaseVars
  BY DEF Cancel, Control, SyncInv, SyncTypeOK
<1>2. pc[r] # "idle"
  BY RunFacts DEF Cancel, Cancelable, StateFits
<1> QED
  BY <1>1, <1>2, RunFacts, Names, QuietStep
     DEF StateFits, LostHolds, WritesHold, Succeeded

\* A read that parks the Operation of r changes the clock and nothing else of the leases.
LEMMA ReadIsTick == ASSUME NEW r \in Operations, ReadAcrossExpiry(r) PROVE LeaseTick
  BY DEF ReadAcrossExpiry, LeaseTick

LEMMA ParkAcrossExpiryHolds ==
  ASSUME SyncInv, NEW r \in Operations, ParkAcrossExpiry(r)
  PROVE  HoldsAfter
<1>1. Control(r, "incomplete", pc[r], outcome[r]) /\ LeaseTick /\ state[r] = "running"
  BY ReadIsTick DEF ParkAcrossExpiry, ReadAcrossExpiry, Control, SyncInv, SyncTypeOK
<1>2. pc[r] # "idle"
  BY <1>1, RunFacts DEF StateFits
<1> QED
  BY <1>1, <1>2, RunFacts, Names, QuietStep
     DEF StateFits, LostHolds, WritesHold, Succeeded, Outcomes

LEMMA RecordAcrossExpiryHolds ==
  ASSUME SyncInv, NEW r \in Operations, RecordAcrossExpiry(r)
  PROVE  HoldsAfter
<1>1. Control(r, "incomplete", "writing", outcome[r]) /\ LeaseTick /\ pc[r] = "wrote"
  BY RunFacts, ReadIsTick DEF RecordAcrossExpiry, ReadAcrossExpiry, Control, Goto
<1>2. stale[r] = 0
  BY <1>1, MutationNeedsLease DEF RecordAcrossExpiry, UnderLease, Executing
<1>3. late[r] = 0
  BY RunFacts DEF RecordAcrossExpiry, ReadAcrossExpiry, LostHolds
<1> QED
  BY <1>1, <1>2, <1>3, RunFacts, Names, QuietStep
     DEF Early, Executing, UnderLease, Succeeded

LEMMA RecordProgressHolds ==
  ASSUME SyncInv, NEW r \in Operations, RecordProgress(r)
  PROVE  HoldsAfter
<1>1. pc[r] = "wrote" /\ UNCHANGED leaseVars
  BY DEF RecordProgress
<1>2. CASE MayMutate(r, lease[r]) /\ state[r] \notin Terminal
  <2>1. Control(r, state[r], "writing", outcome[r])
    BY <1>2, RunFacts DEF RecordProgress, Control, Goto
  <2>2. stale[r] = 0
    BY <1>1, <1>2, MutationNeedsLease DEF UnderLease, Executing
  <2>3. late[r] = 0
    BY <1>2, RunFacts DEF LostHolds, Terminal
  <2> QED
    BY <1>1, <2>1, <2>2, <2>3, RunFacts, Names, QuietStep
       DEF StateFits, WritesHold, Early, Executing, UnderLease, Succeeded
<1>3. CASE ~(MayMutate(r, lease[r]) /\ state[r] \notin Terminal)
  <2>1. Control(r, state[r], "dead", outcome[r])
    BY <1>3, RunFacts DEF RecordProgress, Control, Goto
  <2> QED
    BY <1>1, <2>1, RunFacts, Names, QuietStep
       DEF StateFits, LostHolds, WritesHold, Early, Executing, UnderLease
<1> QED BY <1>2, <1>3

LEMMA AssertLeaseHolds ==
  ASSUME SyncInv, NEW r \in Operations, AssertLease(r)
  PROVE  HoldsAfter
<1>1. pc[r] = "writing" /\ UNCHANGED leaseVars /\ stale[r] = 0 /\ late[r] = 0
  BY RunFacts DEF AssertLease, LostHolds
<1>2. CASE ~OwnsLease(r)
  <2>1. Control(r, state[r], "stale", "running")
    BY <1>2, RunFacts DEF AssertLease, Control, Goto, Result
  <2> QED
    BY <1>1, <2>1, RunFacts, Names, QuietStep
       DEF StateFits, WritesHold, Early, Executing, UnderLease
<1>3. CASE OwnsLease(r) /\ next[r] < NumBindings
  <2>1. Control(r, state[r], "asserted", outcome[r])
    BY <1>3, RunFacts DEF AssertLease, Control, Goto
  <2> QED
    BY <1>1, <1>3, <2>1, RunFacts, Names, QuietStep
       DEF StateFits, WritesHold, Early, Executing, UnderLease
<1>4. CASE OwnsLease(r) /\ ~(next[r] < NumBindings)
  <2>1. Control(r, state[r], "deploying", outcome[r])
    BY <1>4, RunFacts DEF AssertLease, Control, Goto
  <2>2. next[r] = NumBindings /\ ~failed[r] /\ IsStaged(r)
    BY <1>4 DEF AssertLease, AllWritten, LoopDone
  <2> QED
    BY <1>1, <2>1, <2>2, RunFacts, Names, QuietStep
       DEF StateFits, WritesHold, Early, Executing, UnderLease
<1> QED BY <1>2, <1>3, <1>4

\* The end of an execution: a transition under the lease, or an uncaught error.
LEMMA FinishHolds ==
  ASSUME SyncInv, NEW r \in Operations, pc[r] \in Executing \ {"stale"},
         NEW to \in Outcomes \ {"canceled"}, FinishAs(r, to),
         UNCHANGED <<leaseVars, lease, next, failed, staged, live, stale, late>>,
         to = "blocked" => pc[r] = "blocking",
         to \in Succeeded => next[r] = NumBindings /\ ~failed[r]
  PROVE  HoldsAfter
<1>1. CASE TransitionAllowed(r, lease[r], to)
  <2>1. Control(r, to, "releasing", to)
    BY <1>1 DEF FinishAs, Control, Goto, Result
  <2>2. stale[r] = 0
    BY <1>1, MutationNeedsLease DEF TransitionAllowed, UnderLease
  <2>3. late[r] = 0
    BY <1>1, RunFacts DEF TransitionAllowed, LostHolds, Terminal
  <2>4. to \in States
    BY Names DEF Outcomes
  <2> QED
    BY <2>1, <2>2, <2>3, <2>4, RunFacts, Names, QuietStep
       DEF Early, Executing, UnderLease, Outcomes
<1>2. CASE ~TransitionAllowed(r, lease[r], to)
  <2>1. Control(r, state[r], "dead", outcome[r])
    BY <1>2, RunFacts DEF FinishAs, Control, Goto
  <2> QED
    BY <2>1, RunFacts, Names, QuietStep
       DEF StateFits, LostHolds, WritesHold, Early, Executing, UnderLease
<1> QED BY <1>1, <1>2

LEMMA FinalizeHolds ==
  ASSUME SyncInv, NEW r \in Operations,
         ParkLeased(r) \/ FinalizeIncomplete(r) \/ FinalizeComplete(r)
  PROVE  HoldsAfter
<1>1. CASE ParkLeased(r)
  BY <1>1, FinishHolds DEF ParkLeased, Executing, Outcomes, Succeeded
<1>2. CASE FinalizeIncomplete(r)
  BY <1>2, FinishHolds DEF FinalizeIncomplete, LoopDone, Executing, Outcomes, Succeeded
<1>3. CASE FinalizeComplete(r)
  <2>1. pc[r] \in {"verifying", "writing"} /\ next[r] = NumBindings /\ ~failed[r]
    BY <1>3, RunFacts DEF FinalizeComplete, AllWritten, LoopDone, WritesHold
  <2> QED BY <1>3, <2>1, FinishHolds DEF FinalizeComplete, Executing, Outcomes, Succeeded
<1> QED BY <1>1, <1>2, <1>3

-----------------------------------------------------------------------------
(* Steps that claim or release the lease.                                  *)

\* A run that releases its lease ends, with a result or an error.
LEMMA ReleaseHolds ==
  ASSUME SyncInv, NEW r \in Operations, NEW u \in Outcomes,
         pc[r] \in {"notStarted", "releasing"},
         LeaseRelease(r, lease[r]), Control(r, state[r], "ended", u),
         u # "canceled" => state[r] \in {u, "canceled"},
         u = "canceled" => state[r] \in {"pending", "canceled"}
  PROVE  HoldsAfter
<1>1. /\ state' = state /\ pc'[r] = "ended" /\ outcome'[r] = u /\ lease' = lease /\ next' = next
      /\ failed' = failed /\ staged' = staged /\ live' = live /\ stale' = stale /\ late' = late
  BY RunFacts DEF SyncInv, SyncTypeOK, Control
<1>2. \A q \in Operations : GainsNoLease(q) /\ granted \subseteq granted'
  BY <1>1, LeasesStand DEF SyncInv
<1>3. StateFits(r)'
  BY <1>1, RunFacts DEF StateFits, Executing
<1>4. WritesHold(r)'
  BY <1>1, RunFacts DEF WritesHold, Untouched, IsStaged, TargetOf, Early
<1>5. LeaseHolds(r)'
  <2>1. leases'[TargetOf(r)].holder # r
    BY LeaseAssumption DEF LeaseRelease, NoLease, TargetOf, SyncInv, SyncTypeOK, LeaseTypeOK
  <2> QED BY <1>1, <2>1 DEF LeaseHolds, TargetOf, UnderLease, Executing
<1>6. LostHolds(r)'
  BY <1>1, RunFacts DEF LostHolds
<1>7. u \in States
  BY Names DEF Outcomes
<1> QED BY <1>2, <1>3, <1>4, <1>5, <1>6, <1>7, RunFacts, Names, ControlStep

LEMMA EndNotStartedHolds ==
  ASSUME SyncInv, NEW r \in Operations, EndNotStarted(r)
  PROVE  HoldsAfter
<1>1. pc[r] = "notStarted"
  BY DEF EndNotStarted
<1>2. CASE Releasable(r, lease[r])
  <2>1. LeaseRelease(r, lease[r]) /\ Control(r, state[r], "ended", "canceled")
    BY <1>2, RunFacts DEF EndNotStarted, Control, Goto, Result
  <2> QED BY <1>1, <2>1, RunFacts, ReleaseHolds DEF StateFits, Outcomes
<1>3. CASE ~Releasable(r, lease[r])
  <2>1. Control(r, state[r], "dead", outcome[r]) /\ UNCHANGED leaseVars
    BY <1>3, RunFacts DEF EndNotStarted, Control, Goto
  <2> QED
    BY <1>1, <2>1, RunFacts, Names, QuietStep
       DEF StateFits, LostHolds, WritesHold, Early, Executing, UnderLease
<1> QED BY <1>2, <1>3

LEMMA ReleaseLeaseHolds ==
  ASSUME SyncInv, NEW r \in Operations, ReleaseLease(r)
  PROVE  HoldsAfter
<1>1. pc[r] = "releasing"
  BY DEF ReleaseLease
<1>2. CASE Releasable(r, lease[r])
  <2>1. LeaseRelease(r, lease[r]) /\ Control(r, state[r], "ended", outcome[r])
    BY <1>2, RunFacts DEF ReleaseLease, Control, Goto
  <2> QED BY <1>1, <2>1, RunFacts, ReleaseHolds DEF StateFits
<1>3. CASE ~Releasable(r, lease[r])
  <2>1. Control(r, state[r], "dead", outcome[r]) /\ UNCHANGED leaseVars
    BY <1>3, RunFacts DEF ReleaseLease, Control, Goto
  <2> QED
    BY <1>1, <2>1, RunFacts, Names, QuietStep
       DEF StateFits, LostHolds, WritesHold, Early, Executing, UnderLease
<1> QED BY <1>2, <1>3

LEMMA ClaimLeaseHolds ==
  ASSUME SyncInv, NEW r \in Operations, ClaimLease(r)
  PROVE  HoldsAfter
<1> DEFINE n == NextToken(leases[TargetOf(r)], r)
<1>t. /\ TargetOf(r) \in Targets /\ leases[TargetOf(r)] \in Lease \cup {NoLease} /\ now \in Nat
      /\ lease[r] \in [token : Nat, target : Targets]
  BY DEF SyncInv, SyncTypeOK, LeaseTypeOK, TargetOf
<1>1. /\ pc[r] = "created" /\ LeaseClaim(r, TargetOf(r))
      /\ lease' = [lease EXCEPT ![r].token = n]
      /\ pc' = [pc EXCEPT ![r] = "leased"]
      /\ UNCHANGED <<state, next, failed, staged, live, outcome, stale, late>>
  BY DEF ClaimLease, Goto
<1>2. n \in Nat \ {0}
  BY <1>t, ClaimedRow
<1> HIDE DEF n
<1>3. /\ lease'[r] = [token |-> n, target |-> TargetOf(r)] /\ pc'[r] = "leased"
      /\ lease' \in [Operations -> [token : Nat, target : Targets]]
  BY <1>t, <1>1, <1>2 DEF SyncInv, SyncTypeOK, TargetOf
<1>4. [operation |-> r, context |-> lease'[r]] \in granted' /\ granted \subseteq granted'
  BY <1>1, <1>3 DEF LeaseClaim, n
<1>5. RunTypes'
  BY <1>1, <1>3, Names DEF SyncInv, SyncTypeOK, RunTypes
<1>6. NoPartialDeploy'
  BY <1>1 DEF SyncInv, NoPartialDeploy
<1>7. ASSUME NEW q \in Operations \ {r}
      PROVE  RunHolds(q)'
  <2>1. SameRun(q)
    BY <1>1 DEF SyncInv, SyncTypeOK, SameRun
  <2>2. GainsNoLease(q) /\ granted \subseteq granted'
    BY <1>1, <2>1, LeasesStand DEF SyncInv, SameRun
  <2> QED BY <1>1, <2>1, <2>2, BystanderHolds DEF SyncInv, RunsHold
<1>8. RunHolds(r)'
  <2>1. StateFits(r)'
    BY <1>1, <1>3, RunFacts DEF StateFits, Executing
  <2>2. WritesHold(r)'
    BY <1>1, <1>3, RunFacts DEF WritesHold, Untouched, IsStaged, TargetOf, Early
  <2>3. LeaseHolds(r)'
    BY <1>3, <1>4 DEF LeaseHolds, TargetOf
  <2>4. LostHolds(r)'
    BY <1>1, RunFacts DEF LostHolds
  <2> QED BY <2>1, <2>2, <2>3, <2>4 DEF RunHolds
<1> QED BY <1>5, <1>6, <1>7, <1>8 DEF HoldsAfter, RunsHold

\* Time gives nobody a lease.
LEMMA TickHolds ==
  ASSUME SyncInv, Tick \/ UNCHANGED syncVars
  PROVE  HoldsAfter
<1>1. UNCHANGED runVars /\ (LeaseTick \/ UNCHANGED leaseVars)
  BY DEF Tick, syncVars
<1>2. RunTypes' /\ NoPartialDeploy'
  BY <1>1 DEF SyncInv, SyncTypeOK, RunTypes, NoPartialDeploy, runVars
<1>3. ASSUME NEW q \in Operations
      PROVE  RunHolds(q)'
  <2>1. SameRun(q) /\ live' = live
    BY <1>1 DEF SameRun, runVars
  <2>2. GainsNoLease(q) /\ granted \subseteq granted'
    BY <1>1, <2>1, LeasesStand DEF SyncInv, SameRun
  <2> QED BY <2>1, <2>2, BystanderHolds DEF SyncInv, RunsHold
<1> QED BY <1>2, <1>3 DEF HoldsAfter, RunsHold

-----------------------------------------------------------------------------
(* Provider calls.                                                         *)

\* The locals and the Operation of every other run, and the leases, stay as they are in a
\* step of r that writes to the provider in its own name.
LEMMA ProviderBystanders ==
  ASSUME SyncInv, NEW r \in Operations, NEW q \in Operations \ {r},
         UNCHANGED <<leaseVars, state, lease, outcome>>,
         SameRun(q),
         \A t \in Targets, b \in Binding : live'[t][b] \in {live[t][b], r}
  PROVE  RunHolds(q)'
<1>1. GainsNoLease(q) /\ granted \subseteq granted'
  BY LeasesStand DEF SyncInv
<1> QED BY <1>1, BystanderHolds DEF SyncInv, RunsHold

\* A call that is sent with the lease lost, or after the cancellation, is the first one.
LEMMA SentHolds ==
  ASSUME SyncInv, NEW r \in Operations, pc[r] \in {"asserted", "deploying"}, Sent(r),
         UNCHANGED <<leaseVars, state, lease>>, pc'[r] \in {"wrote", "verifying"}
  PROVE  /\ LostHolds(r)'
         /\ stale' \in [Operations -> Nat] /\ late' \in [Operations -> Nat]
         /\ \A q \in Operations \ {r} : stale'[q] = stale[q] /\ late'[q] = late[q]
<1>1. stale[r] = 0 /\ late[r] = 0
  BY RunFacts DEF LostHolds
<1>2. stale \in [Operations -> Nat] /\ late \in [Operations -> Nat]
  BY DEF SyncInv, SyncTypeOK
<1>3. stale' = IF OwnsLease(r) THEN stale ELSE [stale EXCEPT ![r] = stale[r] + 1]
  BY DEF Sent
<1>4. late' = IF state[r] = "canceled" THEN [late EXCEPT ![r] = late[r] + 1] ELSE late
  BY DEF Sent
<1>5. OwnsLease(r)' <=> OwnsLease(r)
  BY DEF OwnsLease, Owns, Unexpired, leaseVars
<1>6. stale'[r] # 0 => stale'[r] = 1 /\ ~OwnsLease(r)
  BY <1>1, <1>2, <1>3
<1>7. late'[r] # 0 => late'[r] = 1 /\ state[r] = "canceled"
  BY <1>1, <1>2, <1>4
<1>8. LostHolds(r)'
  BY <1>5, <1>6, <1>7 DEF LostHolds
<1> QED BY <1>2, <1>3, <1>4, <1>8

LEMMA WriteBindingHolds ==
  ASSUME SyncInv, NEW r \in Operations, WriteBinding(r)
  PROVE  HoldsAfter
<1> DEFINE b == next[r] + 1
<1>t. /\ NumBindings \in Nat /\ TargetOf(r) \in Targets
      /\ next[r] \in Nat /\ next[r] < NumBindings /\ b \in Binding
  BY RunFacts, SyncAssumption
     DEF WriteBinding, WritesHold, SyncInv, SyncTypeOK, TargetOf, Binding
<1>1. PICK applied \in BOOLEAN, ok \in BOOLEAN :
        /\ ok => applied
        /\ ProviderWrite(r, b, applied)
        /\ failed' = [failed EXCEPT ![r] = failed[r] \/ ~ok]
  BY DEF WriteBinding
<1>2. /\ pc[r] = "asserted"
      /\ next' = [next EXCEPT ![r] = b]
      /\ pc' = [pc EXCEPT ![r] = "wrote"]
      /\ Sent(r)
      /\ UNCHANGED <<leaseVars, state, lease, outcome>>
  BY DEF WriteBinding, Goto
<1>3. /\ pc'[r] = "wrote" /\ next'[r] = b /\ failed'[r] = (failed[r] \/ ~ok)
      /\ pc' \in [Operations -> Pc] /\ next' \in [Operations -> 0 .. NumBindings]
      /\ failed' \in [Operations -> BOOLEAN]
  BY <1>t, <1>1, <1>2, Names DEF SyncInv, SyncTypeOK, Binding
<1>4. /\ LostHolds(r)'
      /\ stale' \in [Operations -> Nat] /\ late' \in [Operations -> Nat]
      /\ \A q \in Operations \ {r} : stale'[q] = stale[q] /\ late'[q] = late[q]
  BY <1>2, <1>3, SentHolds
<1>5. /\ staged' \in [Operations -> SUBSET Binding]
      /\ \A q \in Operations \ {r} : staged'[q] = staged[q]
      /\ IsStaged(r) /\ applied => staged'[r] = staged[r] \cup {b}
  <2>1. staged \in [Operations -> SUBSET Binding]
    BY DEF SyncInv, SyncTypeOK
  <2>2. CASE staged' = staged /\ ~(IsStaged(r) /\ applied)
    BY <2>1, <2>2
  <2>3. CASE staged' = [staged EXCEPT ![r] = staged[r] \cup {b}]
    BY <1>t, <2>1, <2>3
  <2> QED BY <1>1, <2>2, <2>3 DEF ProviderWrite
<1>6. /\ live' \in [Targets -> [Binding -> Operations \cup {None}]]
      /\ \A t \in Targets, a \in Binding : live'[t][a] \in {live[t][a], r}
      /\ \A t \in StagedTargets : live'[t] = live[t]
  <2>1. CASE live' = live
    BY <2>1 DEF SyncInv, SyncTypeOK
  <2>2. CASE ~IsStaged(r) /\ live' = [live EXCEPT ![TargetOf(r)][b] = r]
    BY <1>t, <2>2, SyncAssumption DEF SyncInv, SyncTypeOK, IsStaged
  <2> QED BY <1>1, <2>1, <2>2 DEF ProviderWrite
<1>7. RunTypes'
  BY <1>2, <1>3, <1>4, <1>5, <1>6 DEF SyncInv, SyncTypeOK, RunTypes
<1>8. NoPartialDeploy'
  BY <1>6 DEF SyncInv, NoPartialDeploy
<1>9. ASSUME NEW q \in Operations \ {r}
      PROVE  RunHolds(q)'
  <2>1. SameRun(q)
    BY <1>1, <1>2, <1>4, <1>5 DEF SameRun, SyncInv, SyncTypeOK
  <2> QED BY <1>2, <1>6, <2>1, ProviderBystanders
<1>10. RunHolds(r)'
  <2>1. StateFits(r)'
    BY <1>2, <1>3, RunFacts DEF StateFits, Executing
  <2>2. WritesHold(r)'
    <3>1. state[r] \in {"running", "incomplete", "canceled"}
      BY <1>2, RunFacts DEF StateFits, Executing
    <3>2. IsStaged(r) /\ ~failed'[r] => staged'[r] = 1 .. b
      <4>1. SUFFICES ASSUME IsStaged(r), ~failed'[r]
                     PROVE  staged'[r] = 1 .. b
        OBVIOUS
      <4>2. staged'[r] = (1 .. next[r]) \cup {b}
        BY <1>1, <1>3, <1>5, <4>1, RunFacts DEF WritesHold
      <4> QED BY <1>t, <4>2
    <3> QED BY <1>2, <1>3, <3>1, <3>2 DEF WritesHold, Early, Succeeded, IsStaged, TargetOf
  <2>3. LeaseHolds(r)'
    BY <1>2, <1>3, RunFacts
       DEF LeaseHolds, SyncInv, RunsHold, RunHolds, TargetOf, UnderLease, Executing, leaseVars
  <2> QED BY <1>4, <2>1, <2>2, <2>3 DEF RunHolds
<1> QED BY <1>7, <1>8, <1>9, <1>10 DEF HoldsAfter, RunsHold

LEMMA DeployHolds ==
  ASSUME SyncInv, NEW r \in Operations, Deploy(r)
  PROVE  HoldsAfter
<1>t. TargetOf(r) \in Targets /\ staged[r] \in SUBSET Binding
  BY DEF SyncInv, SyncTypeOK, TargetOf
<1>1. PICK applied \in BOOLEAN, ok \in BOOLEAN :
        /\ ProviderDeploy(r, applied)
        /\ failed' = [failed EXCEPT ![r] = ~ok]
        /\ Goto(r, IF ok THEN "verifying" ELSE "wrote")
  BY DEF Deploy
<1>2. /\ pc[r] = "deploying" /\ Sent(r)
      /\ UNCHANGED <<leaseVars, state, lease, next, staged, outcome>>
  BY DEF Deploy
<1>3. /\ failed'[r] = ~ok /\ pc'[r] = (IF ok THEN "verifying" ELSE "wrote")
      /\ pc' \in [Operations -> Pc] /\ failed' \in [Operations -> BOOLEAN]
  BY <1>1, Names DEF SyncInv, SyncTypeOK, Goto
<1>4. /\ LostHolds(r)'
      /\ stale' \in [Operations -> Nat] /\ late' \in [Operations -> Nat]
      /\ \A q \in Operations \ {r} : stale'[q] = stale[q] /\ late'[q] = late[q]
  BY <1>2, <1>3, SentHolds
<1>5. next[r] = NumBindings /\ ~failed[r] /\ IsStaged(r) /\ staged[r] = Binding
  BY <1>2, RunFacts DEF WritesHold, Binding
<1>6. live' \in {live, [live EXCEPT ![TargetOf(r)] = [b \in Binding |-> r]]}
  BY <1>1, <1>5 DEF ProviderDeploy
<1>7. /\ live' \in [Targets -> [Binding -> Operations \cup {None}]]
      /\ \A t \in Targets, b \in Binding : live'[t][b] \in {live[t][b], r}
      /\ \A t \in Targets : live'[t] = live[t] \/ \A b \in Binding : live'[t][b] = r
  <2>1. live \in [Targets -> [Binding -> Operations \cup {None}]]
    BY DEF SyncInv, SyncTypeOK
  <2>2. CASE live' = live
    BY <2>1, <2>2
  <2>3. CASE live' = [live EXCEPT ![TargetOf(r)] = [b \in Binding |-> r]]
    <3>1. ASSUME NEW t \in Targets
          PROVE  live'[t] = IF t = TargetOf(r) THEN [b \in Binding |-> r] ELSE live[t]
      BY <2>1, <2>3
    <3>2. [b \in Binding |-> r] \in [Binding -> Operations \cup {None}]
      OBVIOUS
    <3> QED BY <1>t, <2>1, <2>3, <3>1, <3>2
  <2> QED BY <1>6, <2>2, <2>3
<1>8. RunTypes'
  BY <1>2, <1>3, <1>4, <1>7 DEF SyncInv, SyncTypeOK, RunTypes
<1>9. NoPartialDeploy'
  BY <1>7, SyncAssumption DEF SyncInv, NoPartialDeploy
<1>10. ASSUME NEW q \in Operations \ {r}
       PROVE  RunHolds(q)'
  <2>1. SameRun(q)
    BY <1>1, <1>2, <1>4 DEF SameRun, SyncInv, SyncTypeOK, Goto
  <2> QED BY <1>2, <1>7, <2>1, ProviderBystanders
<1>11. RunHolds(r)'
  <2>1. StateFits(r)'
    BY <1>2, <1>3, RunFacts DEF StateFits, Executing
  <2>2. WritesHold(r)'
    <3>1. state[r] \in {"running", "incomplete", "canceled"}
      BY <1>2, RunFacts DEF StateFits, Executing
    <3> QED
      BY <1>2, <1>3, <1>5, <3>1
         DEF WritesHold, Early, Succeeded, IsStaged, TargetOf, Binding
  <2>3. LeaseHolds(r)'
    BY <1>2, <1>3
       DEF LeaseHolds, SyncInv, RunsHold, RunHolds, TargetOf, UnderLease, Executing, leaseVars
  <2> QED BY <1>4, <2>1, <2>2, <2>3 DEF RunHolds
<1> QED BY <1>8, <1>9, <1>10, <1>11 DEF HoldsAfter, RunsHold

-----------------------------------------------------------------------------
(* The invariant.                                                          *)

\* A step of a run is a step of the leases, which a run claims when it has none and releases
\* with the token it was granted.
LEMMA RunsCallTheLeases ==
  ASSUME SyncInv, [Next]_syncVars
  PROVE  [LeaseNext]_leaseVars
<1>1. ASSUME NEW r \in Operations, pc[r] \in UnderLease, LeaseRelease(r, lease[r])
      PROVE  LeaseNext
  <2> DEFINE g == [operation |-> r, context |-> lease[r]]
  <2>1. g \in granted
    BY <1>1 DEF SyncInv, RunsHold, RunHolds, LeaseHolds
  <2>2. g.operation = r /\ g.context = lease[r]
    OBVIOUS
  <2> HIDE DEF g
  <2> QED BY <1>1, <2>1, <2>2 DEF LeaseNext
<1>2. ASSUME NEW r \in Operations, Step(r)
      PROVE  [LeaseNext]_leaseVars
  <2>1. CASE ClaimLease(r)
    <3>1. TargetOf(r) \in Targets
      BY DEF SyncInv, SyncTypeOK, TargetOf
    <3> QED BY <2>1, <3>1 DEF ClaimLease, LeaseNext
  <2>2. CASE EndNotStarted(r) \/ ReleaseLease(r)
    BY <1>1, <2>2 DEF EndNotStarted, ReleaseLease, UnderLease
  <2>3. CASE ~ClaimLease(r) /\ ~EndNotStarted(r) /\ ~ReleaseLease(r)
    BY <1>2, <2>3
       DEF Step, ParkUnleased, ClaimRefused, StartRunning, Revalidate, ParkLeased, AssertLease,
           WriteBinding, Deploy, RecordProgress, FinalizeIncomplete, FinalizeComplete
  <2> QED BY <2>1, <2>2, <2>3
<1>3. ASSUME NEW r \in Operations, ParkAcrossExpiry(r) \/ RecordAcrossExpiry(r)
      PROVE  LeaseNext
  BY <1>3, ReadIsTick DEF ParkAcrossExpiry, RecordAcrossExpiry, LeaseNext
<1>4. ASSUME NEW r \in Operations, CreateRun(r) \/ Crash(r) \/ Cancel(r)
      PROVE  UNCHANGED leaseVars
  BY <1>4 DEF CreateRun, Crash, Cancel
<1>5. CASE Tick \/ UNCHANGED syncVars
  BY <1>5 DEF Tick, LeaseNext, syncVars
<1> QED BY <1>2, <1>3, <1>4, <1>5 DEF Next

\* Every step keeps what the runs know.
LEMMA SyncStep ==
  ASSUME SyncInv, [Next]_syncVars
  PROVE  SyncInv'
<1>1. LeaseTypeOK'
  BY RunsCallTheLeases, LeaseStep DEF SyncInv, SyncTypeOK
<1>2. HoldsAfter
  <2>1. ASSUME NEW r \in Operations, Step(r)
        PROVE  HoldsAfter
    BY <2>1, ParkUnleasedHolds, ClaimLeaseHolds, ClaimRefusedHolds, StartRunningHolds,
       EndNotStartedHolds, RevalidateHolds, FinalizeHolds, AssertLeaseHolds, WriteBindingHolds,
       DeployHolds, RecordProgressHolds, ReleaseLeaseHolds DEF Step
  <2>2. ASSUME NEW r \in Operations,
               CreateRun(r) \/ Crash(r) \/ Cancel(r) \/ ParkAcrossExpiry(r) \/ RecordAcrossExpiry(r)
        PROVE  HoldsAfter
    BY <2>2, CreateRunHolds, CrashHolds, CancelHolds, ParkAcrossExpiryHolds, RecordAcrossExpiryHolds
  <2>3. CASE Tick \/ UNCHANGED syncVars
    BY <2>3, TickHolds
  <2> QED BY <2>1, <2>2, <2>3 DEF Next
<1>3. SyncTypeOK'
  BY <1>1, <1>2 DEF HoldsAfter, RunTypes, SyncTypeOK
<1> QED BY <1>2, <1>3 DEF HoldsAfter, SyncInv

LEMMA SyncInvariant == Spec => []SyncInv
<1>1. Init => SyncInv
  <2> SUFFICES ASSUME Init
               PROVE  SyncInv
    OBVIOUS
  <2>1. NumBindings \in Nat
    BY SyncAssumption
  <2>2. LeaseTypeOK
    BY LeaseAssumption DEF Init, LeaseInit, LeaseTypeOK
  <2>3. \A r \in Operations : lease[r] \in [token : Nat, target : Targets] /\ TargetOf(r) \in Targets
    BY DEF Init, TargetOf
  <2>4. SyncTypeOK
    BY <2>1, <2>2, Names DEF Init, SyncTypeOK
  <2>5. NoPartialDeploy
    BY SyncAssumption DEF Init, NoPartialDeploy
  <2>6. ASSUME NEW r \in Operations
        PROVE  RunHolds(r)
    <3>1. StateFits(r)
      BY DEF Init, StateFits, Executing
    <3>2. WritesHold(r)
      BY LeaseAssumption DEF Init, WritesHold, Untouched, Succeeded
    <3>3. LeaseHolds(r)
      BY <2>3, LeaseAssumption DEF Init, LeaseInit, NoLease, LeaseHolds, UnderLease, Executing
    <3>4. LostHolds(r)
      BY DEF Init, LostHolds
    <3> QED BY <3>1, <3>2, <3>3, <3>4 DEF RunHolds
  <2> QED BY <2>4, <2>5, <2>6 DEF SyncInv, RunsHold
<1>2. SyncInv /\ [Next]_syncVars => SyncInv'
  BY SyncStep
<1> QED BY <1>1, <1>2, PTL DEF Spec

-----------------------------------------------------------------------------
(* The Operations move along the transition table.                         *)

\* The Operation of r is left alone, created, or moved by one arm of the table.
StateMoves(r) ==
  \/ state' = state
  \/ \E s \in States :
       /\ state' = [state EXCEPT ![r] = s]
       /\ \/ state[r] = "absent" /\ s = "pending"
          \/ state[r] \in States /\ s \in Allowed[state[r]]

\* A transition that the store lets pass is an arm of the table or writes what is there.
LEMMA TransitionMoves ==
  ASSUME SyncInv, NEW r \in Operations, NEW c, NEW to \in States, TransitionAllowed(r, c, to),
         state[r] \in States, state' = [state EXCEPT ![r] = to]
  PROVE  StateMoves(r)
<1>1. CASE state[r] = to
  BY <1>1, RunFacts DEF StateMoves
<1>2. CASE to \in Allowed[state[r]]
  BY <1>2 DEF StateMoves
<1> QED BY <1>1, <1>2 DEF TransitionAllowed, IsTransitionAllowed

LEMMA FinishMoves ==
  ASSUME SyncInv, NEW r \in Operations, NEW to \in States, FinishAs(r, to), pc[r] # "idle"
  PROVE  StateMoves(r)
<1>1. state[r] \in States
  BY RunFacts DEF StateFits
<1>2. CASE TransitionAllowed(r, lease[r], to)
  BY <1>1, <1>2, TransitionMoves DEF FinishAs
<1>3. CASE ~TransitionAllowed(r, lease[r], to)
  BY <1>3 DEF FinishAs, StateMoves
<1> QED BY <1>2, <1>3

\* An operator's cancellation and a read that parks are arms of the table.
LEMMA OutsideMoves ==
  ASSUME SyncInv, NEW r \in Operations,
         CreateRun(r) \/ Cancel(r) \/ ParkAcrossExpiry(r) \/ RecordAcrossExpiry(r)
  PROVE  StateMoves(r)
<1>1. CASE CreateRun(r)
  <2>1. state[r] = "absent" /\ state' = [state EXCEPT ![r] = "pending"]
    BY <1>1, RunFacts DEF CreateRun, StateFits
  <2> QED BY <2>1, Names DEF StateMoves
<1>2. CASE Cancel(r)
  <2>1. state[r] \in States /\ "canceled" \in Allowed[state[r]]
    BY <1>2, Names DEF Cancel, Cancelable, Allowed
  <2> QED BY <1>2, <2>1, Names DEF Cancel, StateMoves
<1>3. CASE ParkAcrossExpiry(r) \/ RecordAcrossExpiry(r)
  <2>1. state[r] = "running" /\ state' = [state EXCEPT ![r] = "incomplete"]
    BY <1>3 DEF ParkAcrossExpiry, RecordAcrossExpiry, ReadAcrossExpiry
  <2>2. "incomplete" \in Allowed["running"]
    BY DEF Allowed
  <2> QED BY <2>1, <2>2, Names DEF StateMoves
<1> QED BY <1>1, <1>2, <1>3

LEMMA StepMoves ==
  ASSUME SyncInv, NEW r \in Operations, Step(r)
  PROVE  StateMoves(r)
<1>1. CASE ParkUnleased(r)
  <2>1. state[r] \in States
    BY <1>1, RunFacts DEF ParkUnleased, StateFits
  <2>2. CASE TransitionAllowed(r, None, "blocked")
    BY <1>1, <2>1, <2>2, TransitionMoves, Names DEF ParkUnleased
  <2>3. CASE ~TransitionAllowed(r, None, "blocked")
    BY <1>1, <2>3 DEF ParkUnleased, StateMoves
  <2> QED BY <2>2, <2>3
<1>2. CASE StartRunning(r)
  <2>1. state[r] \in States
    BY <1>2, RunFacts DEF StartRunning, StateFits
  <2>2. CASE TransitionAllowed(r, lease[r], "running")
    BY <1>2, <2>1, <2>2, TransitionMoves, Names DEF StartRunning
  <2>3. CASE ~TransitionAllowed(r, lease[r], "running")
    BY <1>2, <2>3 DEF StartRunning, StateMoves
  <2> QED BY <2>2, <2>3
<1>3. CASE ParkLeased(r)
  BY <1>3, FinishMoves, Names DEF ParkLeased
<1>4. CASE FinalizeIncomplete(r)
  BY <1>4, FinishMoves, Names DEF FinalizeIncomplete, LoopDone
<1>5. CASE FinalizeComplete(r)
  BY <1>5, FinishMoves, Names DEF FinalizeComplete, AllWritten, LoopDone
<1>6. CASE state' = state
  BY <1>6 DEF StateMoves
<1> QED
  BY <1>1, <1>2, <1>3, <1>4, <1>5, <1>6
     DEF Step, ClaimLease, ClaimRefused, EndNotStarted, Revalidate, AssertLease, WriteBinding,
         Deploy, RecordProgress, ReleaseLease

-----------------------------------------------------------------------------
(* Theorems.                                                               *)

\* Every variable of a run, its Operation, its lease and the provider keeps its type.
THEOREM SyncTypeCorrect == Spec => []SyncTypeOK
  BY SyncInvariant, PTL DEF SyncInv

\* However long a run has lost its lease or been canceled, one provider call at most is sent
\* after the loss and one after the cancellation.
THEOREM LostWritesAreBounded == Spec => []AtMostOneLostWrite
<1>1. SyncInv => AtMostOneLostWrite
  <2> SUFFICES ASSUME SyncInv, NEW r \in Operations
               PROVE  stale[r] <= 1 /\ late[r] <= 1
    BY DEF AtMostOneLostWrite
  <2>1. stale[r] \in {0, 1} /\ late[r] \in {0, 1}
    BY RunFacts DEF LostHolds
  <2> QED BY <2>1
<1> QED BY <1>1, SyncInvariant, PTL

\* A blocked Operation has written nothing to its target, and a succeeded one has had
\* every binding, and the deploy of them, accepted: whatever other runs do meanwhile.
THEOREM OutcomesMatchEffects == Spec => []OutcomeMatchesEffects
<1>1. SyncInv => OutcomeMatchesEffects
  <2> SUFFICES ASSUME SyncInv, NEW r \in Operations
               PROVE  /\ state[r] = "blocked" =>
                           /\ next[r] = 0
                           /\ \A b \in Binding : live[TargetOf(r)][b] # r
                      /\ state[r] \in {"succeeded", "completed_with_warnings"} =>
                           /\ next[r] = NumBindings
                           /\ ~failed[r]
                           /\ IsStaged(r) => staged[r] = Binding
    BY DEF OutcomeMatchesEffects
  <2>1. ASSUME state[r] = "blocked"
        PROVE  next[r] = 0 /\ \A b \in Binding : live[TargetOf(r)][b] # r
    BY <2>1 DEF SyncInv, RunsHold, RunHolds, WritesHold, Untouched, SyncTypeOK, TargetOf
  <2>2. ASSUME state[r] \in {"succeeded", "completed_with_warnings"}
        PROVE  next[r] = NumBindings /\ ~failed[r] /\ (IsStaged(r) => staged[r] = Binding)
    BY <2>2 DEF SyncInv, RunsHold, RunHolds, WritesHold, Succeeded, Binding
  <2> QED BY <2>1, <2>2
<1> QED BY <1>1, SyncInvariant, PTL

\* What a one-deploy target runs is the complete version of one run.
THEOREM DeploysAreComplete == Spec => []NoPartialDeploy
  BY SyncInvariant, PTL DEF SyncInv

\* A result names the state its Operation was left in, and its run holds no lease.
THEOREM ResultsAreTrue == Spec => []ResultIsTrue
<1>1. SyncInv => ResultIsTrue
  BY DEF SyncInv, RunsHold, RunHolds, StateFits, LeaseHolds, ResultIsTrue
<1> QED BY <1>1, SyncInvariant, PTL

\* The runs use the leases as SyncTargetLease says, so what is proved of it holds of them.
THEOREM RunsUseTheLeases == Spec => LeaseSpec
<1>1. Init => LeaseInit
  BY DEF Init
<1>2. SyncInv /\ [Next]_syncVars => [LeaseNext]_leaseVars
  BY RunsCallTheLeases
<1> QED BY <1>1, <1>2, SyncInvariant, PTL DEF Spec, LeaseSpec

\* Among the runs too, an unexpired lease is lost only by its release.
THEOREM RunsKeepUnexpiredLeases == Spec => UnexpiredLeaseIsKept
  BY RunsUseTheLeases, UnexpiredLeasesAreKept

\* The Operations of the runs behave as OperationLifecycle promises their callers.
THEOREM RunsImplementLifecycle == Spec => ImplementsLifecycle
<1>1. Init => Lifecycle!Init
  BY DEF Init, Lifecycle!Init
<1>2. SyncInv /\ [Next]_syncVars => [Lifecycle!Next]_state
  <2> SUFFICES ASSUME SyncInv, [Next]_syncVars, state' # state
               PROVE  Lifecycle!Next
    OBVIOUS
  <2>1. PICK r \in Operations : StateMoves(r)
    BY StepMoves, OutsideMoves DEF Next, Crash, Tick, runVars, syncVars
  <2>2. PICK s \in States :
          /\ state' = [state EXCEPT ![r] = s]
          /\ \/ state[r] = "absent" /\ s = "pending"
             \/ state[r] \in States /\ s \in Allowed[state[r]]
    BY <2>1 DEF StateMoves
  <2> QED
    BY <2>2 DEF Lifecycle!Next, Lifecycle!Create, Lifecycle!Move, Lifecycle!States,
                Lifecycle!Allowed, States, Allowed
<1> QED BY <1>1, <1>2, SyncInvariant, PTL DEF Spec, ImplementsLifecycle, Lifecycle!Spec
=============================================================================
