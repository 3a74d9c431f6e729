---------------------------- MODULE OperationStore ----------------------------
(***************************************************************************)
(* The Operation Store (packages/operations) for Operations that never     *)
(* claim a Sync Target lease: the operations table, and the exported calls *)
(* that create, move, annotate and read its rows.                          *)
(*                                                                         *)
(* Every call runs in one READ COMMITTED transaction.  It reads the row    *)
(* without locking it, decides on that snapshot, and writes with an UPDATE *)
(* whose WHERE clause names the state and the revision it read.  A call is *)
(* therefore two steps here, Begin (the read) and one outcome, and the     *)
(* steps of different calls interleave.  An outcome may be two UPDATEs of  *)
(* the row in the code (parking an abandoned claim, then the call's own):  *)
(* the first one holds the row's lock until the transaction ends, so no    *)
(* other call can come between them and they are one step.                 *)
(***************************************************************************)
EXTENDS OperationRows

CONSTANTS
  Pollers,      \* clients that only poll (insecur operations wait)
  MaxAttempts,  \* MAX_PROGRESS_UPDATE_ATTEMPTS
  MaxRevision,  \* bound: no mutation begins on a row at this revision
  MaxClock      \* bound: the clock stops here

ASSUME StoreAssumption ==
  /\ Pollers \subseteq Clients
  /\ TTL \in Nat \ {0}
  /\ MaxAttempts \in Nat \ {0}
  /\ MaxRevision \in Nat
  /\ MaxClock \in Nat
  /\ None \notin Nat
  /\ None \notin Challenges
  /\ None \notin Keys
  /\ None \notin MutationKeys
  /\ None \notin Clients

VARIABLES
  ops,       \* the operations table
  tx,        \* per client, the open transaction
  clock,     \* the time every Worker and the database read
  issued,    \* challenge IDs generated so far
  unstarted, \* per client, the Operations it created and has not started
  executes,  \* per client, the Operations whose work it believes it performs
  acked,     \* history: per Operation, the clients whose audit reference was acknowledged
  ledger     \* history: per challenge, how often each evidence outcome committed

vars == <<ops, tx, clock, issued, unstarted, executes, acked, ledger>>

-----------------------------------------------------------------------------
(* The table and the open transactions.                                    *)

Exists(o) == ops[o] # Absent

Tx == [call : Call, snap : Row, expired : BOOLEAN, attempt : Nat]

Idle == [call |-> None]

Open(c) == tx[c] # Idle

-----------------------------------------------------------------------------
(* What a call computes from its snapshot.                                 *)

\* The record the call's own gates see, after resolveOperationLiveness.
Resolved(t) == IF t.expired THEN Parked(t.snap) ELSE t.snap

\* Mutant of CasHolds: the WHERE clause forgets the revision.
CasHoldsOnState(t) == ops[t.call.op].state = t.snap.state

\* The CAS of an UPDATE: the stored row still has the state and the revision read.
CasHolds(t) ==
  /\ ops[t.call.op].state = t.snap.state
  /\ ops[t.call.op].revision = t.snap.revision

-----------------------------------------------------------------------------
Init ==
  /\ ops      = [o \in Ops |-> Absent]
  /\ tx       = [c \in Clients |-> Idle]
  /\ clock    = 0
  /\ issued   = {}
  /\ unstarted = [c \in Clients |-> {}]
  /\ executes = [c \in Clients |-> {}]
  /\ acked    = [o \in Ops |-> {}]
  /\ ledger   = [h \in Challenges |-> [cleared |-> 0, consumed |-> 0, denied |-> 0]]

Tick ==
  /\ clock < MaxClock
  /\ clock' = clock + 1
  /\ UNCHANGED <<ops, tx, issued, unstarted, executes, acked, ledger>>

-----------------------------------------------------------------------------
(* createOperation: one INSERT ... ON CONFLICT, atomic in the database.    *)

Holds(o, key) == Exists(o) /\ ops[o].key = key

KeyTaken(key) == key # None /\ \E o \in Ops : Holds(o, key)

\* The caller that is told created = true goes on to start the Operation.
Create(c, o, intent, key) ==
  /\ ~Exists(o)
  /\ ~KeyTaken(key)
  /\ ops' = [ops EXCEPT ![o] = NewRow(intent, key)]
  /\ unstarted' = [unstarted EXCEPT ![c] = @ \cup {o}]
  /\ UNCHANGED <<tx, clock, issued, executes, acked, ledger>>

\* A retried create finds the row of its key.  A different intent is refused
\* without a write; the same intent returns the row, parked when abandoned.
CreateReplay(o, intent, key) ==
  /\ key # None
  /\ Holds(o, key)
  /\ ops[o].intent = intent
  /\ ClaimExpired(ops[o], clock)
  /\ ops' = [ops EXCEPT ![o] = Parked(@)]
  /\ UNCHANGED <<tx, clock, issued, unstarted, executes, acked, ledger>>

-----------------------------------------------------------------------------
(* The read that opens a call.                                             *)

ChallengeArguments(kind) ==
  CASE kind = "request"                     -> Challenges \ issued
    [] kind \in {"deny", "consume", "clear"} -> issued
    [] OTHER                                -> {None}

MutationKeyArguments(kind) ==
  IF kind \in KeyedKinds THEN MutationKeys \cup {None} ELSE {None}

\* Mutant of Read: liveness is not resolved.
ReadAsStored(call, attempt) ==
  [call |-> call, snap |-> ops[call.op], expired |-> FALSE, attempt |-> attempt]

Read(call, attempt) ==
  [call |-> call, snap |-> ops[call.op], expired |-> ClaimExpired(ops[call.op], clock),
   attempt |-> attempt]

Begin(c, call) ==
  /\ ~Open(c)
  /\ Exists(call.op)
  /\ call.kind # "get" => ops[call.op].revision < MaxRevision
  /\ call.kind = "start" => call.op \in unstarted[c]
  /\ call.kind = "finish" => call.op \in executes[c]
  /\ tx' = [tx EXCEPT ![c] = Read(call, 1)]
  /\ issued' = IF call.kind = "request" THEN issued \cup {call.challenge} ELSE issued
  /\ unstarted' = IF call.kind = "start" THEN [unstarted EXCEPT ![c] = @ \ {call.op}]
                                         ELSE unstarted
  /\ UNCHANGED <<ops, clock, executes, acked, ledger>>

BeginPoll(c) ==
  \E o \in Ops :
    Begin(c, [kind |-> "get", op |-> o, to |-> None, challenge |-> None, idempotencyKey |-> None])

BeginCall(c) ==
  \E kind \in Kinds \ {"get"}, o \in Ops :
    \E to \in NextStates(kind), h \in ChallengeArguments(kind),
       k \in MutationKeyArguments(kind) :
      Begin(c, [kind |-> kind, op |-> o, to |-> to, challenge |-> h, idempotencyKey |-> k])

-----------------------------------------------------------------------------
(* The outcomes of a call.                                                 *)

\* The write of an open transaction: the stored row becomes row, and the caller
\* that entered "running" performs the work until it leaves it.
Write(c, row) ==
  /\ ops' = [ops EXCEPT ![tx[c].call.op] = row]
  /\ tx' = [tx EXCEPT ![c] = Idle]

\* getOperation, findByIdempotencyKey: nothing to write, or the abandoned claim.
ReturnRead(c) ==
  /\ Open(c)
  /\ tx[c].call.kind = "get"
  /\ ~tx[c].expired
  /\ tx' = [tx EXCEPT ![c] = Idle]
  /\ UNCHANGED <<ops, clock, issued, unstarted, executes, acked, ledger>>

ParkOnRead(c) ==
  /\ Open(c)
  /\ tx[c].call.kind = "get"
  /\ tx[c].expired
  /\ CasHolds(tx[c])
  /\ Write(c, Resolved(tx[c]))
  /\ UNCHANGED <<clock, issued, unstarted, executes, acked, ledger>>

\* The mutation key says this very call was applied before: its result is
\* returned, and an abandoned claim found on the way stays parked.
Replay(c) ==
  /\ Open(c)
  /\ tx[c].call.kind \in TransitionKinds
  /\ IsReplay(tx[c].call, Resolved(tx[c]))
  /\ IF tx[c].expired
       THEN CasHolds(tx[c]) /\ Write(c, Resolved(tx[c]))
       ELSE tx' = [tx EXCEPT ![c] = Idle] /\ UNCHANGED ops
  /\ UNCHANGED <<clock, issued, unstarted, executes, acked, ledger>>

Executing(c, call) ==
  CASE call.to = "running" -> [executes EXCEPT ![c] = @ \cup {call.op}]
    [] call.kind = "finish" -> [executes EXCEPT ![c] = @ \ {call.op}]
    [] OTHER -> executes

\* applyTransition and casApplyOperationTransition.
CommitTransition(c) ==
  LET t == tx[c] IN
  /\ Open(c)
  /\ t.call.kind \in TransitionKinds
  /\ KeyMatches(t.call, Resolved(t))
  /\ ~IsReplay(t.call, Resolved(t))
  /\ TransitionGate(t.call, Resolved(t))
  /\ CasHolds(t)
  /\ EvidenceCas(t.call, ops[t.call.op])
  /\ Write(c, Transitioned(c, t.call, Resolved(t), clock))
  /\ executes' = Executing(c, t.call)
  /\ acked' = [acked EXCEPT ![t.call.op] = @ \cup {c}]
  /\ ledger' = Booked(t.call, ledger)
  /\ UNCHANGED <<clock, issued, unstarted>>

\* recordProgress and recordClearHighAssuranceProgress.
CommitProgress(c) ==
  LET t == tx[c] IN
  /\ Open(c)
  /\ t.call.kind \in ProgressKinds
  /\ ProgressGate(t.call, Resolved(t))
  /\ CasHolds(t)
  /\ EvidenceCas(t.call, ops[t.call.op])
  /\ Write(c, Merged(c, t.call, Resolved(t)))
  /\ acked' = [acked EXCEPT ![t.call.op] = @ \cup {c}]
  /\ ledger' = Booked(t.call, ledger)
  /\ UNCHANGED <<clock, issued, unstarted, executes>>

\* A progress update that lost its compare-and-set reads and merges again.
RetryProgress(c) ==
  LET t == tx[c] IN
  /\ Open(c)
  /\ t.call.kind \in ProgressKinds
  /\ ProgressGate(t.call, t.snap)
  /\ ~t.expired
  /\ ~(CasHolds(t) /\ EvidenceCas(t.call, ops[t.call.op]))
  /\ t.attempt < MaxAttempts
  /\ tx' = [tx EXCEPT ![c] = Read(t.call, t.attempt + 1)]
  /\ UNCHANGED <<ops, clock, issued, unstarted, executes, acked, ledger>>

\* A gate or a compare-and-set refuses the call, or the Worker dies: the
\* transaction rolls back, parking included, and an executor that was refused
\* stops.  A poller is only ever refused, it does not die.
Abort(c) ==
  LET t == tx[c] IN
  /\ Open(c)
  /\ c \in Pollers => t.expired /\ ~CasHolds(t)
  /\ tx' = [tx EXCEPT ![c] = Idle]
  /\ executes' = [executes EXCEPT ![c] = @ \ {t.call.op}]
  /\ UNCHANGED <<ops, clock, issued, unstarted, acked, ledger>>

Outcome(c) ==
  \/ ReturnRead(c) \/ ParkOnRead(c) \/ Replay(c)
  \/ CommitTransition(c) \/ CommitProgress(c) \/ RetryProgress(c) \/ Abort(c)

Next ==
  \/ Tick
  \/ \E o \in Ops, i \in Intents, k \in Keys \cup {None} :
       \/ CreateReplay(o, i, k)
       \/ \E c \in Clients \ Pollers : Create(c, o, i, k)
  \/ \E c \in Clients : BeginPoll(c) \/ Outcome(c)
  \/ \E c \in Clients \ Pollers : BeginCall(c)

Spec == Init /\ [][Next]_vars

\* Time passes, and a poller keeps polling and gets an answer to every poll.
Fairness ==
  /\ WF_vars(Tick)
  /\ \A c \in Pollers :
       /\ WF_vars(Outcome(c))
       /\ \A o \in Ops :
            SF_vars(Begin(c, [kind |-> "get", op |-> o, to |-> None,
                              challenge |-> None, idempotencyKey |-> None]))

FairSpec == Spec /\ Fairness

-----------------------------------------------------------------------------
(* What the store promises.                                                *)

\* Every variable has the shape the code gives it.
TypeOK ==
  /\ ops \in [Ops -> Row \cup {Absent}]
  /\ tx \in [Clients -> Tx \cup {Idle}]
  /\ clock \in Nat
  /\ issued \subseteq Challenges
  /\ unstarted \in [Clients -> SUBSET Ops]
  /\ executes \in [Clients -> SUBSET Ops]
  /\ acked \in [Ops -> SUBSET Clients]
  /\ ledger \in [Challenges -> [cleared : Nat, consumed : Nat, denied : Nat]]

\* The revision names the version of the row: a call whose snapshot has the
\* stored revision decided on the stored row itself.  This is what makes the
\* WHERE clause of every UPDATE a proof that nothing changed since the read.
SnapshotIsCurrent ==
  \A c \in Clients : Open(c) =>
    LET row == ops[tx[c].call.op] IN
    /\ row # Absent
    /\ tx[c].snap.revision <= row.revision
    /\ tx[c].snap.revision = row.revision => tx[c].snap = row

\* No acknowledged audit reference is ever lost from a row: concurrent
\* read-merge-write progress updates and transitions do not overwrite each other.
AcknowledgedAuditsKept ==
  \A o \in Ops : acked[o] # {} => Exists(o) /\ acked[o] \subseteq ops[o].audits

\* High-assurance evidence is exact-once: a challenge is cleared or denied but
\* never both, neither happens twice, and it is consumed at most once and only
\* after it was cleared, whatever the interleaving of the requests.
EvidenceExactOnce ==
  \A h \in Challenges :
    /\ ledger[h].cleared + ledger[h].denied <= 1
    /\ ledger[h].consumed <= ledger[h].cleared

\* A running Operation carries an execution deadline and no other state does:
\* every way into "running" makes a claim and every way out sheds it.
ClaimIffRunning ==
  \A o \in Ops : Exists(o) => (ops[o].state = "running" <=> ops[o].deadline # None)

\* A terminal Operation is never written again: no stale call, replay, late
\* progress update or cancellation reaches it.
TerminalIsFinal ==
  [][\A o \in Ops : Exists(o) /\ ops[o].state \in Terminal => ops'[o] = ops[o]]_vars

\* The claim of a running Operation that has not expired is ended or renewed only by
\* a call that asks for the state it leads to and that read this very claim: a
\* reader who judged an earlier claim of the Operation expired cannot park the one
\* that a retry made since, however often the Operation was parked before.
LiveClaimEndsByItsCall ==
  [][\A o \in Ops :
       /\ Exists(o) /\ ops[o].state = "running" /\ ~ClaimExpired(ops[o], clock)
       /\ ops'[o].state # "running" \/ ops'[o].deadline # ops[o].deadline
       => \E c \in Clients :
            /\ Open(c) /\ tx[c].call.op = o /\ tx'[c] = Idle
            /\ tx[c].snap = ops[o] /\ ~tx[c].expired
            /\ tx[c].call.kind \in TransitionKinds
            /\ ops'[o].state = tx[c].call.to]_vars

\* An Operation takes one mutation key in its life, and a call under it takes effect
\* once: of two calls that read the row before either key was stored, only one
\* commits its key, and a repeated call writes nothing while the state it asked for
\* stands.  (Once another call has moved the Operation on, a repeat counts as new.)
KeyedMutationAppliesOnce ==
  [][\A o \in Ops : Exists(o) /\ ops[o].mutationKey # None =>
       /\ ops'[o].mutationKey = ops[o].mutationKey
       /\ \A c \in Clients :
            /\ Open(c) /\ tx'[c] = Idle
            /\ tx[c].call.op = o
            /\ tx[c].call.idempotencyKey = ops[o].mutationKey
            /\ tx[c].call.to = ops[o].state
            /\ ~ClaimExpired(ops[o], clock)
            => ops'[o] = ops[o]]_vars

\* Seen from outside, the compare-and-set calls, the parking two writes in one
\* transaction and the replays only ever move an Operation along one arm of the
\* transition table.
Lifecycle ==
  INSTANCE OperationLifecycle WITH Operations <- Ops, state <- [o \in Ops |-> ops[o].state]

ImplementsLifecycle == Lifecycle!Spec

\* Every call takes effect at one instant: a reader who has only seen committed
\* rows, acknowledgements and evidence outcomes cannot tell the transactions,
\* their stale snapshots, the parking write and the retries of a lost
\* compare-and-set from a store that runs its calls one at a time.
Atomic == INSTANCE AtomicStore

ImplementsAtomicStore == Atomic!Spec

\* The outcome of a challenge, as the committed calls have made it.
Standing(h) ==
  IF ledger[h].consumed # 0 THEN "consumed"
  ELSE IF ledger[h].denied # 0 THEN "denied"
  ELSE IF ledger[h].cleared # 0 THEN "cleared" ELSE "open"

Holding(o) == IF Exists(o) THEN ops[o].evidence.id ELSE None

\* The evidence CAS clauses keep each challenge and the state of its Operation in
\* step: whatever requests race, a clear finds the Operation waiting, a denial
\* cancels it, a consume resumes it, and no other call touches the outcome.
Evidences ==
  INSTANCE ChallengeLifecycle
    WITH Operations <- Ops,
         state      <- [o \in Ops |-> ops[o].state],
         held       <- [o \in Ops |-> Holding(o)],
         status     <- [h \in Challenges |-> Standing(h)]

ImplementsChallenges == Evidences!Spec

\* A running Operation whose deadline passed does not stay in that claim while
\* somebody polls it: the lazy evaluation is enough, no sweeper is needed.
ExpiredClaimIsParked ==
  \A o \in Ops :
    (Exists(o) /\ ops[o].state = "running" /\ ops[o].deadline <= clock)
      ~> ~(ops[o].state = "running" /\ ops[o].deadline <= clock)
=============================================================================
