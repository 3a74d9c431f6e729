---------------------------- MODULE OperationRows ----------------------------
(***************************************************************************)
(* The rows of the operations table, the calls of the Operation Store, and *)
(* what a call computes from the row it reads: the gates that refuse it,   *)
(* the WHERE clauses on the stored evidence and the row it writes.  No     *)
(* variables: OperationStore runs these computations inside transactions,  *)
(* AtomicStore in one step.                                                *)
(***************************************************************************)
EXTENDS OperationStates, Naturals, FiniteSets

CONSTANTS
  Ops,          \* Operation IDs of one Organization
  Clients,      \* concurrent requests against the store
  Intents,      \* intent codes
  Keys,         \* idempotency keys of createOperation
  MutationKeys, \* idempotency keys of the mutations
  Challenges,   \* high-assurance challenge IDs
  None,         \* an absent column or JSON field
  TTL           \* DEFAULT_NON_LEASE_EXECUTION_DEADLINE_SECONDS, in ticks

-----------------------------------------------------------------------------
(* Rows.                                                                   *)

NoEvidence == [id |-> None, cleared |-> FALSE, consumed |-> FALSE]

Evidence == [id : Challenges \cup {None}, cleared : BOOLEAN, consumed : BOOLEAN]

Row == [state : States, revision : Nat, intent : Intents, key : Keys \cup {None},
        mutationKey : MutationKeys \cup {None}, deadline : Nat \cup {None},
        abandoned : BOOLEAN, evidence : Evidence, audits : SUBSET Clients]

Absent == [state |-> "absent"]

NewRow(intent, key) ==
  [state |-> "pending", revision |-> 1, intent |-> intent, key |-> key,
   mutationKey |-> None, deadline |-> None, abandoned |-> FALSE,
   evidence |-> NoEvidence, audits |-> {}]

-----------------------------------------------------------------------------
(* Calls.                                                                  *)

FinishStates == {"blocked", "incomplete", "succeeded", "completed_with_warnings", "failed"}

\* The calls, by the function that makes them.  "start", "finish" and "request"
\* are transitionOperation with the next states its callers use.
TransitionKinds == {"start", "finish", "request", "retry", "cancel", "deny", "consume"}
ProgressKinds   == {"progress", "clear"}
Kinds           == {"get"} \cup TransitionKinds \cup ProgressKinds

NextStates(kind) ==
  CASE kind \in {"start", "retry", "consume"} -> {"running"}
    [] kind = "finish"                        -> FinishStates
    [] kind = "request"                       -> {"waiting_for_human"}
    [] kind \in {"cancel", "deny"}            -> {"canceled"}
    [] OTHER                                  -> {None}

LegalFrom(kind) ==
  CASE kind = "retry"              -> Retryable
    [] kind \in {"cancel", "deny"} -> Cancelable
    [] kind = "consume"            -> {"waiting_for_human"}
    [] OTHER                       -> States

Call == [kind : Kinds, op : Ops, to : States \cup {None},
         challenge : Challenges \cup {None}, idempotencyKey : MutationKeys \cup {None}]

\* The calls about a high-assurance challenge name one, the others do not.
ChallengeKinds == {"request", "deny", "consume", "clear"}

\* The calls whose input has a mutation key, which the caller may leave out.
KeyedKinds == {"start", "finish", "retry", "consume"}

WellFormed(call) ==
  /\ call.to \in NextStates(call.kind)
  /\ call.challenge # None <=> call.kind \in ChallengeKinds
  /\ call.idempotencyKey # None => call.kind \in KeyedKinds

Mutations == {call \in Call : call.kind # "get" /\ WellFormed(call)}

-----------------------------------------------------------------------------
(* What a call computes from a row.                                        *)

\* An execution claim has expired: only a running row with a deadline at or
\* before now.
ClaimExpired(row, now) ==
  /\ row.state = "running"
  /\ row.deadline # None
  /\ row.deadline <= now

\* The row as parkAbandonedRunningOperation writes it.
Parked(row) ==
  [row EXCEPT !.state = "incomplete", !.deadline = None, !.abandoned = TRUE,
              !.revision = @ + 1]

KeyMatches(call, row) ==
  call.idempotencyKey # None => row.mutationKey \in {None, call.idempotencyKey}

AlreadyApplied(call, row) ==
  IF call.kind = "consume"
    THEN row.state = "waiting_for_human" /\ row.evidence.consumed
    ELSE row.state = call.to

\* Mutant of IsReplay: a mutation that stands is applied again.
IsReplayNever(call, row) == FALSE

IsReplay(call, row) ==
  /\ call.idempotencyKey # None
  /\ row.mutationKey = call.idempotencyKey
  /\ AlreadyApplied(call, row)

TransitionGate(call, row) ==
  /\ row.state \in LegalFrom(call.kind)
  /\ row.state \notin Terminal
  /\ IsTransitionAllowed(row.state, call.to)

\* Mutant of ProgressGate: progress is recorded on terminal Operations too.
ProgressGateAnywhere(call, row) == call.kind = "clear" => row.state = "waiting_for_human"

ProgressGate(call, row) ==
  /\ row.state \notin Terminal
  /\ call.kind = "clear" => row.state = "waiting_for_human"

\* Mutant of EvidenceCas: a challenge that was cleared can still be denied.
EvidenceCasLate(call, row) ==
  CASE call.kind = "consume" -> /\ row.evidence.id = call.challenge
                                /\ row.evidence.cleared
                                /\ ~row.evidence.consumed
    [] call.kind = "deny"    -> row.evidence.id = call.challenge
    [] call.kind = "clear"   -> /\ row.state = "waiting_for_human"
                                /\ row.evidence.id = call.challenge
                                /\ ~row.evidence.cleared
    [] OTHER                 -> TRUE

\* The extra WHERE clauses on the stored challenge evidence.
EvidenceCas(call, row) ==
  CASE call.kind = "consume" -> /\ row.evidence.id = call.challenge
                                /\ row.evidence.cleared
                                /\ ~row.evidence.consumed
    [] call.kind = "deny"    -> /\ row.evidence.id = call.challenge
                                /\ ~row.evidence.cleared
                                /\ ~row.evidence.consumed
    [] call.kind = "clear"   -> /\ row.state = "waiting_for_human"
                                /\ row.evidence.id = call.challenge
                                /\ ~row.evidence.cleared
    [] OTHER                 -> TRUE

\* The evidence each caller puts in its progress patch.
EvidencePatch(call) ==
  [id       |-> call.challenge,
   cleared  |-> call.kind \in {"clear", "consume"},
   consumed |-> call.kind = "consume"]

\* A patch for another challenge replaces the evidence, one for the same
\* challenge is merged into it.
MergeEvidence(existing, patch) ==
  IF patch.id = None THEN existing
  ELSE IF patch.id # existing.id THEN patch
  ELSE [existing EXCEPT !.cleared = @ \/ patch.cleared, !.consumed = @ \/ patch.consumed]

\* Mutant of NextDeadline: the claim is not shed on leaving "running".
NextDeadlineKept(row, to, now) == IF to = "running" THEN now + TTL ELSE row.deadline

\* The execution_deadline a transition writes: a claim on entering "running",
\* shed on leaving it.
NextDeadline(row, to, now) ==
  IF to = "running" THEN now + TTL
  ELSE IF row.state = "running" THEN None
  ELSE row.deadline

\* Mutant of Merged: the revision is not incremented.
MergedInPlace(c, call, row) ==
  [row EXCEPT !.evidence    = MergeEvidence(@, EvidencePatch(call)),
              !.audits      = @ \cup {c},
              !.mutationKey = IF call.idempotencyKey # None THEN call.idempotencyKey ELSE @]

Merged(c, call, row) ==
  [row EXCEPT !.evidence    = MergeEvidence(@, EvidencePatch(call)),
              !.audits      = @ \cup {c},
              !.mutationKey = IF call.idempotencyKey # None THEN call.idempotencyKey ELSE @,
              !.revision    = @ + 1]

Transitioned(c, call, row, now) ==
  [Merged(c, call, row) EXCEPT !.state = call.to, !.deadline = NextDeadline(row, call.to, now)]

\* The history: what a committed call adds to the book of the evidence outcomes.
Booked(call, book) ==
  CASE call.kind = "clear"   -> [book EXCEPT ![call.challenge].cleared = @ + 1]
    [] call.kind = "deny"    -> [book EXCEPT ![call.challenge].denied = @ + 1]
    [] call.kind = "consume" -> [book EXCEPT ![call.challenge].consumed = @ + 1]
    [] OTHER                 -> book
=============================================================================
