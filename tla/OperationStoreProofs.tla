------------------------- MODULE OperationStoreProofs -------------------------
(***************************************************************************)
(* Theorems about OperationStore for every set of Operations, clients and  *)
(* challenges and every bound.                                             *)
(***************************************************************************)
EXTENDS OperationStore, TLAPS

-----------------------------------------------------------------------------
(* What the row operators return.                                          *)

\* parkAbandonedRunningOperation returns a row, out of "running" and without a
\* deadline, and touches neither the key nor the evidence nor the audits.
LEMMA ParkedRow ==
  ASSUME NEW row \in Row
  PROVE  /\ Parked(row) \in Row
         /\ Parked(row).state = "incomplete"
         /\ Parked(row).deadline = None
         /\ Parked(row).revision = row.revision + 1
         /\ Parked(row).evidence = row.evidence
         /\ Parked(row).audits = row.audits
         /\ Parked(row).key = row.key
<1>1. "incomplete" \in States /\ row.revision + 1 \in Nat
  BY DEF States, Row
<1>2. Parked(row) \in Row
  BY <1>1 DEF Parked, Row
<1>3. /\ Parked(row).state = "incomplete"
      /\ Parked(row).deadline = None
      /\ Parked(row).revision = row.revision + 1
      /\ Parked(row).evidence = row.evidence
      /\ Parked(row).audits = row.audits
      /\ Parked(row).key = row.key
  BY DEF Parked, Row
<1> QED BY <1>2, <1>3

\* Merging two pieces of evidence gives evidence.
LEMMA MergedEvidence ==
  ASSUME NEW e \in Evidence, NEW p \in Evidence
  PROVE  MergeEvidence(e, p) \in Evidence
  BY DEF MergeEvidence, Evidence

\* What a caller puts in its progress patch is evidence.
LEMMA PatchIsEvidence ==
  ASSUME NEW call \in Call
  PROVE  EvidencePatch(call) \in Evidence
  BY DEF EvidencePatch, Evidence, Call

\* mergeOperationProgress returns a row in the same state, with the caller's
\* audit reference added and the revision one higher.
LEMMA MergedRow ==
  ASSUME NEW c \in Clients, NEW call \in Call, NEW row \in Row
  PROVE  /\ Merged(c, call, row) \in Row
         /\ Merged(c, call, row).state = row.state
         /\ Merged(c, call, row).deadline = row.deadline
         /\ Merged(c, call, row).revision = row.revision + 1
         /\ Merged(c, call, row).evidence = MergeEvidence(row.evidence, EvidencePatch(call))
         /\ Merged(c, call, row).audits = row.audits \cup {c}
         /\ Merged(c, call, row).key = row.key
         /\ Merged(c, call, row).abandoned = row.abandoned
<1>1. MergeEvidence(row.evidence, EvidencePatch(call)) \in Evidence
  BY MergedEvidence, PatchIsEvidence DEF Row
<1>2. (IF call.idempotencyKey # None THEN call.idempotencyKey ELSE row.mutationKey)
        \in MutationKeys \cup {None}
  BY DEF Call, Row
<1>3. row.audits \cup {c} \in SUBSET Clients /\ row.revision + 1 \in Nat
  BY DEF Row
<1>4. Merged(c, call, row) \in Row
  BY <1>1, <1>2, <1>3 DEF Merged, Row
<1>5. /\ Merged(c, call, row).state = row.state
      /\ Merged(c, call, row).deadline = row.deadline
      /\ Merged(c, call, row).revision = row.revision + 1
      /\ Merged(c, call, row).evidence = MergeEvidence(row.evidence, EvidencePatch(call))
      /\ Merged(c, call, row).audits = row.audits \cup {c}
      /\ Merged(c, call, row).key = row.key
      /\ Merged(c, call, row).abandoned = row.abandoned
  BY DEF Merged, Row
<1> QED BY <1>4, <1>5

\* The deadline a transition writes is a time or absent.
LEMMA DeadlineType ==
  ASSUME clock \in Nat, NEW row \in Row, NEW to
  PROVE  NextDeadline(row, to, clock) \in Nat \cup {None}
  BY StoreAssumption DEF NextDeadline, Row

\* A transition merges the caller's patch and changes only the state and the
\* deadline besides.
LEMMA TransitionedRow ==
  ASSUME clock \in Nat, NEW c \in Clients, NEW call \in Call, NEW row \in Row,
         call.to \in States
  PROVE  /\ Transitioned(c, call, row, clock) \in Row
         /\ Transitioned(c, call, row, clock).state = call.to
         /\ Transitioned(c, call, row, clock).deadline = NextDeadline(row, call.to, clock)
         /\ Transitioned(c, call, row, clock).revision = row.revision + 1
         /\ Transitioned(c, call, row, clock).evidence
              = MergeEvidence(row.evidence, EvidencePatch(call))
         /\ Transitioned(c, call, row, clock).audits = row.audits \cup {c}
         /\ Transitioned(c, call, row, clock).key = row.key
         /\ Transitioned(c, call, row, clock).abandoned = row.abandoned
<1> DEFINE m == Merged(c, call, row)
           n == [m EXCEPT !.state = call.to, !.deadline = NextDeadline(row, call.to, clock)]
<1>1. m \in Row /\ m.revision = row.revision + 1 /\ m.audits = row.audits \cup {c}
      /\ m.evidence = MergeEvidence(row.evidence, EvidencePatch(call))
      /\ m.key = row.key /\ m.abandoned = row.abandoned
  BY MergedRow
<1>2. NextDeadline(row, call.to, clock) \in Nat \cup {None}
  BY DeadlineType
<1>3. Transitioned(c, call, row, clock) = n
  BY DEF Transitioned
<1> HIDE DEF m
<1>4. /\ n \in Row /\ n.state = call.to /\ n.deadline = NextDeadline(row, call.to, clock)
      /\ n.revision = m.revision /\ n.evidence = m.evidence /\ n.audits = m.audits
      /\ n.key = m.key /\ n.abandoned = m.abandoned
  BY <1>1, <1>2 DEF Row
<1> QED BY <1>1, <1>3, <1>4

\* An open transaction is a transaction, and what its gates see is a row that
\* differs from the snapshot only by the parking.
LEMMA ResolvedRow ==
  ASSUME NEW t \in Tx
  PROVE  /\ Resolved(t) \in Row
         /\ Resolved(t).revision >= t.snap.revision
         /\ Resolved(t).evidence = t.snap.evidence
         /\ Resolved(t).audits = t.snap.audits
         /\ Resolved(t).key = t.snap.key
         /\ t.expired => Resolved(t).state = "incomplete" /\ Resolved(t).deadline = None
         /\ ~t.expired => Resolved(t) = t.snap
<1>1. t.snap \in Row /\ t.snap.revision \in Nat
  BY DEF Tx, Row
<1> QED BY <1>1, ParkedRow DEF Resolved

\* A new row is a pending row of revision 1.
LEMMA NewRowType ==
  ASSUME NEW i \in Intents, NEW k \in Keys \cup {None}
  PROVE  NewRow(i, k) \in Row
  BY DEF NewRow, Row, States, NoEvidence, Evidence

\* The absent row cannot be taken for a row of the table.
LEMMA AbsentIsNoRow == Absent \notin Row
  BY DEF Absent, Row, States

\* Every allowed move leads to a state of the table.
LEMMA MovesStayInStates ==
  ASSUME NEW from \in States, NEW to, IsTransitionAllowed(from, to)
  PROVE  to \in States
  BY DEF IsTransitionAllowed, Allowed, States

-----------------------------------------------------------------------------
(* What an open transaction and a write are.                               *)

\* The parts of an open transaction have their types.
LEMMA OpenTx ==
  ASSUME TypeOK, NEW c \in Clients, Open(c)
  PROVE  /\ tx[c] \in Tx
         /\ tx[c].call \in Call
         /\ tx[c].call.op \in Ops
         /\ tx[c].snap \in Row
         /\ tx[c].attempt \in Nat
         /\ tx[c].expired \in BOOLEAN
  BY DEF TypeOK, Open, Tx, Call

\* An Operation exists exactly when the table holds a row for it.
LEMMA ExistingRow ==
  ASSUME TypeOK, NEW o \in Ops
  PROVE  Exists(o) <=> ops[o] \in Row
  BY AbsentIsNoRow DEF TypeOK, Exists

\* A write changes one row and closes one transaction, and nothing else of the
\* table or of the other transactions.
LEMMA WriteShape ==
  ASSUME TypeOK, NEW c \in Clients, Open(c), NEW row \in Row, Write(c, row)
  PROVE  /\ ops' \in [Ops -> Row \cup {Absent}]
         /\ tx' \in [Clients -> Tx \cup {Idle}]
         /\ ops'[tx[c].call.op] = row
         /\ \A o \in Ops \ {tx[c].call.op} : ops'[o] = ops[o]
         /\ tx'[c] = Idle
         /\ \A d \in Clients \ {c} : tx'[d] = tx[d]
<1>1. tx[c].call.op \in Ops
  BY OpenTx
<1>2. ops' = [ops EXCEPT ![tx[c].call.op] = row] /\ tx' = [tx EXCEPT ![c] = Idle]
  BY DEF Write
<1> QED BY <1>1, <1>2 DEF TypeOK

\* A committed transition stores a row of a higher revision than the snapshot.
LEMMA CommitTransitionWrites ==
  ASSUME TypeOK, NEW c \in Clients, CommitTransition(c)
  PROVE  /\ Open(c)
         /\ tx[c].call.to \in States
         /\ Transitioned(c, tx[c].call, Resolved(tx[c]), clock) \in Row
         /\ Transitioned(c, tx[c].call, Resolved(tx[c]), clock).revision > tx[c].snap.revision
         /\ Write(c, Transitioned(c, tx[c].call, Resolved(tx[c]), clock))
<1>1. Open(c) /\ TransitionGate(tx[c].call, Resolved(tx[c]))
      /\ Write(c, Transitioned(c, tx[c].call, Resolved(tx[c]), clock))
  BY DEF CommitTransition
<1>2. tx[c] \in Tx /\ tx[c].call \in Call /\ tx[c].snap \in Row
  BY <1>1, OpenTx
<1>3. Resolved(tx[c]) \in Row /\ Resolved(tx[c]).revision >= tx[c].snap.revision
  BY <1>2, ResolvedRow
<1>4. tx[c].call.to \in States
  BY <1>1, <1>3, MovesStayInStates DEF TransitionGate, Row
<1>5. clock \in Nat
  BY DEF TypeOK
<1>6. /\ Transitioned(c, tx[c].call, Resolved(tx[c]), clock) \in Row
      /\ Transitioned(c, tx[c].call, Resolved(tx[c]), clock).revision = Resolved(tx[c]).revision + 1
  BY <1>2, <1>3, <1>4, <1>5, TransitionedRow
<1>7. Resolved(tx[c]).revision \in Nat /\ tx[c].snap.revision \in Nat
  BY <1>2, <1>3 DEF Row
<1> QED BY <1>1, <1>3, <1>4, <1>6, <1>7

\* So does a committed progress update.
LEMMA CommitProgressWrites ==
  ASSUME TypeOK, NEW c \in Clients, CommitProgress(c)
  PROVE  /\ Open(c)
         /\ Merged(c, tx[c].call, Resolved(tx[c])) \in Row
         /\ Merged(c, tx[c].call, Resolved(tx[c])).revision > tx[c].snap.revision
         /\ Write(c, Merged(c, tx[c].call, Resolved(tx[c])))
<1>1. Open(c) /\ Write(c, Merged(c, tx[c].call, Resolved(tx[c])))
  BY DEF CommitProgress
<1>2. tx[c] \in Tx /\ tx[c].call \in Call /\ tx[c].snap \in Row
  BY <1>1, OpenTx
<1>3. Resolved(tx[c]) \in Row /\ Resolved(tx[c]).revision >= tx[c].snap.revision
  BY <1>2, ResolvedRow
<1>4. /\ Merged(c, tx[c].call, Resolved(tx[c])) \in Row
      /\ Merged(c, tx[c].call, Resolved(tx[c])).revision = Resolved(tx[c]).revision + 1
  BY <1>2, <1>3, MergedRow
<1>5. Resolved(tx[c]).revision \in Nat /\ tx[c].snap.revision \in Nat
  BY <1>2, <1>3 DEF Row
<1> QED BY <1>1, <1>3, <1>4, <1>5

\* So does the parking of an abandoned claim.
LEMMA ParkingWrites ==
  ASSUME TypeOK, NEW c \in Clients, Open(c), tx[c].expired
  PROVE  /\ Resolved(tx[c]) \in Row
         /\ Resolved(tx[c]).revision > tx[c].snap.revision
<1>1. tx[c] \in Tx /\ tx[c].snap \in Row
  BY OpenTx
<1>2. tx[c].snap.revision \in Nat
  BY <1>1 DEF Row
<1> QED BY <1>1, <1>2, ResolvedRow, ParkedRow DEF Resolved

\* The call a request may open has the type of a call.
LEMMA CallType ==
  ASSUME TypeOK, NEW kind \in Kinds, NEW o \in Ops, NEW to \in NextStates(kind),
         NEW h \in ChallengeArguments(kind), NEW k \in MutationKeyArguments(kind)
  PROVE  [kind |-> kind, op |-> o, to |-> to, challenge |-> h, idempotencyKey |-> k] \in Call
<1>1. to \in States \cup {None}
  BY DEF NextStates, States, FinishStates
<1>2. h \in Challenges \cup {None}
  BY DEF ChallengeArguments, TypeOK
<1>3. k \in MutationKeys \cup {None}
  BY DEF MutationKeyArguments
<1> QED BY <1>1, <1>2, <1>3 DEF Call

\* What a call reads is a transaction when its row exists.
LEMMA ReadType ==
  ASSUME TypeOK, NEW call \in Call, ops[call.op] \in Row, NEW n \in Nat
  PROVE  Read(call, n) \in Tx
<1>1. ClaimExpired(ops[call.op], clock) \in BOOLEAN
  BY DEF ClaimExpired
<1> QED BY <1>1 DEF Read, Tx

\* Opening a call keeps the types.
LEMMA BeginType ==
  ASSUME TypeOK, NEW c \in Clients, NEW call \in Call, Begin(c, call),
         call.kind = "request" => call.challenge \in Challenges
  PROVE  TypeOK'
<1>1. call.op \in Ops
  BY DEF Call
<1>2. Read(call, 1) \in Tx
  BY <1>1, ExistingRow, ReadType DEF Begin
<1>3. tx' \in [Clients -> Tx \cup {Idle}]
  BY <1>2 DEF Begin, TypeOK
<1>4. issued' \subseteq Challenges
  BY DEF Begin, TypeOK
<1>5. unstarted' \in [Clients -> SUBSET Ops]
  BY <1>1 DEF Begin, TypeOK
<1> QED BY <1>3, <1>4, <1>5 DEF Begin, TypeOK

-----------------------------------------------------------------------------
(* Type correctness.                                                       *)

\* The history of a commit stays well typed.
LEMMA BookedType ==
  ASSUME TypeOK, NEW call \in Call
  PROVE  Booked(call, ledger) \in [Challenges -> [cleared : Nat, consumed : Nat, denied : Nat]]
<1> DEFINE L == [cleared : Nat, consumed : Nat, denied : Nat]
<1>1. ledger \in [Challenges -> L]
  BY DEF TypeOK
<1>2. CASE call.kind = "clear"
  <2>1. \A e \in L : [e EXCEPT !.cleared = @ + 1] \in L
    OBVIOUS
  <2>2. Booked(call, ledger) = [ledger EXCEPT ![call.challenge].cleared = @ + 1]
    BY <1>2 DEF Booked
  <2> QED BY <1>1, <2>1, <2>2
<1>3. CASE call.kind = "deny"
  <2>1. \A e \in L : [e EXCEPT !.denied = @ + 1] \in L
    OBVIOUS
  <2>2. Booked(call, ledger) = [ledger EXCEPT ![call.challenge].denied = @ + 1]
    BY <1>3 DEF Booked
  <2> QED BY <1>1, <2>1, <2>2
<1>4. CASE call.kind = "consume"
  <2>1. \A e \in L : [e EXCEPT !.consumed = @ + 1] \in L
    OBVIOUS
  <2>2. Booked(call, ledger) = [ledger EXCEPT ![call.challenge].consumed = @ + 1]
    BY <1>4 DEF Booked
  <2> QED BY <1>1, <2>1, <2>2
<1>5. CASE call.kind \notin {"clear", "deny", "consume"}
  BY <1>1, <1>5 DEF Booked
<1> QED BY <1>2, <1>3, <1>4, <1>5

\* Every call a request opens is typed, and a request for a challenge names one.
LEMMA BeginCallOpens ==
  ASSUME TypeOK, NEW c \in Clients, BeginCall(c)
  PROVE  \E call \in Call : /\ Begin(c, call)
                            /\ call.kind = "request" => call.challenge \in Challenges \ issued
                            /\ call.kind \in {"deny", "consume", "clear"}
                                 => call.challenge \in issued
                            /\ call.kind \notin {"request", "deny", "consume", "clear"}
                                 => call.challenge = None
                            /\ call.to \in NextStates(call.kind)
                            /\ call.idempotencyKey # None => call.kind \in KeyedKinds
<1>1. PICK kind \in Kinds \ {"get"}, o \in Ops :
        \E to \in NextStates(kind), h \in ChallengeArguments(kind),
           k \in MutationKeyArguments(kind) :
          Begin(c, [kind |-> kind, op |-> o, to |-> to, challenge |-> h, idempotencyKey |-> k])
  BY DEF BeginCall
<1>2. PICK to \in NextStates(kind), h \in ChallengeArguments(kind),
           k \in MutationKeyArguments(kind) :
        Begin(c, [kind |-> kind, op |-> o, to |-> to, challenge |-> h, idempotencyKey |-> k])
  BY <1>1
<1> DEFINE call == [kind |-> kind, op |-> o, to |-> to, challenge |-> h, idempotencyKey |-> k]
<1>3. call \in Call
  BY CallType
<1>4. call.kind = kind /\ call.challenge = h /\ call.to = to /\ call.idempotencyKey = k
  OBVIOUS
<1>9. k # None => kind \in KeyedKinds
  BY DEF MutationKeyArguments
<1>5. kind = "request" => h \in Challenges \ issued
  BY DEF ChallengeArguments
<1>6. kind \in {"deny", "consume", "clear"} => h \in issued
  BY DEF ChallengeArguments
<1>7. kind \notin {"request", "deny", "consume", "clear"} => h = None
  BY DEF ChallengeArguments
<1> HIDE DEF call
<1>8. Begin(c, call)
  BY <1>2 DEF call
<1> QED BY <1>3, <1>4, <1>5, <1>6, <1>7, <1>8, <1>9

\* A poll is a typed call too.
LEMMA BeginPollOpens ==
  ASSUME NEW c \in Clients, BeginPoll(c)
  PROVE  \E call \in Call : /\ Begin(c, call)
                            /\ call.kind = "get"
                            /\ call.challenge = None
                            /\ call.to = None
                            /\ call.idempotencyKey = None
<1>1. PICK o \in Ops :
        Begin(c, [kind |-> "get", op |-> o, to |-> None, challenge |-> None,
                  idempotencyKey |-> None])
  BY DEF BeginPoll
<1> DEFINE call == [kind |-> "get", op |-> o, to |-> None, challenge |-> None,
                    idempotencyKey |-> None]
<1>2. call \in Call
  BY DEF Call, Kinds
<1>3. call.kind = "get" /\ call.challenge = None /\ call.to = None /\ call.idempotencyKey = None
  OBVIOUS
<1>4. Begin(c, call)
  BY <1>1
<1> QED BY <1>2, <1>3, <1>4

\* Every step of the store keeps the types: one step of the proof per action.
\* The types are not inductive alone: a progress update that reads again must
\* find its row, which is part of SnapshotIsCurrent.
LEMMA TypeStep == TypeOK /\ SnapshotIsCurrent /\ [Next]_vars => TypeOK'
<1> SUFFICES ASSUME TypeOK, SnapshotIsCurrent, [Next]_vars PROVE TypeOK'
  OBVIOUS
<1>1. CASE Tick
  BY <1>1 DEF Tick, TypeOK
<1>2. ASSUME NEW o \in Ops, NEW i \in Intents, NEW k \in Keys \cup {None},
             NEW c \in Clients, Create(c, o, i, k)
      PROVE  TypeOK'
  BY <1>2, NewRowType DEF Create, TypeOK
<1>3. ASSUME NEW o \in Ops, NEW i \in Intents, NEW k \in Keys \cup {None},
             CreateReplay(o, i, k)
      PROVE  TypeOK'
  <2>1. Parked(ops[o]) \in Row
    BY <1>3, ExistingRow, ParkedRow DEF CreateReplay, Holds
  <2> QED BY <1>3, <2>1 DEF CreateReplay, TypeOK
<1>4. ASSUME NEW c \in Clients, BeginPoll(c) PROVE TypeOK'
  <2>1. PICK call \in Call : Begin(c, call) /\ call.kind = "get"
    BY <1>4, BeginPollOpens
  <2> QED BY <2>1, BeginType
<1>5. ASSUME NEW c \in Clients, BeginCall(c) PROVE TypeOK'
  <2>1. PICK call \in Call : /\ Begin(c, call)
                             /\ call.kind = "request" => call.challenge \in Challenges
    BY <1>5, BeginCallOpens
  <2> QED BY <2>1, BeginType
<1>6. ASSUME NEW c \in Clients, ReturnRead(c) PROVE TypeOK'
  BY <1>6 DEF ReturnRead, TypeOK
<1>7. ASSUME NEW c \in Clients, ParkOnRead(c) PROVE TypeOK'
  <2>1. Open(c) /\ Resolved(tx[c]) \in Row /\ Write(c, Resolved(tx[c]))
    BY <1>7, ParkingWrites DEF ParkOnRead
  <2> QED BY <1>7, <2>1, WriteShape DEF ParkOnRead, TypeOK
<1>8. ASSUME NEW c \in Clients, Replay(c) PROVE TypeOK'
  <2>1. CASE tx[c].expired
    <3>1. Open(c) /\ Resolved(tx[c]) \in Row /\ Write(c, Resolved(tx[c]))
      BY <1>8, <2>1, ParkingWrites DEF Replay
    <3> QED BY <1>8, <3>1, WriteShape DEF Replay, TypeOK
  <2>2. CASE ~tx[c].expired
    BY <1>8, <2>2 DEF Replay, TypeOK
  <2> QED BY <2>1, <2>2
<1>9. ASSUME NEW c \in Clients, CommitTransition(c) PROVE TypeOK'
  <2>1. tx[c].call \in Call /\ tx[c].call.op \in Ops
    BY <1>9, OpenTx DEF CommitTransition
  <2>2. executes' \in [Clients -> SUBSET Ops]
    BY <1>9, <2>1 DEF CommitTransition, Executing, TypeOK
  <2>3. acked' \in [Ops -> SUBSET Clients]
    BY <1>9, <2>1 DEF CommitTransition, TypeOK
  <2>4. ledger' \in [Challenges -> [cleared : Nat, consumed : Nat, denied : Nat]]
    BY <1>9, <2>1, BookedType DEF CommitTransition
  <2>5. /\ ops' \in [Ops -> Row \cup {Absent}]
        /\ tx' \in [Clients -> Tx \cup {Idle}]
    BY <1>9, CommitTransitionWrites, WriteShape
  <2> QED BY <1>9, <2>2, <2>3, <2>4, <2>5 DEF CommitTransition, TypeOK
<1>10. ASSUME NEW c \in Clients, CommitProgress(c) PROVE TypeOK'
  <2>1. tx[c].call \in Call /\ tx[c].call.op \in Ops
    BY <1>10, OpenTx DEF CommitProgress
  <2>2. acked' \in [Ops -> SUBSET Clients]
    BY <1>10, <2>1 DEF CommitProgress, TypeOK
  <2>3. ledger' \in [Challenges -> [cleared : Nat, consumed : Nat, denied : Nat]]
    BY <1>10, <2>1, BookedType DEF CommitProgress
  <2>4. /\ ops' \in [Ops -> Row \cup {Absent}]
        /\ tx' \in [Clients -> Tx \cup {Idle}]
    BY <1>10, CommitProgressWrites, WriteShape
  <2> QED BY <1>10, <2>2, <2>3, <2>4 DEF CommitProgress, TypeOK
<1>11. ASSUME NEW c \in Clients, RetryProgress(c) PROVE TypeOK'
  <2>1. /\ Open(c) /\ tx[c] \in Tx /\ tx[c].call \in Call /\ tx[c].attempt + 1 \in Nat
    BY <1>11, OpenTx DEF RetryProgress
  <2>2. tx[c].call.op \in Ops /\ ops[tx[c].call.op] \in Row
    BY <2>1 DEF TypeOK, SnapshotIsCurrent, Call
  <2>3. Read(tx[c].call, tx[c].attempt + 1) \in Tx
    BY <2>1, <2>2, ReadType
  <2> QED BY <1>11, <2>3 DEF RetryProgress, TypeOK
<1>12. ASSUME NEW c \in Clients, Abort(c) PROVE TypeOK'
  <2>1. tx[c].call.op \in Ops
    BY <1>12, OpenTx DEF Abort
  <2> QED BY <1>12, <2>1 DEF Abort, TypeOK
<1>13. CASE UNCHANGED vars
  BY <1>13 DEF vars, TypeOK
<1>14. \A c \in Clients \ Pollers : c \in Clients
  OBVIOUS
<1> QED
  BY <1>1, <1>2, <1>3, <1>4, <1>5, <1>6, <1>7, <1>8, <1>9, <1>10, <1>11, <1>12, <1>13,
     <1>14 DEF Next, Outcome

-----------------------------------------------------------------------------
(* Optimistic concurrency: the revision names the version of the row.      *)

\* What SnapshotIsCurrent says of one transaction.
Current(t, table) ==
  /\ table[t.call.op] # Absent
  /\ t.snap.revision <= table[t.call.op].revision
  /\ t.snap.revision = table[t.call.op].revision => t.snap = table[t.call.op]

\* A step that writes one row to a higher revision, and opens or closes
\* transactions whose snapshot is what the table holds, keeps snapshots current.
LEMMA HigherRevisionKeepsSnapshots ==
  ASSUME TypeOK, SnapshotIsCurrent, NEW o \in Ops, NEW row \in Row,
         Exists(o) => row.revision > ops[o].revision,
         ops' = [ops EXCEPT ![o] = row],
         \A c \in Clients : tx'[c] = tx[c] \/ tx'[c] = Idle
  PROVE  SnapshotIsCurrent'
<1> SUFFICES ASSUME NEW c \in Clients, tx'[c] # Idle PROVE Current(tx[c], ops') /\ tx'[c] = tx[c]
  BY DEF SnapshotIsCurrent, Current, Open
<1>1. tx'[c] = tx[c] /\ Open(c)
  BY DEF Open
<1>2. Current(tx[c], ops)
  BY <1>1 DEF SnapshotIsCurrent, Current
<1>3. tx[c].call.op \in Ops /\ tx[c].snap \in Row
  BY <1>1, OpenTx
<1>4. CASE tx[c].call.op # o
  <2>1. ops'[tx[c].call.op] = ops[tx[c].call.op]
    BY <1>3, <1>4 DEF TypeOK
  <2> QED BY <1>1, <1>2, <2>1 DEF Current
<1>5. CASE tx[c].call.op = o
  <2>1. ops'[o] = row /\ row # Absent
    BY AbsentIsNoRow DEF TypeOK
  <2>2. ops[o] \in Row /\ tx[c].snap.revision <= ops[o].revision
    BY <1>2, <1>5, ExistingRow DEF Current, Exists
  <2>3. tx[c].snap.revision \in Nat /\ ops[o].revision \in Nat /\ row.revision \in Nat
    BY <1>3, <2>2 DEF Row
  <2>4. row.revision > ops[o].revision
    BY <2>2, ExistingRow
  <2> QED BY <1>1, <1>5, <2>1, <2>2, <2>3, <2>4 DEF Current
<1> QED BY <1>4, <1>5

\* A step that leaves the table alone, and opens only transactions that have
\* just read it, keeps snapshots current.
LEMMA FreshReadKeepsSnapshots ==
  ASSUME TypeOK, SnapshotIsCurrent, ops' = ops,
         \A c \in Clients : tx'[c] = tx[c] \/ tx'[c] = Idle \/ Current(tx'[c], ops)
  PROVE  SnapshotIsCurrent'
  BY DEF SnapshotIsCurrent, Current, Open

\* A read is current.
LEMMA ReadIsCurrent ==
  ASSUME NEW call \in Call, ops[call.op] \in Row, NEW n \in Nat
  PROVE  Current(Read(call, n), ops)
<1>1. Read(call, n).call = call /\ Read(call, n).snap = ops[call.op]
  BY DEF Read
<1>2. ops[call.op].revision \in Nat
  BY DEF Row
<1> QED BY <1>1, <1>2, AbsentIsNoRow DEF Current

\* The write of an outcome whose compare-and-set held.
LEMMA WriteKeepsSnapshots ==
  ASSUME TypeOK, SnapshotIsCurrent, NEW c \in Clients, Open(c), CasHolds(tx[c]),
         NEW row \in Row, row.revision > tx[c].snap.revision, Write(c, row)
  PROVE  SnapshotIsCurrent'
<1>1. tx[c].call.op \in Ops
  BY OpenTx
<1>2. row.revision > ops[tx[c].call.op].revision
  BY DEF CasHolds
<1>3. ops' = [ops EXCEPT ![tx[c].call.op] = row]
  BY DEF Write
<1>4. \A d \in Clients : tx'[d] = tx[d] \/ tx'[d] = Idle
  BY WriteShape
<1> QED BY <1>1, <1>2, <1>3, <1>4, HigherRevisionKeepsSnapshots

\* Opening a call.
LEMMA BeginKeepsSnapshots ==
  ASSUME TypeOK, SnapshotIsCurrent, NEW c \in Clients, NEW call \in Call, Begin(c, call)
  PROVE  SnapshotIsCurrent'
<1>1. ops[call.op] \in Row
  BY ExistingRow DEF Begin, Call
<1>2. Current(Read(call, 1), ops)
  BY <1>1, ReadIsCurrent
<1>3. tx'[c] = Read(call, 1) /\ \A d \in Clients \ {c} : tx'[d] = tx[d]
  BY DEF Begin, TypeOK
<1> QED BY <1>2, <1>3, FreshReadKeepsSnapshots DEF Begin

\* Every step of the store keeps snapshots current.
LEMMA SnapshotStep == TypeOK /\ SnapshotIsCurrent /\ [Next]_vars => SnapshotIsCurrent'
<1> SUFFICES ASSUME TypeOK, SnapshotIsCurrent, [Next]_vars PROVE SnapshotIsCurrent'
  OBVIOUS
<1>1. CASE Tick
  BY <1>1, FreshReadKeepsSnapshots DEF Tick
<1>2. ASSUME NEW o \in Ops, NEW i \in Intents, NEW k \in Keys \cup {None},
             NEW c \in Clients, Create(c, o, i, k)
      PROVE  SnapshotIsCurrent'
  BY <1>2, NewRowType, HigherRevisionKeepsSnapshots DEF Create
<1>3. ASSUME NEW o \in Ops, NEW i \in Intents, NEW k \in Keys \cup {None},
             CreateReplay(o, i, k)
      PROVE  SnapshotIsCurrent'
  <2>1. ops[o] \in Row /\ ops[o].revision \in Nat
    BY <1>3, ExistingRow DEF CreateReplay, Holds, Row
  <2>2. Parked(ops[o]) \in Row /\ Parked(ops[o]).revision > ops[o].revision
    BY <2>1, ParkedRow
  <2> QED BY <1>3, <2>2, HigherRevisionKeepsSnapshots DEF CreateReplay
<1>4. ASSUME NEW c \in Clients, BeginPoll(c) PROVE SnapshotIsCurrent'
  BY <1>4, BeginPollOpens, BeginKeepsSnapshots
<1>5. ASSUME NEW c \in Clients, BeginCall(c) PROVE SnapshotIsCurrent'
  <2>1. PICK call \in Call : Begin(c, call)
    BY <1>5, BeginCallOpens
  <2> QED BY <2>1, BeginKeepsSnapshots
<1>6. ASSUME NEW c \in Clients, ReturnRead(c) PROVE SnapshotIsCurrent'
  BY <1>6, FreshReadKeepsSnapshots DEF ReturnRead, TypeOK
<1>7. ASSUME NEW c \in Clients, ParkOnRead(c) PROVE SnapshotIsCurrent'
  BY <1>7, ParkingWrites, WriteKeepsSnapshots DEF ParkOnRead
<1>8. ASSUME NEW c \in Clients, Replay(c) PROVE SnapshotIsCurrent'
  <2>1. CASE tx[c].expired
    BY <1>8, <2>1, ParkingWrites, WriteKeepsSnapshots DEF Replay
  <2>2. CASE ~tx[c].expired
    BY <1>8, <2>2, FreshReadKeepsSnapshots DEF Replay, TypeOK
  <2> QED BY <2>1, <2>2
<1>9. ASSUME NEW c \in Clients, CommitTransition(c) PROVE SnapshotIsCurrent'
  <2>1. CasHolds(tx[c])
    BY <1>9 DEF CommitTransition
  <2> QED BY <1>9, <2>1, CommitTransitionWrites, WriteKeepsSnapshots
<1>10. ASSUME NEW c \in Clients, CommitProgress(c) PROVE SnapshotIsCurrent'
  <2>1. CasHolds(tx[c])
    BY <1>10 DEF CommitProgress
  <2> QED BY <1>10, <2>1, CommitProgressWrites, WriteKeepsSnapshots
<1>11. ASSUME NEW c \in Clients, RetryProgress(c) PROVE SnapshotIsCurrent'
  <2>1. /\ tx[c].call \in Call /\ tx[c].attempt + 1 \in Nat
        /\ ops[tx[c].call.op] \in Row
    BY <1>11, OpenTx DEF RetryProgress, SnapshotIsCurrent, TypeOK
  <2>2. Current(Read(tx[c].call, tx[c].attempt + 1), ops)
    BY <2>1, ReadIsCurrent
  <2>3. /\ tx'[c] = Read(tx[c].call, tx[c].attempt + 1)
        /\ \A d \in Clients \ {c} : tx'[d] = tx[d]
    BY <1>11 DEF RetryProgress, TypeOK
  <2> QED BY <1>11, <2>2, <2>3, FreshReadKeepsSnapshots DEF RetryProgress
<1>12. ASSUME NEW c \in Clients, Abort(c) PROVE SnapshotIsCurrent'
  BY <1>12, FreshReadKeepsSnapshots DEF Abort, TypeOK
<1>13. CASE UNCHANGED vars
  BY <1>13, FreshReadKeepsSnapshots DEF vars
<1>14. \A c \in Clients \ Pollers : c \in Clients
  OBVIOUS
<1> QED
  BY <1>1, <1>2, <1>3, <1>4, <1>5, <1>6, <1>7, <1>8, <1>9, <1>10, <1>11, <1>12, <1>13,
     <1>14 DEF Next, Outcome

\* An empty store is typed and no transaction is open.
LEMMA InitTyped == Init => TypeOK /\ SnapshotIsCurrent
<1> SUFFICES ASSUME Init PROVE TypeOK /\ SnapshotIsCurrent
  OBVIOUS
<1>1. TypeOK
  BY DEF Init, TypeOK
<1>2. SnapshotIsCurrent
  BY DEF Init, SnapshotIsCurrent, Open
<1> QED BY <1>1, <1>2

\* Rows, transactions and histories of every instance of the store keep the
\* shapes the code gives them.
THEOREM TypeCorrect == Spec => []TypeOK
<1>1. TypeOK /\ SnapshotIsCurrent /\ [Next]_vars => TypeOK' /\ SnapshotIsCurrent'
  BY TypeStep, SnapshotStep
<1> QED BY <1>1, InitTyped, PTL DEF Spec

\* A compare-and-set on state and revision that holds proves that the row is
\* still the one the caller read, for any number of concurrent requests.
THEOREM SnapshotsCurrent == Spec => []SnapshotIsCurrent
<1>1. TypeOK /\ SnapshotIsCurrent /\ [Next]_vars => TypeOK' /\ SnapshotIsCurrent'
  BY TypeStep, SnapshotStep
<1> QED BY <1>1, InitTyped, PTL DEF Spec

-----------------------------------------------------------------------------
(* How a row can change.                                                   *)

\* A call that found an abandoned claim holds the snapshot of an expired claim:
\* time only passes, so the verdict of the read is still right at the write.
VerdictStands ==
  \A c \in Clients : Open(c) /\ tx[c].expired => ClaimExpired(tx[c].snap, clock)

\* The inductive invariant of the theorems about rows.
RowInv == TypeOK /\ SnapshotIsCurrent /\ VerdictStands

\* An expired claim stays expired.
LEMMA ExpiredStaysExpired ==
  ASSUME TypeOK, [Next]_vars, NEW row, row \in Row, ClaimExpired(row, clock)
  PROVE  ClaimExpired(row, clock')
<1>1. clock' = clock \/ clock' = clock + 1
  <2>1. ASSUME NEW c \in Clients, BeginPoll(c) \/ BeginCall(c) PROVE clock' = clock
    <3>1. PICK call \in Call : Begin(c, call)
      BY <2>1, BeginPollOpens, BeginCallOpens
    <3> QED BY <3>1 DEF Begin
  <2>2. ASSUME NEW c \in Clients, Outcome(c) PROVE clock' = clock
    BY <2>2 DEF Outcome, ReturnRead, ParkOnRead, Replay, CommitTransition, CommitProgress,
                RetryProgress, Abort
  <2> QED BY <2>1, <2>2 DEF Next, Tick, Create, CreateReplay, vars
<1>2. clock \in Nat /\ row.deadline \in Nat \cup {None}
  BY DEF TypeOK, Row
<1> QED BY <1>1, <1>2 DEF ClaimExpired

\* A transaction is opened by a read of the table, or was open before.
LEMMA TransactionsAreReads ==
  ASSUME TypeOK, [Next]_vars, NEW c \in Clients
  PROVE  \/ tx'[c] = tx[c] \/ tx'[c] = Idle
         \/ \E call \in Call, n \in Nat : tx'[c] = Read(call, n)
<1> DEFINE Opens(d) == \/ tx'[d] = tx[d] \/ tx'[d] = Idle
                       \/ \E call \in Call, n \in Nat : tx'[d] = Read(call, n)
<1>1. CASE tx' = tx
  BY <1>1
<1>2. ASSUME NEW d \in Clients, NEW call \in Call, Begin(d, call) PROVE Opens(c)
  BY <1>2 DEF Begin, TypeOK
<1>3. ASSUME NEW d \in Clients, BeginPoll(d) PROVE Opens(c)
  BY <1>2, <1>3, BeginPollOpens
<1>4. ASSUME NEW d \in Clients, BeginCall(d) PROVE Opens(c)
  <2>1. PICK call \in Call : Begin(d, call)
    BY <1>4, BeginCallOpens
  <2> QED BY <1>2, <2>1
<1>5. ASSUME NEW d \in Clients, RetryProgress(d) PROVE Opens(c)
  <2>1. tx[d].call \in Call /\ tx[d].attempt + 1 \in Nat
    BY <1>5, OpenTx DEF RetryProgress
  <2> QED BY <1>5, <2>1 DEF RetryProgress, TypeOK
<1>6. ASSUME NEW d \in Clients, tx' = [tx EXCEPT ![d] = Idle] PROVE Opens(c)
  BY <1>6 DEF TypeOK
<1>7. \A d \in Clients : ReturnRead(d) \/ ParkOnRead(d) \/ Replay(d) \/ CommitTransition(d)
                           \/ CommitProgress(d) \/ Abort(d)
        => tx' = [tx EXCEPT ![d] = Idle]
  BY DEF ReturnRead, ParkOnRead, Replay, CommitTransition, CommitProgress, Abort, Write
<1>8. (Tick \/ UNCHANGED vars) => tx' = tx
  BY DEF Tick, vars
<1>9. \A o \in Ops, i \in Intents, k \in Keys \cup {None}, d \in Clients :
        CreateReplay(o, i, k) \/ Create(d, o, i, k) => tx' = tx
  BY DEF CreateReplay, Create
<1>10. \A o \in Ops, i \in Intents, k \in Keys \cup {None} : CreateReplay(o, i, k) => tx' = tx
  BY DEF CreateReplay
<1> HIDE DEF Opens
<1>11. Opens(c)
  BY <1>1, <1>3, <1>4, <1>5, <1>6, <1>7, <1>8, <1>9, <1>10 DEF Next, Outcome, Opens
<1> QED BY <1>11 DEF Opens

\* The verdict of a read stands until its transaction ends.
LEMMA VerdictStep == RowInv /\ [Next]_vars => VerdictStands'
<1> SUFFICES ASSUME RowInv, [Next]_vars, NEW c \in Clients, tx'[c] # Idle, tx'[c].expired
             PROVE  ClaimExpired(tx'[c].snap, clock')
  BY DEF VerdictStands, Open
<1>1. TypeOK /\ SnapshotIsCurrent /\ TypeOK'
  BY TypeStep DEF RowInv
<1>2. tx'[c].snap \in Row
  BY <1>1 DEF TypeOK, Tx
<1>3. ClaimExpired(tx'[c].snap, clock)
  <2>1. CASE tx'[c] = tx[c]
    BY <2>1 DEF RowInv, VerdictStands, Open
  <2>2. CASE \E call \in Call, n \in Nat : tx'[c] = Read(call, n)
    BY <2>2 DEF Read
  <2> QED BY <1>1, <2>1, <2>2, TransactionsAreReads
<1> QED BY <1>1, <1>2, <1>3, ExpiredStaysExpired

\* The row a committed call stores.
CommittedBy(c, o) ==
  /\ Open(c)
  /\ tx[c].call.op = o
  /\ tx[c].snap = ops[o]
  /\ tx'[c] = Idle
  /\ \/ CommitTransition(c) /\ ops'[o] = Transitioned(c, tx[c].call, Resolved(tx[c]), clock)
     \/ CommitProgress(c) /\ ops'[o] = Merged(c, tx[c].call, Resolved(tx[c]))

\* A compare-and-set that holds compared the whole row.
LEMMA CasComparesRow ==
  ASSUME RowInv, NEW c \in Clients, Open(c), CasHolds(tx[c])
  PROVE  /\ tx[c].snap = ops[tx[c].call.op]
         /\ tx[c].expired => ClaimExpired(ops[tx[c].call.op], clock)
  BY DEF RowInv, SnapshotIsCurrent, VerdictStands, CasHolds

\* The ways a row can change: a free ID gets a new pending row under a free key,
\* an expired claim is parked, or a call commits on the row it read.
Move(o) ==
  \/ ops'[o] = ops[o]
  \/ /\ ops[o] = Absent
     /\ \E i \in Intents, k \in Keys \cup {None} : ops'[o] = NewRow(i, k) /\ ~KeyTaken(k)
     /\ \A p \in Ops \ {o} : ops'[p] = ops[p]
  \/ ops[o] \in Row /\ ClaimExpired(ops[o], clock) /\ ops'[o] = Parked(ops[o])
  \/ \E c \in Clients : CommittedBy(c, o)

\* No step changes a row in any other way.
LEMMA RowMoves ==
  ASSUME RowInv, [Next]_vars, NEW o \in Ops
  PROVE  Move(o)
<1>t. TypeOK
  BY DEF RowInv
<1>1. ops' = ops => Move(o)
  BY DEF Move
<1>2. ASSUME NEW p \in Ops, NEW i \in Intents, NEW k \in Keys \cup {None},
             NEW c \in Clients, Create(c, p, i, k)
      PROVE  Move(o)
  BY <1>2, <1>t DEF Create, TypeOK, Exists, Move
<1>3. ASSUME NEW p \in Ops, NEW i \in Intents, NEW k \in Keys \cup {None},
             CreateReplay(p, i, k)
      PROVE  Move(o)
  <2>1. ops[p] \in Row
    BY <1>3, <1>t, ExistingRow DEF CreateReplay, Holds
  <2> QED BY <1>3, <1>t, <2>1 DEF CreateReplay, TypeOK, Move
<1>4. ASSUME NEW c \in Clients, Open(c), CasHolds(tx[c]), tx[c].expired,
             Write(c, Resolved(tx[c]))
      PROVE  Move(o)
  <2>1. tx[c].call.op \in Ops /\ tx[c].snap \in Row
    BY <1>4, <1>t, OpenTx
  <2>2. /\ tx[c].snap = ops[tx[c].call.op]
        /\ ClaimExpired(ops[tx[c].call.op], clock)
    BY <1>4, CasComparesRow
  <2>3. /\ ops'[tx[c].call.op] = Parked(ops[tx[c].call.op])
        /\ \A p \in Ops \ {tx[c].call.op} : ops'[p] = ops[p]
    BY <1>4, <1>t, <2>1, <2>2 DEF Resolved, Write, TypeOK
  <2> QED BY <2>1, <2>2, <2>3 DEF Move
<1>5. ASSUME NEW c \in Clients, ParkOnRead(c) PROVE Move(o)
  BY <1>4, <1>5 DEF ParkOnRead
<1>6. ASSUME NEW c \in Clients, Replay(c) PROVE Move(o)
  <2>1. CASE tx[c].expired
    BY <1>4, <1>6, <2>1 DEF Replay
  <2>2. CASE ~tx[c].expired
    BY <1>1, <1>6, <2>2 DEF Replay
  <2> QED BY <2>1, <2>2
<1>7. ASSUME NEW c \in Clients, CommitTransition(c) \/ CommitProgress(c) PROVE Move(o)
  <2>1. Open(c) /\ CasHolds(tx[c])
    BY <1>7 DEF CommitTransition, CommitProgress
  <2>2. tx[c].call.op \in Ops /\ tx[c].snap = ops[tx[c].call.op]
    BY <2>1, <1>t, CasComparesRow, OpenTx
  <2>3. tx[c].call.op # o => ops'[o] = ops[o]
    BY <1>7, <1>t, <2>1, CommitTransitionWrites, CommitProgressWrites, WriteShape
  <2>4. tx[c].call.op = o => CommittedBy(c, o)
    BY <1>7, <1>t, <2>1, <2>2, CommitTransitionWrites, CommitProgressWrites, WriteShape
       DEF CommittedBy
  <2> QED BY <2>3, <2>4 DEF Move
<1>8. ASSUME NEW c \in Clients, BeginPoll(c) \/ BeginCall(c) PROVE Move(o)
  <2>1. PICK call \in Call : Begin(c, call)
    BY <1>8, <1>t, BeginPollOpens, BeginCallOpens
  <2> QED BY <1>1, <2>1 DEF Begin
<1>9. ASSUME NEW c \in Clients, ReturnRead(c) \/ RetryProgress(c) \/ Abort(c) PROVE Move(o)
  BY <1>1, <1>9 DEF ReturnRead, RetryProgress, Abort
<1>10. Tick \/ UNCHANGED vars => ops' = ops
  BY DEF Tick, vars
<1>11. ASSUME NEW c \in Clients, Outcome(c) PROVE Move(o)
  BY <1>5, <1>6, <1>7, <1>9, <1>11 DEF Outcome
<1> QED BY <1>1, <1>2, <1>3, <1>8, <1>10, <1>11 DEF Next

\* The invariant the theorems below rest on.
LEMMA RowInvariant == Spec => []RowInv
<1>1. Init => RowInv
  <2>1. Init => VerdictStands
    BY DEF Init, VerdictStands, Open
  <2> QED BY <2>1, InitTyped DEF RowInv
<1>2. RowInv /\ [Next]_vars => RowInv'
  BY TypeStep, SnapshotStep, VerdictStep DEF RowInv
<1> QED BY <1>1, <1>2, PTL DEF Spec

\* The row a commit stores, told from the stored row it was computed from.
LEMMA CommitOnRow ==
  ASSUME RowInv, NEW o \in Ops, NEW c \in Clients, CommittedBy(c, o)
  PROVE  /\ ops[o] \in Row /\ ops'[o] \in Row
         /\ tx[c] \in Tx /\ tx[c].call \in Call
         /\ Resolved(tx[c]) \in Row
         /\ Resolved(tx[c]).state \notin Terminal
         /\ tx[c].expired => ClaimExpired(ops[o], clock)
         /\ ~tx[c].expired => Resolved(tx[c]) = ops[o]
         /\ ops'[o].key = ops[o].key
         /\ ops'[o].audits = ops[o].audits \cup {c}
         /\ ops'[o].evidence = MergeEvidence(ops[o].evidence, EvidencePatch(tx[c].call))
         /\ ops'[o].abandoned = Resolved(tx[c]).abandoned
<1>1. TypeOK /\ VerdictStands /\ Open(c) /\ tx[c].snap = ops[o]
  BY DEF RowInv, CommittedBy
<1>2. tx[c] \in Tx /\ tx[c].call \in Call /\ tx[c].snap \in Row
  BY <1>1, OpenTx
<1>3. /\ Resolved(tx[c]) \in Row
      /\ Resolved(tx[c]).evidence = ops[o].evidence
      /\ Resolved(tx[c]).audits = ops[o].audits
      /\ Resolved(tx[c]).key = ops[o].key
      /\ ~tx[c].expired => Resolved(tx[c]) = ops[o]
  BY <1>1, <1>2, ResolvedRow
<1>4. tx[c].expired => ClaimExpired(ops[o], clock)
  BY <1>1 DEF VerdictStands
<1>5. CASE /\ CommitTransition(c)
           /\ ops'[o] = Transitioned(c, tx[c].call, Resolved(tx[c]), clock)
  <2>1. tx[c].call.to \in States /\ clock \in Nat
    BY <1>1, <1>5, CommitTransitionWrites DEF TypeOK
  <2>2. Resolved(tx[c]).state \notin Terminal
    BY <1>5 DEF CommitTransition, TransitionGate
  <2> QED BY <1>1, <1>2, <1>3, <1>4, <1>5, <2>1, <2>2, TransitionedRow
<1>6. CASE /\ CommitProgress(c)
           /\ ops'[o] = Merged(c, tx[c].call, Resolved(tx[c]))
  <2>1. Resolved(tx[c]).state \notin Terminal
    BY <1>6 DEF CommitProgress, ProgressGate
  <2> QED BY <1>1, <1>2, <1>3, <1>4, <1>6, <2>1, MergedRow
<1> QED BY <1>5, <1>6 DEF CommittedBy

-----------------------------------------------------------------------------
(* The properties of rows.                                                 *)

\* A running Operation carries an execution deadline, and no other state does,
\* whatever calls interleave: it is what makes abandonment detectable by reading.
THEOREM RunningHasClaim == Spec => []ClaimIffRunning
<1>1. Init => ClaimIffRunning
  BY DEF Init, ClaimIffRunning, Exists
<1>2. RowInv /\ ClaimIffRunning /\ [Next]_vars => ClaimIffRunning'
  <2> SUFFICES ASSUME RowInv, ClaimIffRunning, [Next]_vars, NEW o \in Ops, ops'[o] # Absent
               PROVE  ops'[o].state = "running" <=> ops'[o].deadline # None
    BY DEF ClaimIffRunning, Exists
  <2>1. CASE ops'[o] = ops[o]
    BY <2>1 DEF ClaimIffRunning, Exists
  <2>2. CASE \E i \in Intents, k \in Keys \cup {None} : ops'[o] = NewRow(i, k)
    BY <2>2 DEF NewRow
  <2>3. CASE ops[o] \in Row /\ ops'[o] = Parked(ops[o])
    BY <2>3, ParkedRow
  <2>4. ASSUME NEW c \in Clients, CommittedBy(c, o)
        PROVE  ops'[o].state = "running" <=> ops'[o].deadline # None
    <3> DEFINE row == Resolved(tx[c])
    <3>1. row \in Row /\ tx[c] \in Tx /\ tx[c].call \in Call /\ clock \in Nat
      BY <2>4, CommitOnRow DEF RowInv, TypeOK
    <3>2. row.state = "running" <=> row.deadline # None
      <4>1. CASE tx[c].expired
        BY <3>1, <4>1, ResolvedRow
      <4>2. CASE ~tx[c].expired
        BY <2>4, <4>2, CommitOnRow, AbsentIsNoRow DEF ClaimIffRunning, Exists
      <4> QED BY <4>1, <4>2
    <3> HIDE DEF row
    <3>3. CASE CommitTransition(c) /\ ops'[o] = Transitioned(c, tx[c].call, row, clock)
      <4>1. tx[c].call.to \in States
        BY <3>3, CommitTransitionWrites DEF RowInv
      <4>2. /\ ops'[o].state = tx[c].call.to
            /\ ops'[o].deadline = NextDeadline(row, tx[c].call.to, clock)
        BY <3>1, <3>3, <4>1, TransitionedRow
      <4>3. clock + TTL # None
        BY <3>1, StoreAssumption
      <4> QED BY <3>2, <4>2, <4>3 DEF NextDeadline
    <3>4. CASE ops'[o] = Merged(c, tx[c].call, row)
      BY <3>1, <3>2, <3>4, MergedRow
    <3> QED BY <2>4, <3>3, <3>4 DEF CommittedBy, row
  <2> QED BY <2>1, <2>2, <2>3, <2>4, RowMoves DEF Move
<1> QED BY <1>1, <1>2, RowInvariant, PTL DEF Spec

\* No acknowledged audit reference is lost, however many requests merge into the
\* same row: a lost compare-and-set makes the caller read and merge again.
THEOREM AuditsKept == Spec => []AcknowledgedAuditsKept
<1>1. Init => AcknowledgedAuditsKept
  BY DEF Init, AcknowledgedAuditsKept
<1>2. RowInv /\ AcknowledgedAuditsKept /\ [Next]_vars => AcknowledgedAuditsKept'
  <2> SUFFICES ASSUME RowInv, AcknowledgedAuditsKept, [Next]_vars, NEW o \in Ops,
                      acked'[o] # {}
               PROVE  ops'[o] # Absent /\ acked'[o] \subseteq ops'[o].audits
    BY DEF AcknowledgedAuditsKept, Exists
  <2>t. TypeOK
    BY DEF RowInv
  <2>1. \/ acked'[o] = acked[o]
        \/ \E c \in Clients : CommittedBy(c, o) /\ acked'[o] = acked[o] \cup {c}
    <3> DEFINE Ack == \/ acked'[o] = acked[o]
                      \/ \E c \in Clients :
                           CommittedBy(c, o) /\ acked'[o] = acked[o] \cup {c}
    <3>1. acked' = acked => Ack
      OBVIOUS
    <3>2. ASSUME NEW c \in Clients, CommitTransition(c) \/ CommitProgress(c) PROVE Ack
      <4>1. /\ Open(c) /\ CasHolds(tx[c])
            /\ acked' = [acked EXCEPT ![tx[c].call.op] = @ \cup {c}]
        BY <3>2 DEF CommitTransition, CommitProgress
      <4>2. tx[c].call.op = o => CommittedBy(c, o)
        BY <3>2, <2>t, <4>1, CasComparesRow, CommitTransitionWrites, CommitProgressWrites,
           WriteShape DEF CommittedBy
      <4> QED BY <4>1, <4>2, <2>t DEF TypeOK
    <3>3. ASSUME NEW c \in Clients, BeginPoll(c) \/ BeginCall(c) PROVE Ack
      <4>1. PICK call \in Call : Begin(c, call)
        BY <3>3, <2>t, BeginPollOpens, BeginCallOpens
      <4> QED BY <4>1 DEF Begin
    <3>4. ASSUME NEW c \in Clients, Outcome(c) PROVE Ack
      BY <3>1, <3>2, <3>4 DEF Outcome, ReturnRead, ParkOnRead, Replay, RetryProgress, Abort
    <3>5. Tick \/ UNCHANGED vars => Ack
      BY <3>1 DEF Tick, vars
    <3>6. ASSUME NEW p \in Ops, NEW i \in Intents, NEW k \in Keys \cup {None}
          PROVE  /\ CreateReplay(p, i, k) => Ack
                 /\ \A c \in Clients : Create(c, p, i, k) => Ack
      BY <3>1 DEF Create, CreateReplay
    <3> HIDE DEF Ack
    <3>7. Ack
      BY <3>3, <3>4, <3>5, <3>6 DEF Next
    <3> QED BY <3>7 DEF Ack
  <2>2. CASE acked'[o] = acked[o]
    <3>1. Exists(o) /\ acked[o] \subseteq ops[o].audits
      BY <2>2 DEF AcknowledgedAuditsKept
    <3>2. ops'[o] # Absent /\ ops[o].audits \subseteq ops'[o].audits
      <4>1. CASE ops[o] \in Row /\ ops'[o] = Parked(ops[o])
        BY <4>1, ParkedRow, AbsentIsNoRow
      <4>2. CASE \E c \in Clients : CommittedBy(c, o)
        BY <4>2, CommitOnRow, AbsentIsNoRow
      <4> QED BY <3>1, <4>1, <4>2, RowMoves DEF Move, Exists
    <3> QED BY <2>2, <3>1, <3>2
  <2>3. ASSUME NEW c \in Clients, CommittedBy(c, o), acked'[o] = acked[o] \cup {c}
        PROVE  ops'[o] # Absent /\ acked'[o] \subseteq ops'[o].audits
    <3>1. acked[o] \subseteq ops[o].audits
      BY DEF AcknowledgedAuditsKept
    <3> QED BY <2>3, <3>1, CommitOnRow, AbsentIsNoRow
  <2> QED BY <2>1, <2>2, <2>3
<1> QED BY <1>1, <1>2, RowInvariant, PTL DEF Spec

\* A terminal Operation is never written again by any call, however stale.
THEOREM TerminalRowsAreFinal == Spec => TerminalIsFinal
<1>1. RowInv /\ [Next]_vars
        => \A o \in Ops : Exists(o) /\ ops[o].state \in Terminal => ops'[o] = ops[o]
  <2> SUFFICES ASSUME RowInv, [Next]_vars, NEW o \in Ops, Exists(o), ops[o].state \in Terminal
               PROVE  ops'[o] = ops[o]
    OBVIOUS
  <2>1. ~ClaimExpired(ops[o], clock)
    BY DEF ClaimExpired, Terminal
  <2>2. ASSUME NEW c \in Clients, CommittedBy(c, o) PROVE FALSE
    BY <2>1, <2>2, CommitOnRow
  <2> QED BY <2>1, <2>2, RowMoves DEF Move, Exists
<1> QED BY <1>1, RowInvariant, PTL DEF Spec, TerminalIsFinal

\* A claim that has not expired is ended or renewed only by a call that asked for it
\* and read it: a reader whose verdict is about an earlier claim of the Operation
\* loses its compare-and-set, also when an earlier claim was parked already.
THEOREM LiveClaimsEndByTheirCalls == Spec => LiveClaimEndsByItsCall
<1>1. RowInv /\ [Next]_vars
        => \A o \in Ops :
             /\ Exists(o) /\ ops[o].state = "running" /\ ~ClaimExpired(ops[o], clock)
             /\ ops'[o].state # "running" \/ ops'[o].deadline # ops[o].deadline
             => \E c \in Clients :
                  /\ Open(c) /\ tx[c].call.op = o /\ tx'[c] = Idle
                  /\ tx[c].snap = ops[o] /\ ~tx[c].expired
                  /\ tx[c].call.kind \in TransitionKinds
                  /\ ops'[o].state = tx[c].call.to
  <2> SUFFICES ASSUME RowInv, [Next]_vars, NEW o \in Ops, Exists(o), ops[o].state = "running",
                      ~ClaimExpired(ops[o], clock),
                      ops'[o].state # "running" \/ ops'[o].deadline # ops[o].deadline
               PROVE  \E c \in Clients :
                        /\ Open(c) /\ tx[c].call.op = o /\ tx'[c] = Idle
                        /\ tx[c].snap = ops[o] /\ ~tx[c].expired
                        /\ tx[c].call.kind \in TransitionKinds
                        /\ ops'[o].state = tx[c].call.to
    OBVIOUS
  <2>1. PICK c \in Clients : CommittedBy(c, o)
    BY RowMoves DEF Move, Exists
  <2>2. /\ Open(c) /\ tx[c].call.op = o /\ tx'[c] = Idle /\ tx[c].snap = ops[o]
        /\ ~tx[c].expired /\ Resolved(tx[c]) = ops[o]
        /\ tx[c].call \in Call /\ ops[o] \in Row
    BY <2>1, CommitOnRow DEF CommittedBy
  <2>3. CASE CommitProgress(c) /\ ops'[o] = Merged(c, tx[c].call, Resolved(tx[c]))
    <3>1. ops'[o].state = ops[o].state /\ ops'[o].deadline = ops[o].deadline
      BY <2>2, <2>3, MergedRow
    <3> QED BY <3>1
  <2>4. CASE /\ CommitTransition(c)
             /\ ops'[o] = Transitioned(c, tx[c].call, Resolved(tx[c]), clock)
    <3>1. tx[c].call.to \in States /\ clock \in Nat
      BY <2>4, CommitTransitionWrites DEF RowInv, TypeOK
    <3>2. ops'[o].state = tx[c].call.to
      BY <2>2, <2>4, <3>1, TransitionedRow
    <3> QED BY <2>2, <2>4, <3>2 DEF CommitTransition
  <2> QED BY <2>1, <2>3, <2>4 DEF CommittedBy
<1> QED BY <1>1, RowInvariant, PTL DEF Spec, LiveClaimEndsByItsCall

-----------------------------------------------------------------------------
(* OperationStore implements OperationLifecycle.                           *)

\* Every step writes at most one row of the table.
LEMMA OneRowPerStep ==
  ASSUME TypeOK, [Next]_vars, ops' # ops
  PROVE  \E o \in Ops : ops' = [ops EXCEPT ![o] = ops'[o]]
<1> DEFINE One == \E o \in Ops : ops' = [ops EXCEPT ![o] = ops'[o]]
<1>1. ASSUME NEW o \in Ops, NEW row, ops' = [ops EXCEPT ![o] = row] PROVE One
  <2>1. ops'[o] = row
    BY <1>1 DEF TypeOK
  <2> QED BY <1>1, <2>1
<1>2. ASSUME NEW c \in Clients, NEW row, Open(c), Write(c, row) PROVE One
  <2>1. tx[c].call.op \in Ops
    BY <1>2, OpenTx
  <2> QED BY <1>1, <1>2, <2>1 DEF Write
<1>3. ASSUME NEW c \in Clients, Outcome(c) PROVE One
  <2>1. CASE ParkOnRead(c)
    BY <1>2, <2>1 DEF ParkOnRead
  <2>2. CASE Replay(c)
    BY <1>2, <2>2 DEF Replay
  <2>3. CASE CommitTransition(c)
    BY <1>2, <2>3 DEF CommitTransition
  <2>4. CASE CommitProgress(c)
    BY <1>2, <2>4 DEF CommitProgress
  <2>5. CASE ReturnRead(c) \/ RetryProgress(c) \/ Abort(c)
    BY <2>5 DEF ReturnRead, RetryProgress, Abort
  <2> QED BY <1>3, <2>1, <2>2, <2>3, <2>4, <2>5 DEF Outcome
<1>4. ASSUME NEW p \in Ops, NEW i \in Intents, NEW k \in Keys \cup {None}
      PROVE  /\ CreateReplay(p, i, k) => One
             /\ \A c \in Clients : Create(c, p, i, k) => One
  BY <1>1 DEF Create, CreateReplay
<1>5. ASSUME NEW c \in Clients, BeginPoll(c) \/ BeginCall(c) PROVE FALSE
  <2>1. PICK call \in Call : Begin(c, call)
    BY <1>5, BeginPollOpens, BeginCallOpens
  <2> QED BY <2>1 DEF Begin
<1>6. ~Tick /\ ~UNCHANGED vars
  BY DEF Tick, vars
<1> HIDE DEF One
<1>7. One
  BY <1>3, <1>4, <1>5, <1>6 DEF Next
<1> QED BY <1>7 DEF One

\* The state of a row stays, starts at "pending" or moves along one arm: parking
\* and a resumption or cancellation of what was parked add up to one arm too.
LEMMA StateMoves ==
  ASSUME RowInv, [Next]_vars, NEW o \in Ops
  PROVE  \/ ops'[o].state = ops[o].state
         \/ ops[o].state = "absent" /\ ops'[o].state = "pending"
         \/ ops[o].state \in States /\ ops'[o].state \in Allowed[ops[o].state]
<1>1. CASE ops[o] = Absent /\ \E i \in Intents, k \in Keys \cup {None} : ops'[o] = NewRow(i, k)
  BY <1>1 DEF Absent, NewRow
<1>2. CASE ops[o] \in Row /\ ClaimExpired(ops[o], clock) /\ ops'[o] = Parked(ops[o])
  BY <1>2, ParkedRow DEF ClaimExpired, Allowed, States
<1>3. ASSUME NEW c \in Clients, CommittedBy(c, o)
      PROVE  \/ ops'[o].state = ops[o].state
             \/ ops[o].state \in States /\ ops'[o].state \in Allowed[ops[o].state]
  <2> DEFINE t == tx[c]
             seen == Resolved(tx[c]).state
  <2>1. /\ ops[o] \in Row /\ t.call \in Call /\ Resolved(t) \in Row
        /\ t.expired => ClaimExpired(ops[o], clock)
        /\ ~t.expired => Resolved(t) = ops[o]
    BY <1>3, CommitOnRow
  <2>2. ops[o].state \in States
    BY <2>1 DEF Row
  <2>3. t.expired => ops[o].state = "running" /\ seen = "incomplete"
    <3>1. t.snap \in Row
      BY <1>3, <2>1 DEF CommittedBy
    <3> QED BY <2>1, <3>1, ParkedRow DEF Resolved, ClaimExpired
  <2>4. ops'[o].state = seen \/ ops'[o].state \in Allowed[seen]
    <3>1. CASE /\ CommitTransition(c)
               /\ ops'[o] = Transitioned(c, t.call, Resolved(t), clock)
      <4>1. t.call.to \in States /\ clock \in Nat
        BY <1>3, <3>1, CommitTransitionWrites DEF RowInv, TypeOK, CommittedBy
      <4>2. IsTransitionAllowed(seen, t.call.to)
        BY <3>1 DEF CommitTransition, TransitionGate
      <4>3. ops'[o].state = t.call.to
        BY <2>1, <3>1, <4>1, TransitionedRow
      <4> QED BY <4>2, <4>3 DEF IsTransitionAllowed
    <3>2. CASE /\ CommitProgress(c)
               /\ ops'[o] = Merged(c, t.call, Resolved(t))
      BY <2>1, <3>2, MergedRow
    <3> QED BY <1>3, <3>1, <3>2 DEF CommittedBy
  <2>5. CASE t.expired
    BY <2>2, <2>3, <2>4, <2>5 DEF Allowed
  <2>6. CASE ~t.expired
    BY <2>1, <2>2, <2>4, <2>6
  <2> QED BY <2>5, <2>6
<1> QED BY <1>1, <1>2, <1>3, RowMoves DEF Move

\* The store, with everything it interleaves, is the nine-state machine of its
\* documentation to anybody who watches the states.
THEOREM StoreImplementsLifecycle == Spec => ImplementsLifecycle
<1> DEFINE seen == [o \in Ops |-> ops[o].state]
<1>1. Init => Lifecycle!Init
  BY DEF Init, Lifecycle!Init, Absent
<1>2. RowInv /\ [Next]_vars => [Lifecycle!Next]_seen
  <2> SUFFICES ASSUME RowInv, [Next]_vars, seen' # seen
               PROVE  Lifecycle!Next
    OBVIOUS
  <2>1. ops \in [Ops -> Row \cup {Absent}]
    BY DEF RowInv, TypeOK
  <2>2. PICK o \in Ops : ops' = [ops EXCEPT ![o] = ops'[o]]
    BY OneRowPerStep DEF RowInv
  <2>3. seen' = [seen EXCEPT ![o] = ops'[o].state]
    BY <2>1, <2>2
  <2>4. ops'[o].state # ops[o].state
    BY <2>3
  <2>5. CASE ops[o].state = "absent" /\ ops'[o].state = "pending"
    BY <2>3, <2>5 DEF Lifecycle!Next, Lifecycle!Create
  <2>6. CASE ops[o].state \in States /\ ops'[o].state \in Allowed[ops[o].state]
    BY <2>3, <2>6 DEF Lifecycle!Next, Lifecycle!Move, Lifecycle!States, Lifecycle!Allowed,
       States, Allowed
  <2> QED BY <2>4, <2>5, <2>6, StateMoves
<1> QED BY <1>1, <1>2, RowInvariant, PTL DEF Spec, ImplementsLifecycle, Lifecycle!Spec

-----------------------------------------------------------------------------
(* Exact-once evidence.                                                    *)

NoOutcome == [cleared |-> 0, consumed |-> 0, denied |-> 0]

RowHolds(o, h) == ops[o] # Absent /\ ops[o].evidence.id = h

\* Nothing happened to h yet, and no row holds it.
Unheard(h) == ledger[h] = NoOutcome /\ \A o \in Ops : ~RowHolds(o, h)

\* A call of a challenge names one that was issued, a denial cancels, every call asks
\* for a state its function asks for, and only the mutations that take a key have one.
CallFits(c) ==
  Open(c) =>
    /\ tx[c].call.kind \in ChallengeKinds => tx[c].call.challenge \in issued
    /\ tx[c].call.kind \notin ChallengeKinds => tx[c].call.challenge = None
    /\ tx[c].call.kind = "deny" => tx[c].call.to = "canceled"
    /\ tx[c].call.to \in NextStates(tx[c].call.kind)
    /\ tx[c].call.idempotencyKey # None => tx[c].call.kind \in KeyedKinds

Requesting(c, h) == Open(c) /\ tx[c].call.kind = "request" /\ tx[c].call.challenge = h

\* A challenge that is about to be stored was never stored, and by nobody else will be.
RequestIsFresh(c) ==
  \A h \in Challenges : Requesting(c, h) =>
    Unheard(h) /\ \A d \in Clients \ {c} : ~Requesting(d, h)

HeldOnce == \A o, p \in Ops, h \in Challenges : RowHolds(o, h) /\ RowHolds(p, h) => o = p

Bit(flag) == IF flag THEN 1 ELSE 0

\* The flags of the evidence in a row are its ledger, and a denial has canceled the row.
RowBooked(o) ==
  \A h \in Challenges : RowHolds(o, h) =>
    /\ ledger[h].cleared = Bit(ops[o].evidence.cleared)
    /\ ledger[h].consumed = Bit(ops[o].evidence.consumed)
    /\ ops[o].evidence.consumed => ops[o].evidence.cleared
    /\ ledger[h].denied # 0 => ops[o].state = "canceled"

CallsHold ==
  /\ \A c \in Clients : CallFits(c) /\ RequestIsFresh(c)
  /\ \A h \in Challenges \ issued : Unheard(h)

RowsHold == HeldOnce /\ (\A o \in Ops : RowBooked(o)) /\ EvidenceExactOnce

\* What a step does to a row when it is not about a challenge.
KeepsEvidence(o) ==
  ops'[o] # Absent =>
    \/ ops'[o].evidence.id = None
    \/ /\ ops[o] # Absent
       /\ ops'[o].evidence = ops[o].evidence
       /\ ops[o].state = "canceled" => ops'[o].state = "canceled"

\* Such a step keeps every fact about evidence.
LEMMA QuietEvidence ==
  ASSUME RowsHold, ledger' = ledger, \A o \in Ops : KeepsEvidence(o)
  PROVE  RowsHold' /\ \A h \in Challenges : Unheard(h) => Unheard(h)'
<1>1. \A o \in Ops, h \in Challenges : RowHolds(o, h)' =>
        /\ RowHolds(o, h)
        /\ ops'[o].evidence = ops[o].evidence
        /\ ops[o].state = "canceled" => ops'[o].state = "canceled"
  BY StoreAssumption DEF RowHolds, KeepsEvidence
<1>2. HeldOnce'
  BY <1>1 DEF RowsHold, HeldOnce
<1>3. ASSUME NEW o \in Ops
      PROVE  RowBooked(o)'
  BY <1>1 DEF RowsHold, RowBooked
<1>4. EvidenceExactOnce'
  BY DEF RowsHold, EvidenceExactOnce
<1>5. \A h \in Challenges : Unheard(h) => Unheard(h)'
  BY <1>1 DEF Unheard
<1> QED BY <1>2, <1>3, <1>4, <1>5 DEF RowsHold

\* What a commit decides on and writes.
LEMMA CommitFacts ==
  ASSUME RowInv, NEW c \in Clients, CommitTransition(c) \/ CommitProgress(c)
  PROVE  /\ Open(c) /\ tx[c].call \in Call /\ tx[c].call.op \in Ops
         /\ CommittedBy(c, tx[c].call.op)
         /\ EvidenceCas(tx[c].call, ops[tx[c].call.op])
         /\ ledger' = Booked(tx[c].call, ledger)
         /\ issued' = issued
         /\ tx' = [tx EXCEPT ![c] = Idle]
         /\ \A p \in Ops \ {tx[c].call.op} : ops'[p] = ops[p]
         /\ ops[tx[c].call.op] \in Row
         /\ ops[tx[c].call.op].state \notin Terminal
         /\ ops'[tx[c].call.op] \in Row
         /\ ops'[tx[c].call.op].evidence
              = MergeEvidence(ops[tx[c].call.op].evidence, EvidencePatch(tx[c].call))
         /\ tx[c].call.kind = "deny" => ops'[tx[c].call.op].state = tx[c].call.to
<1> DEFINE o == tx[c].call.op
<1>t. TypeOK
  BY DEF RowInv
<1>1. /\ Open(c) /\ CasHolds(tx[c]) /\ EvidenceCas(tx[c].call, ops[o])
      /\ ledger' = Booked(tx[c].call, ledger) /\ issued' = issued
      /\ tx' = [tx EXCEPT ![c] = Idle]
  BY DEF CommitTransition, CommitProgress, Write
<1>2. tx[c].call \in Call /\ o \in Ops /\ tx[c].snap = ops[o]
  BY <1>1, <1>t, CasComparesRow, OpenTx
<1>3. CommittedBy(c, o) /\ \A p \in Ops \ {o} : ops'[p] = ops[p]
  BY <1>t, <1>1, <1>2, CommitTransitionWrites, CommitProgressWrites, WriteShape DEF CommittedBy
<1>4. /\ ops[o] \in Row /\ ops'[o] \in Row
      /\ Resolved(tx[c]).state \notin Terminal
      /\ tx[c].expired => ClaimExpired(ops[o], clock)
      /\ ~tx[c].expired => Resolved(tx[c]) = ops[o]
      /\ ops'[o].evidence = MergeEvidence(ops[o].evidence, EvidencePatch(tx[c].call))
      /\ Resolved(tx[c]) \in Row
  BY <1>2, <1>3, CommitOnRow
<1>5. ops[o].state \notin Terminal
  BY <1>4 DEF ClaimExpired, Terminal
<1>6. ASSUME tx[c].call.kind = "deny"
      PROVE  ops'[o].state = tx[c].call.to
  <2>1. CommitTransition(c) /\ ops'[o] = Transitioned(c, tx[c].call, Resolved(tx[c]), clock)
    BY <1>3, <1>6 DEF CommittedBy, CommitProgress, ProgressKinds
  <2>2. tx[c].call.to \in States /\ clock \in Nat
    BY <1>t, <2>1, CommitTransitionWrites DEF TypeOK
  <2> QED BY <1>2, <1>4, <2>1, <2>2, TransitionedRow
<1> QED BY <1>1, <1>2, <1>3, <1>4, <1>5, <1>6

\* The commit of a call that is about no challenge.
LEMMA PlainCommit ==
  ASSUME RowInv, NEW c \in Clients, CommitTransition(c) \/ CommitProgress(c),
         CallFits(c), tx[c].call.kind \notin ChallengeKinds
  PROVE  ledger' = ledger /\ \A o \in Ops : KeepsEvidence(o)
<1>1. /\ tx[c].call.op \in Ops /\ Open(c)
      /\ ops[tx[c].call.op] \in Row /\ ops[tx[c].call.op].state \notin Terminal
      /\ ops'[tx[c].call.op].evidence
           = MergeEvidence(ops[tx[c].call.op].evidence, EvidencePatch(tx[c].call))
      /\ ledger' = Booked(tx[c].call, ledger)
      /\ \A p \in Ops \ {tx[c].call.op} : ops'[p] = ops[p]
  BY CommitFacts
<1>2. ledger' = ledger
  BY <1>1 DEF Booked, ChallengeKinds
<1>3. ops'[tx[c].call.op].evidence = ops[tx[c].call.op].evidence
  BY <1>1 DEF CallFits, MergeEvidence, EvidencePatch
<1>4. ops[tx[c].call.op] # Absent /\ ops[tx[c].call.op].state # "canceled"
  BY <1>1, AbsentIsNoRow DEF Terminal
<1> QED BY <1>1, <1>2, <1>3, <1>4 DEF KeepsEvidence

\* Only a clear and a consume set a flag.
LEMMA PlainPatch ==
  ASSUME NEW call, call.kind \notin {"clear", "consume"}
  PROVE  EvidencePatch(call) = [id |-> call.challenge, cleared |-> FALSE, consumed |-> FALSE]
<1>1. (call.kind \in {"clear", "consume"}) = FALSE /\ (call.kind = "consume") = FALSE
  OBVIOUS
<1>2. \A x, y : x = FALSE /\ y = FALSE =>
        [id |-> call.challenge, cleared |-> x, consumed |-> y]
          = [id |-> call.challenge, cleared |-> FALSE, consumed |-> FALSE]
  OBVIOUS
<1> QED BY <1>1, <1>2, Zenon DEF EvidencePatch

\* A request stores evidence of a challenge nobody has heard of.
LEMMA RequestCommit ==
  ASSUME RowInv, CallsHold, RowsHold, NEW c \in Clients,
         CommitTransition(c) \/ CommitProgress(c), tx[c].call.kind = "request"
  PROVE  /\ RowsHold'
         /\ \A h \in Challenges \ {tx[c].call.challenge} : Unheard(h) => Unheard(h)'
<1> DEFINE o == tx[c].call.op
           h == tx[c].call.challenge
<1>1. /\ o \in Ops /\ Open(c) /\ ops[o] \in Row
      /\ ops'[o].evidence = MergeEvidence(ops[o].evidence, EvidencePatch(tx[c].call))
      /\ ledger' = Booked(tx[c].call, ledger)
      /\ \A p \in Ops \ {o} : ops'[p] = ops[p]
  BY CommitFacts
<1>2. h \in Challenges /\ Unheard(h)
  BY <1>1 DEF CallsHold, CallFits, RequestIsFresh, Requesting, ChallengeKinds, RowInv, TypeOK
<1>3. ledger' = ledger
  BY <1>1 DEF Booked
<1>4. /\ ops'[o].evidence.id = h /\ ops'[o].evidence.cleared = FALSE
      /\ ops'[o].evidence.consumed = FALSE
  <2>1. ops[o].evidence.id # h /\ h # None
    BY <1>1, <1>2, AbsentIsNoRow, StoreAssumption DEF Unheard, RowHolds
  <2>2. EvidencePatch(tx[c].call) = [id |-> h, cleared |-> FALSE, consumed |-> FALSE]
    BY PlainPatch
  <2>3. ops'[o].evidence = EvidencePatch(tx[c].call)
    BY <1>1, <2>1, <2>2 DEF MergeEvidence
  <2> QED BY <2>2, <2>3
<1> HIDE DEF o, h
<1>5. \A p \in Ops, g \in Challenges : RowHolds(p, g)' =>
        \/ p = o /\ g = h
        \/ p # o /\ g # h /\ RowHolds(p, g) /\ ops'[p] = ops[p]
  BY <1>1, <1>2, <1>4 DEF RowHolds, Unheard
<1>6. HeldOnce'
  BY <1>5 DEF RowsHold, HeldOnce
<1>7. ASSUME NEW p \in Ops
      PROVE  RowBooked(p)'
  <2>1. CASE p = o
    BY <1>2, <1>3, <1>4, <1>5, <2>1 DEF RowBooked, Unheard, NoOutcome, Bit
  <2>2. CASE p # o
    BY <1>3, <1>5, <2>2 DEF RowsHold, RowBooked
  <2> QED BY <2>1, <2>2
<1>8. EvidenceExactOnce'
  BY <1>3 DEF RowsHold, EvidenceExactOnce
<1>9. \A g \in Challenges \ {h} : Unheard(g) => Unheard(g)'
  BY <1>3, <1>5 DEF Unheard
<1> QED BY <1>6, <1>7, <1>8, <1>9 DEF RowsHold, h

\* The result of a challenge is booked on the one row that holds it, and its
\* evidence tells which results came before: a denied row is canceled, and no
\* call commits on a canceled row.
LEMMA ResultCommit ==
  ASSUME RowInv, CallsHold, RowsHold, NEW c \in Clients,
         CommitTransition(c) \/ CommitProgress(c), tx[c].call.kind \in {"clear", "deny", "consume"}
  PROVE  RowsHold' /\ \A g \in Challenges : Unheard(g) => Unheard(g)'
<1> DEFINE o == tx[c].call.op
           h == tx[c].call.challenge
           old == ops[o].evidence
           new == ops'[o].evidence
<1>1. /\ o \in Ops /\ Open(c) /\ ops[o] \in Row /\ ops'[o] \in Row
      /\ ops[o].state \notin Terminal
      /\ EvidenceCas(tx[c].call, ops[o])
      /\ new = MergeEvidence(old, EvidencePatch(tx[c].call))
      /\ ledger' = Booked(tx[c].call, ledger)
      /\ tx[c].call.kind = "deny" => ops'[o].state = tx[c].call.to
      /\ \A p \in Ops \ {o} : ops'[p] = ops[p]
  BY CommitFacts
<1>2. h \in Challenges /\ (tx[c].call.kind = "deny" => ops'[o].state = "canceled")
  BY <1>1 DEF CallsHold, CallFits, ChallengeKinds, RowInv, TypeOK
<1>3. old.id = h /\ RowHolds(o, h)
  BY <1>1, AbsentIsNoRow DEF EvidenceCas, RowHolds
<1>t. /\ old \in Evidence /\ ledger \in [Challenges -> [cleared : Nat, consumed : Nat, denied : Nat]]
      /\ ledger[h].cleared \in Nat /\ ledger[h].consumed \in Nat /\ ledger[h].denied \in Nat
  BY <1>1, <1>2 DEF RowInv, TypeOK, Row
<1>4. /\ ledger[h].cleared = Bit(old.cleared) /\ ledger[h].consumed = Bit(old.consumed)
      /\ old.consumed => old.cleared
      /\ ledger[h].denied = 0
  <2>1. ops[o].state # "canceled"
    BY <1>1 DEF Terminal
  <2> QED BY <1>1, <1>2, <1>3, <2>1 DEF RowsHold, RowBooked
<1>5. \A g \in Challenges \ {h} : ledger'[g] = ledger[g]
  BY <1>1, <1>2, <1>t DEF Booked
<1>6. /\ new.id = h
      /\ ledger'[h].cleared = Bit(new.cleared) /\ ledger'[h].consumed = Bit(new.consumed)
      /\ new.consumed => new.cleared
      /\ ledger'[h].denied # 0 => ops'[o].state = "canceled"
      /\ ledger'[h].cleared + ledger'[h].denied <= 1
      /\ ledger'[h].consumed <= ledger'[h].cleared
  <2>1. h # None
    BY <1>2, StoreAssumption
  <2>2. CASE tx[c].call.kind = "clear"
    <3>1. EvidencePatch(tx[c].call) = [id |-> h, cleared |-> TRUE, consumed |-> FALSE]
      BY <2>2 DEF EvidencePatch
    <3>2. new = [old EXCEPT !.cleared = old.cleared \/ TRUE, !.consumed = old.consumed \/ FALSE]
      BY <1>1, <1>3, <2>1, <3>1 DEF MergeEvidence
    <3>3. new.id = h /\ new.cleared = TRUE /\ new.consumed = old.consumed
      BY <1>t, <1>3, <3>2 DEF Evidence
    <3>4. old.cleared = FALSE /\ old.consumed = FALSE
      BY <1>1, <1>4, <1>t, <2>2 DEF EvidenceCas, Evidence
    <3>5. ledger' = [ledger EXCEPT ![h].cleared = @ + 1]
      BY <1>1, <2>2 DEF Booked
    <3>6. /\ ledger'[h].cleared = ledger[h].cleared + 1
          /\ ledger'[h].consumed = ledger[h].consumed /\ ledger'[h].denied = ledger[h].denied
      BY <1>2, <1>t, <3>5
    <3>7. ledger'[h].cleared = 1 /\ ledger'[h].consumed = 0 /\ ledger'[h].denied = 0
      BY <1>4, <3>4, <3>6 DEF Bit
    <3> QED BY <3>3, <3>4, <3>7 DEF Bit
  <2>3. CASE tx[c].call.kind = "deny"
    <3>1. EvidencePatch(tx[c].call) = [id |-> h, cleared |-> FALSE, consumed |-> FALSE]
      BY <2>3, PlainPatch
    <3>2. new = [old EXCEPT !.cleared = old.cleared \/ FALSE, !.consumed = old.consumed \/ FALSE]
      BY <1>1, <1>3, <2>1, <3>1 DEF MergeEvidence
    <3>3. new.id = h /\ new.cleared = old.cleared /\ new.consumed = old.consumed
      BY <1>t, <1>3, <3>2 DEF Evidence
    <3>4. old.cleared = FALSE /\ old.consumed = FALSE
      BY <1>1, <1>t, <2>3 DEF EvidenceCas, Evidence
    <3>5. ledger' = [ledger EXCEPT ![h].denied = @ + 1]
      BY <1>1, <2>3 DEF Booked
    <3>6. /\ ledger'[h].cleared = ledger[h].cleared
          /\ ledger'[h].consumed = ledger[h].consumed /\ ledger'[h].denied = ledger[h].denied + 1
      BY <1>2, <1>t, <3>5
    <3>7. ledger'[h].cleared = 0 /\ ledger'[h].consumed = 0 /\ ledger'[h].denied = 1
      BY <1>4, <3>4, <3>6 DEF Bit
    <3> QED BY <1>2, <2>3, <3>3, <3>4, <3>7 DEF Bit
  <2>4. CASE tx[c].call.kind = "consume"
    <3>1. EvidencePatch(tx[c].call) = [id |-> h, cleared |-> TRUE, consumed |-> TRUE]
      BY <2>4 DEF EvidencePatch
    <3>2. new = [old EXCEPT !.cleared = old.cleared \/ TRUE, !.consumed = old.consumed \/ TRUE]
      BY <1>1, <1>3, <2>1, <3>1 DEF MergeEvidence
    <3>3. new.id = h /\ new.cleared = TRUE /\ new.consumed = TRUE
      BY <1>t, <1>3, <3>2 DEF Evidence
    <3>4. old.cleared = TRUE /\ old.consumed = FALSE
      BY <1>1, <1>t, <2>4 DEF EvidenceCas, Evidence
    <3>5. ledger' = [ledger EXCEPT ![h].consumed = @ + 1]
      BY <1>1, <2>4 DEF Booked
    <3>6. /\ ledger'[h].cleared = ledger[h].cleared
          /\ ledger'[h].consumed = ledger[h].consumed + 1 /\ ledger'[h].denied = ledger[h].denied
      BY <1>2, <1>t, <3>5
    <3>7. ledger'[h].cleared = 1 /\ ledger'[h].consumed = 1 /\ ledger'[h].denied = 0
      BY <1>4, <3>4, <3>6 DEF Bit
    <3> QED BY <3>3, <3>7 DEF Bit
  <2> QED BY <2>2, <2>3, <2>4
<1>7. ops'[o] # Absent
  BY <1>1, AbsentIsNoRow
<1> HIDE DEF o, h
<1>8. \A p \in Ops, g \in Challenges : RowHolds(p, g)' =>
        
        /\ RowHolds(p, g)
        /\ (p = o /\ g = h) \/ (p # o /\ g # h /\ ops'[p] = ops[p])
  BY <1>1, <1>2, <1>3, <1>6 DEF RowHolds, RowsHold, HeldOnce
<1>9. HeldOnce'
  BY <1>8 DEF RowsHold, HeldOnce
<1>10. ASSUME NEW p \in Ops
       PROVE  RowBooked(p)'
  <2>1. CASE p = o
    BY <1>6, <1>8, <2>1 DEF RowBooked
  <2>2. CASE p # o
    BY <1>5, <1>8, <2>2 DEF RowsHold, RowBooked
  <2> QED BY <2>1, <2>2
<1>11. EvidenceExactOnce'
  BY <1>5, <1>6 DEF RowsHold, EvidenceExactOnce
<1>12. ASSUME NEW g \in Challenges, Unheard(g)
       PROVE  Unheard(g)'
  <2>1. g # h
    BY <1>1, <1>3, <1>12 DEF Unheard
  <2> QED BY <1>5, <1>8, <1>12, <2>1 DEF Unheard
<1> QED BY <1>9, <1>10, <1>11, <1>12 DEF RowsHold

\* Every step but a commit leaves the ledger and the evidence of the rows alone:
\* a new row holds none, and a claim that is parked was running.
LEMMA QuietStep ==
  ASSUME RowInv, [Next]_vars, ~\E c \in Clients : CommitTransition(c) \/ CommitProgress(c)
  PROVE  ledger' = ledger /\ \A o \in Ops : KeepsEvidence(o)
<1>1. ledger' = ledger
  <2>1. ASSUME NEW c \in Clients, Outcome(c) PROVE ledger' = ledger
    BY <2>1 DEF Outcome, ReturnRead, ParkOnRead, Replay, RetryProgress, Abort
  <2>2. ASSUME NEW c \in Clients, BeginPoll(c) \/ BeginCall(c) PROVE ledger' = ledger
    <3>1. PICK call \in Call : Begin(c, call)
      BY <2>2, BeginPollOpens, BeginCallOpens DEF RowInv
    <3> QED BY <3>1 DEF Begin
  <2> QED BY <2>1, <2>2 DEF Next, Tick, Create, CreateReplay, vars
<1>2. ASSUME NEW o \in Ops
      PROVE  KeepsEvidence(o)
  <2>1. CASE ops'[o] = ops[o]
    BY <2>1 DEF KeepsEvidence
  <2>2. CASE \E i \in Intents, k \in Keys \cup {None} : ops'[o] = NewRow(i, k)
    BY <2>2 DEF NewRow, NoEvidence, KeepsEvidence
  <2>3. CASE ops[o] \in Row /\ ClaimExpired(ops[o], clock) /\ ops'[o] = Parked(ops[o])
    BY <2>3, ParkedRow, AbsentIsNoRow DEF ClaimExpired, KeepsEvidence
  <2>4. ~\E c \in Clients : CommittedBy(c, o)
    BY DEF CommittedBy
  <2> QED BY <2>1, <2>2, <2>3, <2>4, RowMoves DEF Move
<1> QED BY <1>1, <1>2

\* Opening a call: a challenge that is requested was not issued before, so nobody
\* has heard of it and nobody else is requesting it.
LEMMA BeginKeepsCalls ==
  ASSUME RowInv, CallsHold, NEW c \in Clients, BeginPoll(c) \/ BeginCall(c)
  PROVE  CallsHold'
<1>t. TypeOK
  BY DEF RowInv
<1>1. PICK call \in Call :
        /\ Begin(c, call)
        /\ call.kind = "request" => call.challenge \in Challenges \ issued
        /\ call.kind \in {"deny", "consume", "clear"} => call.challenge \in issued
        /\ call.kind \notin ChallengeKinds => call.challenge = None
        /\ call.kind = "deny" => call.to = "canceled"
        /\ call.to \in NextStates(call.kind)
        /\ call.idempotencyKey # None => call.kind \in KeyedKinds
  <2>1. \A call \in Call : call.kind = "deny" /\ call.to \in NextStates(call.kind)
                             => call.to = "canceled"
    BY DEF NextStates
  <2>2. \A call \in Call : call.kind = "get" /\ call.to = None => call.to \in NextStates(call.kind)
    BY DEF NextStates
  <2> QED BY <1>t, <2>1, <2>2, BeginPollOpens, BeginCallOpens DEF ChallengeKinds
<1>2. /\ ops' = ops /\ ledger' = ledger
      /\ tx' = [tx EXCEPT ![c] = Read(call, 1)]
      /\ issued' = IF call.kind = "request" THEN issued \cup {call.challenge} ELSE issued
  BY <1>1 DEF Begin
<1>3. tx'[c].call = call /\ \A d \in Clients \ {c} : tx'[d] = tx[d]
  BY <1>t, <1>2 DEF Read, TypeOK
<1>4. \A h \in Challenges : Unheard(h)' <=> Unheard(h)
  BY <1>2 DEF Unheard, RowHolds
<1>5. \A d \in Clients \ {c} : CallFits(d)' /\ \A h \in Challenges : Requesting(d, h)' => Requesting(d, h)
  BY <1>2, <1>3 DEF CallsHold, CallFits, Open, Requesting
<1>6. CallFits(c)'
  BY <1>1, <1>2, <1>3 DEF CallFits, ChallengeKinds
<1>7. \A h \in Challenges : Requesting(c, h)' => h \notin issued
  BY <1>1, <1>3 DEF Requesting
<1>8. \A d \in Clients, h \in Challenges : Requesting(d, h) => h \in issued
  BY DEF CallsHold, CallFits, Requesting, ChallengeKinds
<1>9. ASSUME NEW d \in Clients
      PROVE  RequestIsFresh(d)'
  <2> SUFFICES ASSUME NEW h \in Challenges, Requesting(d, h)'
               PROVE  Unheard(h)' /\ \A e \in Clients \ {d} : ~Requesting(e, h)'
    BY DEF RequestIsFresh
  <2>1. CASE d = c
    BY <1>4, <1>5, <1>7, <1>8, <2>1 DEF CallsHold
  <2>2. CASE d # c
    BY <1>4, <1>5, <1>7, <1>8, <2>2 DEF CallsHold, RequestIsFresh
  <2> QED BY <2>1, <2>2
<1>10. \A h \in Challenges \ issued' : Unheard(h)'
  BY <1>2, <1>4 DEF CallsHold
<1> QED BY <1>5, <1>6, <1>9, <1>10 DEF CallsHold

\* Any other step only ends calls, or reads again for the same call.
LEMMA OtherStepsKeepCalls ==
  ASSUME RowInv, CallsHold, [Next]_vars,
         ~\E c \in Clients : BeginPoll(c) \/ BeginCall(c)
  PROVE  /\ issued' = issued
         /\ \A d \in Clients : tx'[d] = Idle \/ (Open(d) /\ tx'[d].call = tx[d].call)
<1> DEFINE Keeps == \A d \in Clients : tx'[d] = Idle \/ (Open(d) /\ tx'[d].call = tx[d].call)
<1>1. ASSUME NEW c \in Clients, Outcome(c)
      PROVE  issued' = issued /\ Keeps
  <2>1. issued' = issued /\ Open(c)
    BY <1>1 DEF Outcome, ReturnRead, ParkOnRead, Replay, CommitTransition, CommitProgress,
                RetryProgress, Abort
  <2>2. \/ tx' = tx \/ tx' = [tx EXCEPT ![c] = Idle]
        \/ tx' = [tx EXCEPT ![c] = Read(tx[c].call, tx[c].attempt + 1)]
    BY <1>1 DEF Outcome, ReturnRead, ParkOnRead, Replay, CommitTransition, CommitProgress,
                RetryProgress, Abort, Write
  <2> QED BY <2>1, <2>2 DEF RowInv, TypeOK, Open, Read
<1>2. tx' = tx => Keeps
  BY DEF Open
<1> QED BY <1>1, <1>2 DEF Next, Tick, Create, CreateReplay, vars

\* Such a step keeps what is known of the calls when it lets only the challenge
\* of a request that it ends be heard of.
LEMMA EndedCalls ==
  ASSUME CallsHold, issued' = issued,
         \A d \in Clients : tx'[d] = Idle \/ (Open(d) /\ tx'[d].call = tx[d].call),
         \A h \in Challenges : Unheard(h) =>
           Unheard(h)' \/ \E c \in Clients : Requesting(c, h) /\ tx'[c] = Idle
  PROVE  CallsHold'
<1>1. \A d \in Clients : CallFits(d)'
  BY DEF CallsHold, CallFits, Open
<1>2. \A d \in Clients, h \in Challenges : Requesting(d, h)' => Requesting(d, h) /\ tx'[d] # Idle
  BY DEF Requesting, Open
<1>3. \A d \in Clients : RequestIsFresh(d)'
  BY <1>2 DEF CallsHold, RequestIsFresh
<1>4. \A d \in Clients, h \in Challenges : Requesting(d, h) => h \in issued
  BY DEF CallsHold, CallFits, Requesting, ChallengeKinds
<1>5. \A h \in Challenges \ issued' : Unheard(h)'
  BY <1>4 DEF CallsHold
<1> QED BY <1>1, <1>3, <1>5 DEF CallsHold

\* What a step does to the evidence, and to the challenges nobody has heard of.
LEMMA EvidenceRowsStep ==
  ASSUME RowInv, CallsHold, RowsHold, [Next]_vars
  PROVE  /\ RowsHold'
         /\ \A h \in Challenges : Unheard(h) =>
              Unheard(h)' \/ \E c \in Clients : Requesting(c, h) /\ tx'[c] = Idle
<1>1. ASSUME NEW c \in Clients, CommitTransition(c) \/ CommitProgress(c)
      PROVE  /\ RowsHold'
             /\ \A h \in Challenges : Unheard(h) =>
                  Unheard(h)' \/ (Requesting(c, h) /\ tx'[c] = Idle)
  <2>1. CallFits(c) /\ Open(c) /\ tx'[c] = Idle
    BY <1>1, CommitFacts DEF CallsHold, RowInv, TypeOK
  <2>2. CASE tx[c].call.kind \notin ChallengeKinds
    BY <1>1, <2>1, <2>2, PlainCommit, QuietEvidence
  <2>3. CASE tx[c].call.kind = "request"
    BY <1>1, <2>1, <2>3, RequestCommit DEF Requesting
  <2>4. CASE tx[c].call.kind \in {"clear", "deny", "consume"}
    BY <1>1, <2>4, ResultCommit
  <2> QED BY <2>2, <2>3, <2>4 DEF ChallengeKinds
<1>2. CASE ~\E c \in Clients : CommitTransition(c) \/ CommitProgress(c)
  BY <1>2, QuietStep, QuietEvidence
<1> QED BY <1>1, <1>2

\* What is known of the calls and of the evidence in the rows.
LEMMA EvidenceInvariant == Spec => [](RowInv /\ CallsHold /\ RowsHold)
<1>1. Init => CallsHold /\ RowsHold
  <2> SUFFICES ASSUME Init PROVE CallsHold /\ RowsHold
    OBVIOUS
  <2>1. \A o \in Ops, h \in Challenges : ~RowHolds(o, h)
    BY DEF Init, RowHolds
  <2>2. \A c \in Clients : ~Open(c)
    BY DEF Init, Open
  <2>3. \A h \in Challenges : ledger[h] = NoOutcome
    BY DEF Init, NoOutcome
  <2>4. CallsHold
    BY <2>1, <2>2, <2>3 DEF CallsHold, CallFits, RequestIsFresh, Requesting, Unheard
  <2>5. RowsHold
    BY <2>1, <2>3 DEF RowsHold, HeldOnce, RowBooked, EvidenceExactOnce, NoOutcome
  <2> QED BY <2>4, <2>5
<1>2. RowInv /\ CallsHold /\ RowsHold /\ [Next]_vars => CallsHold' /\ RowsHold'
  <2> SUFFICES ASSUME RowInv, CallsHold, RowsHold, [Next]_vars PROVE CallsHold' /\ RowsHold'
    OBVIOUS
  <2>1. CASE \E c \in Clients : BeginPoll(c) \/ BeginCall(c)
    BY <2>1, BeginKeepsCalls, EvidenceRowsStep
  <2>2. CASE ~\E c \in Clients : BeginPoll(c) \/ BeginCall(c)
    BY <2>2, OtherStepsKeepCalls, EvidenceRowsStep, EndedCalls
  <2> QED BY <2>1, <2>2
<1> QED BY <1>1, <1>2, RowInvariant, PTL DEF Spec

\* Two requests never settle the same challenge, for any number of clients,
\* challenges and Operations and whatever the interleaving of their calls.
THEOREM EvidenceIsExactOnce == Spec => []EvidenceExactOnce
<1>1. RowsHold => EvidenceExactOnce
  BY DEF RowsHold
<1> QED BY <1>1, EvidenceInvariant, PTL

\* A row that has a mutation key keeps it: a call computes on the row it replaces,
\* and it has the same key or none.
LEMMA KeyIsKept ==
  ASSUME RowInv, CallsHold, NEW c \in Clients, NEW o \in Ops, CommittedBy(c, o),
         ops[o].mutationKey # None
  PROVE  ops'[o].mutationKey = ops[o].mutationKey
<1> DEFINE key == tx[c].call.idempotencyKey
           seen == Resolved(tx[c])
<1>1. /\ Open(c) /\ tx[c] \in Tx /\ tx[c].snap = ops[o] /\ tx[c].call \in Call
      /\ ops[o] \in Row /\ seen \in Row
  BY CommitOnRow DEF CommittedBy
<1>2. seen.mutationKey = ops[o].mutationKey
  BY <1>1 DEF Resolved, Parked, Row
<1>3. Merged(c, tx[c].call, seen).mutationKey = IF key # None THEN key ELSE seen.mutationKey
  BY <1>1 DEF Merged, Row
<1>4. CASE /\ CommitTransition(c)
           /\ ops'[o] = Transitioned(c, tx[c].call, seen, clock)
  <2>1. key # None => key = seen.mutationKey
    BY <1>2, <1>4 DEF CommitTransition, KeyMatches
  <2>2. ops'[o].mutationKey = Merged(c, tx[c].call, seen).mutationKey
    <3>1. \A r, s, d : r \in Row =>
            [r EXCEPT !.state = s, !.deadline = d].mutationKey = r.mutationKey
      BY DEF Row
    <3>2. Merged(c, tx[c].call, seen) \in Row
      BY <1>1, MergedRow
    <3> QED BY <1>4, <3>1, <3>2 DEF Transitioned
  <2> QED BY <1>2, <1>3, <2>1, <2>2
<1>5. CASE CommitProgress(c) /\ ops'[o] = Merged(c, tx[c].call, seen)
  <2>1. tx[c].call.kind \notin KeyedKinds
    BY <1>5 DEF CommitProgress, ProgressKinds, KeyedKinds
  <2>2. key = None
    BY <1>1, <2>1 DEF CallsHold, CallFits
  <2> QED BY <1>2, <1>3, <1>5, <2>2
<1> QED BY <1>4, <1>5 DEF CommittedBy

\* A call whose key and whose state are those of the row it would write, and whose
\* claim lives, commits nothing: it is a replay, or its gate refuses it.
LEMMA StandingMutationIsNotRepeated ==
  ASSUME RowInv, CallsHold, NEW c \in Clients, NEW o \in Ops, CommittedBy(c, o),
         ops[o].mutationKey # None, tx[c].call.idempotencyKey = ops[o].mutationKey,
         ~ClaimExpired(ops[o], clock)
  PROVE  tx[c].call.to # ops[o].state
<1> DEFINE call == tx[c].call
<1>1. /\ Open(c) /\ Resolved(tx[c]) = ops[o] /\ call \in Call
  BY CommitOnRow DEF CommittedBy
<1>2. call.kind \in KeyedKinds /\ call.to \in NextStates(call.kind)
  BY <1>1 DEF CallsHold, CallFits
<1>3. CommitTransition(c)
  BY <1>2 DEF CommittedBy, CommitProgress, ProgressKinds, KeyedKinds
<1>4. ~IsReplay(call, ops[o]) /\ TransitionGate(call, ops[o])
  BY <1>1, <1>3 DEF CommitTransition
<1>5. CASE call.kind = "consume"
  <2>1. ops[o].state = "waiting_for_human" /\ call.to = "running"
    BY <1>2, <1>4, <1>5 DEF TransitionGate, LegalFrom, NextStates
  <2> QED BY <2>1
<1>6. CASE call.kind # "consume"
  BY <1>4, <1>6 DEF IsReplay, AlreadyApplied
<1> QED BY <1>5, <1>6

\* For any number of clients, keys and Operations: of all the calls under mutation
\* keys that race on an Operation one key is stored and stays, and a repeat of the
\* mutation that stands writes nothing.
THEOREM KeyedMutationsApplyOnce == Spec => KeyedMutationAppliesOnce
<1> DEFINE Repeats(c, o) ==
             /\ Open(c) /\ tx'[c] = Idle
             /\ tx[c].call.op = o
             /\ tx[c].call.idempotencyKey = ops[o].mutationKey
             /\ tx[c].call.to = ops[o].state
             /\ ~ClaimExpired(ops[o], clock)
<1>1. RowInv /\ CallsHold /\ [Next]_vars
        => \A o \in Ops : Exists(o) /\ ops[o].mutationKey # None =>
             /\ ops'[o].mutationKey = ops[o].mutationKey
             /\ \A c \in Clients : Repeats(c, o) => ops'[o] = ops[o]
  <2> SUFFICES ASSUME RowInv, CallsHold, [Next]_vars, NEW o \in Ops, Exists(o),
                      ops[o].mutationKey # None
               PROVE  /\ ops'[o].mutationKey = ops[o].mutationKey
                      /\ \A c \in Clients : Repeats(c, o) => ops'[o] = ops[o]
    OBVIOUS
  <2>1. CASE ops'[o] = ops[o]
    BY <2>1
  <2>2. CASE /\ ops[o] \in Row /\ ClaimExpired(ops[o], clock) /\ ops'[o] = Parked(ops[o])
    <3>1. ops'[o].mutationKey = ops[o].mutationKey
      BY <2>2 DEF Parked, Row
    <3> QED BY <2>2, <3>1
  <2>3. ASSUME NEW d \in Clients, CommittedBy(d, o)
        PROVE  /\ ops'[o].mutationKey = ops[o].mutationKey
               /\ \A c \in Clients : Repeats(c, o) => FALSE
    <3>1. ASSUME NEW c \in Clients, Repeats(c, o) PROVE c = d
      <4>1. tx' = [tx EXCEPT ![d] = Idle]
        BY <2>3 DEF CommittedBy, CommitTransition, CommitProgress, Write
      <4> QED BY <3>1, <4>1 DEF Open, RowInv, TypeOK
    <3>2. ASSUME NEW c \in Clients, Repeats(c, o) PROVE FALSE
      BY <2>3, <3>1, <3>2, StandingMutationIsNotRepeated
    <3> QED BY <2>3, <3>2, KeyIsKept
  <2> QED BY <2>1, <2>2, <2>3, RowMoves DEF Move, Exists
<1> QED BY <1>1, EvidenceInvariant, PTL DEF Spec, KeyedMutationAppliesOnce

-----------------------------------------------------------------------------
(* OperationStore implements AtomicStore.                                  *)

\* The abstract store computes with the same operators.
LEMMA SameComputations ==
  /\ \A row, now : Atomic!ClaimExpired(row, now) <=> ClaimExpired(row, now)
  /\ \A row : Atomic!Parked(row) = Parked(row)
  /\ \A i, k : Atomic!NewRow(i, k) = NewRow(i, k)
  /\ \A call, row : /\ Atomic!KeyMatches(call, row) <=> KeyMatches(call, row)
                    /\ Atomic!IsReplay(call, row) <=> IsReplay(call, row)
                    /\ Atomic!TransitionGate(call, row) <=> TransitionGate(call, row)
                    /\ Atomic!ProgressGate(call, row) <=> ProgressGate(call, row)
                    /\ Atomic!EvidenceCas(call, row) <=> EvidenceCas(call, row)
  /\ \A call, book : Atomic!Booked(call, book) = Booked(call, book)
  /\ \A c, call, row : Atomic!Merged(c, call, row) = Merged(c, call, row)
  /\ \A c, call, row, now :
       Atomic!Transitioned(c, call, row, now) = Transitioned(c, call, row, now)
  /\ Atomic!Mutations = Mutations
  /\ Atomic!TransitionKinds = TransitionKinds /\ Atomic!ProgressKinds = ProgressKinds
  /\ Atomic!Absent = Absent
<1>1. /\ \A row, now : Atomic!ClaimExpired(row, now) <=> ClaimExpired(row, now)
      /\ \A row : Atomic!Parked(row) = Parked(row)
      /\ \A i, k : Atomic!NewRow(i, k) = NewRow(i, k)
      /\ Atomic!Absent = Absent
  BY DEF Atomic!ClaimExpired, ClaimExpired, Atomic!Parked, Parked, Atomic!NewRow, NewRow,
         Atomic!NoEvidence, NoEvidence, Atomic!Absent, Absent
<1>2. \A call, row : /\ Atomic!KeyMatches(call, row) <=> KeyMatches(call, row)
                     /\ Atomic!IsReplay(call, row) <=> IsReplay(call, row)
                     /\ Atomic!EvidenceCas(call, row) <=> EvidenceCas(call, row)
  BY DEF Atomic!KeyMatches, KeyMatches, Atomic!IsReplay, IsReplay, Atomic!AlreadyApplied,
         AlreadyApplied, Atomic!EvidenceCas, EvidenceCas
<1>3. \A call, row : /\ Atomic!TransitionGate(call, row) <=> TransitionGate(call, row)
                     /\ Atomic!ProgressGate(call, row) <=> ProgressGate(call, row)
  BY DEF Atomic!TransitionGate, TransitionGate, Atomic!ProgressGate, ProgressGate,
         Atomic!LegalFrom, LegalFrom, Atomic!Terminal, Terminal, Atomic!IsTransitionAllowed,
         IsTransitionAllowed, Atomic!Allowed, Allowed, Atomic!Retryable, Retryable,
         Atomic!Cancelable, Cancelable, Atomic!States, States
<1>4. \A call, book : Atomic!Booked(call, book) = Booked(call, book)
  BY DEF Atomic!Booked, Booked
<1>5. \A c, call, row : Atomic!Merged(c, call, row) = Merged(c, call, row)
  BY DEF Atomic!Merged, Merged, Atomic!MergeEvidence, MergeEvidence, Atomic!EvidencePatch,
         EvidencePatch
<1>6. \A c, call, row, now :
        Atomic!Transitioned(c, call, row, now) = Transitioned(c, call, row, now)
  BY <1>5 DEF Atomic!Transitioned, Transitioned, Atomic!NextDeadline, NextDeadline
<1>7. Atomic!TransitionKinds = TransitionKinds /\ Atomic!ProgressKinds = ProgressKinds
  BY DEF Atomic!TransitionKinds, TransitionKinds, Atomic!ProgressKinds, ProgressKinds
<1>8. Atomic!Mutations = Mutations
  BY DEF Atomic!Mutations, Mutations, Atomic!Call, Call, Atomic!Kinds, Kinds,
         Atomic!TransitionKinds, TransitionKinds, Atomic!ProgressKinds, ProgressKinds,
         Atomic!States, States, Atomic!WellFormed, WellFormed, Atomic!NextStates, NextStates,
         Atomic!FinishStates, FinishStates, Atomic!ChallengeKinds, ChallengeKinds,
         Atomic!KeyedKinds, KeyedKinds
<1> QED BY <1>1, <1>2, <1>3, <1>4, <1>5, <1>6, <1>7, <1>8

\* A call that commits is a mutation with the arguments of its function.
LEMMA CommitsAreMutations ==
  ASSUME RowInv, CallsHold, NEW c \in Clients, CommitTransition(c) \/ CommitProgress(c)
  PROVE  tx[c].call \in Mutations
<1>1. Open(c) /\ tx[c].call \in Call /\ tx[c].call.kind # "get"
  BY CommitFacts DEF CommitTransition, CommitProgress, TransitionKinds, ProgressKinds
<1>2. CallFits(c) /\ issued \subseteq Challenges /\ None \notin Challenges
  BY StoreAssumption DEF CallsHold, RowInv, TypeOK
<1>3. WellFormed(tx[c].call)
  BY <1>1, <1>2 DEF WellFormed, CallFits
<1> QED BY <1>1, <1>3 DEF Mutations

\* What a committing call decided on is the stored row, or the stored row with
\* its expired claim parked: its snapshot is not stale, and its verdict stands.
LEMMA CommitsSeeStoredRow ==
  ASSUME RowInv, NEW c \in Clients, CommitTransition(c) \/ CommitProgress(c)
  PROVE  /\ Resolved(tx[c]) \in Atomic!Seen(tx[c].call.op)
         /\ Resolved(tx[c]).evidence = ops[tx[c].call.op].evidence
<1> DEFINE o == tx[c].call.op
<1>1. /\ CommittedBy(c, o) /\ ops[o] \in Row /\ tx[c] \in Tx
      /\ tx[c].snap = ops[o]
  BY CommitFacts, OpenTx DEF CommittedBy, RowInv
<1>2. Resolved(tx[c]).evidence = ops[o].evidence
  BY <1>1, ResolvedRow
<1>3. CASE tx[c].expired
  <2>1. Resolved(tx[c]) = Parked(ops[o]) /\ ClaimExpired(ops[o], clock)
    BY <1>1, <1>3, CommitFacts, CommitOnRow DEF Resolved
  <2> QED BY <1>2, <2>1, SameComputations DEF Atomic!Seen
<1>4. CASE ~tx[c].expired
  BY <1>1, <1>2, <1>4 DEF Atomic!Seen, Resolved
<1> QED BY <1>3, <1>4

\* A commit is one call of the abstract store.
LEMMA CommitIsAtomic ==
  ASSUME RowInv, CallsHold, NEW c \in Clients, CommitTransition(c) \/ CommitProgress(c)
  PROVE  \E o \in Ops : Atomic!Called(o)
<1> DEFINE t == tx[c]
           o == t.call.op
           row == Resolved(t)
<1>1. /\ o \in Ops /\ t.call \in Call /\ t.call \in Mutations
      /\ row \in Atomic!Seen(o) /\ row.evidence = ops[o].evidence
      /\ ops[o] \in Row /\ EvidenceCas(t.call, ops[o])
  BY CommitFacts, CommitsAreMutations, CommitsSeeStoredRow
<1>2. ops[o] # Absent
  BY <1>1, AbsentIsNoRow
<1>3. ops'[o] # ops[o]
  <2>1. /\ ops'[o] \in Row /\ ops'[o].revision > t.snap.revision
        /\ t.snap = ops[o]
    <3>1. /\ TypeOK /\ CommittedBy(c, o) /\ ops'[o] \in Row
      BY CommitFacts DEF RowInv
    <3> QED BY <3>1, CommitTransitionWrites, CommitProgressWrites DEF CommittedBy
  <2> QED BY <1>1, <2>1 DEF Row
<1>4. CASE CommitTransition(c)
  <2>1. /\ t.call.kind \in TransitionKinds
        /\ KeyMatches(t.call, row) /\ ~IsReplay(t.call, row) /\ TransitionGate(t.call, row)
        /\ ops' = [ops EXCEPT ![o] = Transitioned(c, t.call, row, clock)]
        /\ acked' = [acked EXCEPT ![o] = @ \cup {c}]
        /\ ledger' = Booked(t.call, ledger)
        /\ clock' = clock
    BY <1>4 DEF CommitTransition, Write
  <2>2. EvidenceCas(t.call, row)
    BY <1>1, <2>1 DEF EvidenceCas, TransitionKinds
  <2> HIDE DEF t, o, row
  <2>3. Atomic!Commit(c, t.call, row, Transitioned(c, t.call, row, clock)) /\ o = t.call.op
    BY <2>1, <2>2, SameComputations DEF Atomic!Commit, o
  <2>4. Atomic!Transition(c, t.call, row)
    BY <2>1, <2>3, SameComputations DEF Atomic!Transition
  <2> QED BY <1>1, <1>2, <1>3, <2>3, <2>4, SameComputations DEF Atomic!Called
<1>5. CASE CommitProgress(c)
  <2>1. /\ t.call.kind \in ProgressKinds
        /\ ProgressGate(t.call, row)
        /\ ops' = [ops EXCEPT ![o] = Merged(c, t.call, row)]
        /\ acked' = [acked EXCEPT ![o] = @ \cup {c}]
        /\ ledger' = Booked(t.call, ledger)
        /\ clock' = clock
    BY <1>5 DEF CommitProgress, Write
  <2>2. EvidenceCas(t.call, row)
    BY <1>1, <2>1 DEF EvidenceCas, ProgressKinds, ProgressGate
  <2> HIDE DEF t, o, row
  <2>3. Atomic!Commit(c, t.call, row, Merged(c, t.call, row)) /\ o = t.call.op
    BY <2>1, <2>2, SameComputations DEF Atomic!Commit, o
  <2>4. Atomic!Progress(c, t.call, row)
    BY <2>1, <2>3, SameComputations DEF Atomic!Progress
  <2> QED BY <1>1, <1>2, <1>3, <2>3, <2>4, SameComputations DEF Atomic!Called
<1> QED BY <1>4, <1>5

\* The write of a parking, by whichever call, is a parking of the abstract store.
LEMMA ParkingIsAtomic ==
  ASSUME RowInv, NEW c \in Clients, Open(c), CasHolds(tx[c]), tx[c].expired,
         Write(c, Resolved(tx[c])), UNCHANGED <<clock, acked, ledger>>
  PROVE  \E o \in Ops : Atomic!Park(o)
<1> DEFINE o == tx[c].call.op
<1>1. o \in Ops /\ tx[c].snap = ops[o] /\ ClaimExpired(ops[o], clock) /\ ops[o] # Absent
  BY CasComparesRow, OpenTx DEF RowInv, SnapshotIsCurrent
<1>2. ops' = [ops EXCEPT ![o] = Parked(ops[o])]
  BY <1>1 DEF Write, Resolved
<1> HIDE DEF o
<1>3. Atomic!Park(o)
  BY <1>1, <1>2, SameComputations DEF Atomic!Park
<1> QED BY <1>1, <1>3

\* Every outcome of a call commits it, parks a claim, or is invisible.
LEMMA OutcomeIsAtomic ==
  ASSUME RowInv, CallsHold, NEW c \in Clients, Outcome(c)
  PROVE  (\E o \in Ops : Atomic!Park(o) \/ Atomic!Called(o)) \/ UNCHANGED <<ops, clock, acked, ledger>>
<1>1. CASE ReturnRead(c) \/ RetryProgress(c) \/ Abort(c)
  BY <1>1 DEF ReturnRead, RetryProgress, Abort
<1>2. CASE ParkOnRead(c)
  BY <1>2, ParkingIsAtomic DEF ParkOnRead
<1>3. CASE Replay(c)
  <2>1. CASE tx[c].expired
    BY <1>3, <2>1, ParkingIsAtomic DEF Replay
  <2>2. CASE ~tx[c].expired
    BY <1>3, <2>2 DEF Replay
  <2> QED BY <2>1, <2>2
<1>4. CASE CommitTransition(c) \/ CommitProgress(c)
  BY <1>4, CommitIsAtomic
<1> QED BY <1>1, <1>2, <1>3, <1>4 DEF Outcome

\* Every call of the store takes effect at one instant, for any number of
\* clients, Operations and challenges: transactions that read without a lock and
\* write with a compare-and-set on the revision are as good as none at all.
THEOREM StoreIsAtomic == Spec => ImplementsAtomicStore
<1>1. Init => Atomic!Init
  BY SameComputations DEF Init, Atomic!Init
<1>2. RowInv /\ CallsHold /\ [Next]_vars => [Atomic!Next]_(Atomic!vars)
  <2> SUFFICES ASSUME RowInv, CallsHold, [Next]_vars
               PROVE  Atomic!Next \/ UNCHANGED <<ops, clock, acked, ledger>>
    BY DEF Atomic!vars
  <2>1. CASE Tick
    BY <2>1 DEF Tick, Atomic!Tick, Atomic!Next
  <2>2. ASSUME NEW o \in Ops, NEW i \in Intents, NEW k \in Keys \cup {None},
               NEW c \in Clients, Create(c, o, i, k)
        PROVE  Atomic!Next
    <3>1. Atomic!Create(o, i, k)
      BY <2>2, SameComputations DEF Create, Atomic!Create, Exists, KeyTaken, Holds
    <3> QED BY <3>1 DEF Atomic!Next
  <2>3. ASSUME NEW o \in Ops, NEW i \in Intents, NEW k \in Keys \cup {None},
               CreateReplay(o, i, k)
        PROVE  Atomic!Next
    <3>1. Atomic!Park(o)
      BY <2>3, SameComputations DEF CreateReplay, Atomic!Park, Holds, Exists
    <3> QED BY <3>1 DEF Atomic!Next
  <2>4. ASSUME NEW c \in Clients, BeginPoll(c) \/ BeginCall(c)
        PROVE  UNCHANGED <<ops, clock, acked, ledger>>
    <3>1. PICK call \in Call : Begin(c, call)
      BY <2>4, BeginPollOpens, BeginCallOpens DEF RowInv
    <3> QED BY <3>1 DEF Begin
  <2>5. ASSUME NEW c \in Clients, Outcome(c)
        PROVE  Atomic!Next \/ UNCHANGED <<ops, clock, acked, ledger>>
    BY <2>5, OutcomeIsAtomic DEF Atomic!Next
  <2>6. CASE UNCHANGED vars
    BY <2>6 DEF vars
  <2> QED BY <2>1, <2>2, <2>3, <2>4, <2>5, <2>6 DEF Next
<1> QED BY <1>1, <1>2, EvidenceInvariant, PTL DEF Spec, ImplementsAtomicStore, Atomic!Spec

-----------------------------------------------------------------------------
(* OperationStore implements ChallengeLifecycle.                           *)

\* What the contract sees of the store.
ContractVars ==
  <<[o \in Ops |-> ops[o].state], [o \in Ops |-> Holding(o)], [h \in Challenges |-> Standing(h)]>>

\* A commit of a call acts from a state its function allows, and ends in the state
\* the call asks for; a claim that was parked on the way was running.
LEMMA CommitMovesState ==
  ASSUME RowInv, NEW c \in Clients, CommitTransition(c) \/ CommitProgress(c)
  PROVE  /\ tx[c].call.kind \in TransitionKinds =>
              /\ ops'[tx[c].call.op].state = tx[c].call.to
              /\ \/ /\ ops[tx[c].call.op].state \in LegalFrom(tx[c].call.kind)
                    /\ IsTransitionAllowed(ops[tx[c].call.op].state, tx[c].call.to)
                 \/ /\ ops[tx[c].call.op].state = "running"
                    /\ "incomplete" \in LegalFrom(tx[c].call.kind)
                    /\ IsTransitionAllowed("incomplete", tx[c].call.to)
         /\ tx[c].call.kind = "clear" =>
              /\ ops[tx[c].call.op].state = "waiting_for_human"
              /\ ops'[tx[c].call.op].state = "waiting_for_human"
<1> DEFINE o == tx[c].call.op
           seen == Resolved(tx[c])
<1>1. /\ CommittedBy(c, o) /\ o \in Ops /\ tx[c].call \in Call /\ seen \in Row
      /\ tx[c] \in Tx /\ tx[c].snap \in Row
      /\ tx[c].expired => ClaimExpired(ops[o], clock)
      /\ ~tx[c].expired => seen = ops[o]
  BY CommitFacts, CommitOnRow, OpenTx DEF RowInv
<1>2. tx[c].expired => ops[o].state = "running" /\ seen.state = "incomplete"
  BY <1>1, ResolvedRow DEF ClaimExpired
<1>3. ASSUME tx[c].call.kind \in TransitionKinds
      PROVE  /\ ops'[o].state = tx[c].call.to
             /\ seen.state \in LegalFrom(tx[c].call.kind)
             /\ IsTransitionAllowed(seen.state, tx[c].call.to)
  <2>1. CommitTransition(c)
    BY <1>3 DEF CommitProgress, ProgressKinds, TransitionKinds
  <2>2. TransitionGate(tx[c].call, seen)
    BY <2>1 DEF CommitTransition
  <2>3. ops'[o] = Transitioned(c, tx[c].call, seen, clock)
    BY <1>1, <1>3 DEF CommittedBy, CommitProgress, ProgressKinds, TransitionKinds
  <2>4. tx[c].call.to \in States /\ clock \in Nat
    BY <2>1, CommitTransitionWrites DEF RowInv, TypeOK
  <2> QED BY <1>1, <2>2, <2>3, <2>4, TransitionedRow DEF TransitionGate
<1>4. ASSUME tx[c].call.kind = "clear"
      PROVE  ops[o].state = "waiting_for_human" /\ ops'[o].state = "waiting_for_human"
  <2>1. CommitProgress(c)
    BY <1>4 DEF CommitTransition, TransitionKinds
  <2>2. seen.state = "waiting_for_human"
    BY <1>4, <2>1 DEF CommitProgress, ProgressGate
  <2>3. ops'[o] = Merged(c, tx[c].call, seen)
    BY <1>1, <1>4 DEF CommittedBy, CommitTransition, TransitionKinds
  <2> QED BY <1>1, <1>2, <2>2, <2>3, MergedRow
<1> QED BY <1>1, <1>2, <1>3, <1>4

\* A step that changes no outcome and no challenge of a row is a creation, a move
\* or nothing to the contract.
LEMMA QuietOnContract ==
  ASSUME RowInv, [Next]_vars, ledger' = ledger, \A o \in Ops : Holding(o)' = Holding(o)
  PROVE  Evidences!Next \/ UNCHANGED ContractVars
<1> DEFINE seen == [o \in Ops |-> ops[o].state]
           held == [o \in Ops |-> Holding(o)]
           standing == [h \in Challenges |-> Standing(h)]
<1>1. held' = held /\ standing' = standing
  BY DEF Standing
<1>2. CASE seen' = seen
  BY <1>1, <1>2 DEF ContractVars
<1>3. CASE seen' # seen
  <2>1. ops \in [Ops -> Row \cup {Absent}]
    BY DEF RowInv, TypeOK
  <2>2. PICK o \in Ops : ops' = [ops EXCEPT ![o] = ops'[o]]
    BY <1>3, OneRowPerStep DEF RowInv
  <2>3. seen' = [seen EXCEPT ![o] = ops'[o].state] /\ seen[o] = ops[o].state
    BY <2>1, <2>2
  <2>4. ops'[o].state # ops[o].state
    BY <1>3, <2>3
  <2>5. CASE ops[o].state = "absent" /\ ops'[o].state = "pending"
    BY <1>1, <2>3, <2>5 DEF Evidences!Next, Evidences!Create
  <2>6. CASE ops[o].state \in States /\ ops'[o].state \in Allowed[ops[o].state]
    BY <1>1, <2>3, <2>6 DEF Evidences!Next, Evidences!Move, Evidences!States, Evidences!Allowed,
       States, Allowed
  <2> QED BY <2>4, <2>5, <2>6, StateMoves
<1> QED BY <1>2, <1>3

\* A commit of a call that is about no challenge.
LEMMA PlainCommitOnContract ==
  ASSUME RowInv, [Next]_vars, NEW c \in Clients, CommitTransition(c) \/ CommitProgress(c),
         CallFits(c), tx[c].call.kind \notin ChallengeKinds
  PROVE  Evidences!Next \/ UNCHANGED ContractVars
<1>1. /\ tx[c].call.op \in Ops /\ Open(c)
      /\ ops[tx[c].call.op] # Absent /\ ops'[tx[c].call.op] # Absent
      /\ ops'[tx[c].call.op].evidence
           = MergeEvidence(ops[tx[c].call.op].evidence, EvidencePatch(tx[c].call))
      /\ \A p \in Ops \ {tx[c].call.op} : ops'[p] = ops[p]
  BY CommitFacts, AbsentIsNoRow
<1>2. ops'[tx[c].call.op].evidence = ops[tx[c].call.op].evidence
  BY <1>1 DEF CallFits, MergeEvidence, EvidencePatch
<1>3. \A o \in Ops : Holding(o)' = Holding(o)
  BY <1>1, <1>2 DEF Holding, Exists
<1>4. ledger' = ledger
  BY PlainCommit
<1> QED BY <1>3, <1>4, QuietOnContract

\* A request that commits raises a challenge that nobody holds or has settled.
LEMMA RequestOnContract ==
  ASSUME RowInv, CallsHold, RowsHold, NEW c \in Clients,
         CommitTransition(c) \/ CommitProgress(c), tx[c].call.kind = "request"
  PROVE  Evidences!Next
<1>p. PICK o \in Ops : o = tx[c].call.op
  BY CommitFacts
<1>q. PICK h : h = tx[c].call.challenge
  OBVIOUS
<1>1. /\ o \in Ops /\ Open(c) /\ ops[o] \in Row /\ ops'[o] \in Row
      /\ ops[o].state \in States \ Terminal
      /\ ops'[o].evidence = MergeEvidence(ops[o].evidence, EvidencePatch(tx[c].call))
      /\ ledger' = Booked(tx[c].call, ledger)
      /\ \A p \in Ops \ {o} : ops'[p] = ops[p]
  BY <1>p, CommitFacts DEF Row
<1>2. h \in Challenges /\ Unheard(h) /\ tx[c].call.to = "waiting_for_human"
  BY <1>1, <1>q DEF CallsHold, CallFits, RequestIsFresh, Requesting, ChallengeKinds, RowInv, TypeOK,
              NextStates
<1>3. ledger' = ledger
  BY <1>1 DEF Booked
<1>4. ops'[o].evidence.id = h
  <2>1. ops[o].evidence.id # h /\ h # None
    BY <1>1, <1>2, AbsentIsNoRow, StoreAssumption DEF Unheard, RowHolds
  <2>2. EvidencePatch(tx[c].call) = [id |-> h, cleared |-> FALSE, consumed |-> FALSE]
    BY <1>q, PlainPatch
  <2> QED BY <1>1, <2>1, <2>2 DEF MergeEvidence
<1>5. /\ ops'[o].state = "waiting_for_human"
      /\ IsTransitionAllowed(ops[o].state, "waiting_for_human")
  BY <1>p, <1>2, CommitMovesState DEF TransitionKinds, IsTransitionAllowed, Allowed
<1>6. ops[o] # Absent /\ ops'[o] # Absent
  BY <1>1, AbsentIsNoRow
<1>7. Standing(h) = "open"
  BY <1>2 DEF Standing, Unheard, NoOutcome
<1>8. \A p \in Ops : Holding(p) # h
  BY <1>2, StoreAssumption DEF Unheard, RowHolds, Holding, Exists
<1> DEFINE seen == [p \in Ops |-> ops[p].state]
           held == [p \in Ops |-> Holding(p)]
           standing == [g \in Challenges |-> Standing(g)]
<1>9. /\ seen' = [seen EXCEPT ![o] = "waiting_for_human"]
      /\ held' = [held EXCEPT ![o] = h]
      /\ standing' = standing
  BY <1>1, <1>3, <1>4, <1>5, <1>6 DEF Holding, Exists, Standing
<1>10. Evidences!Raise(o, h)
  BY <1>1, <1>2, <1>5, <1>7, <1>8, <1>9
     DEF Evidences!Raise, Evidences!States, Evidences!Terminal, Evidences!IsTransitionAllowed,
         Evidences!Allowed, States, Terminal, IsTransitionAllowed, Allowed
<1>11. o \in Ops /\ h \in Challenges
  BY <1>1, <1>2
<1> QED BY <1>10, <1>11 DEF Evidences!Next

\* A result finds its challenge in the row, with no result or with a clear only,
\* and makes it the challenge's standing.
LEMMA ResultStanding ==
  ASSUME RowInv, CallsHold, RowsHold, NEW c \in Clients,
         CommitTransition(c) \/ CommitProgress(c), tx[c].call.kind \in {"clear", "deny", "consume"},
         NEW o, NEW h, o = tx[c].call.op, h = tx[c].call.challenge
  PROVE  /\ h \in Challenges
         /\ ops[o].evidence.id = h
         /\ ops'[o].evidence.id = h
         /\ Standing(h) = IF tx[c].call.kind = "consume" THEN "cleared" ELSE "open"
         /\ Standing(h)' = CASE tx[c].call.kind = "clear"   -> "cleared"
                              [] tx[c].call.kind = "deny"    -> "denied"
                              [] tx[c].call.kind = "consume" -> "consumed"
         /\ \A g \in Challenges \ {h} : Standing(g)' = Standing(g)
<1> DEFINE old == ops[o].evidence
<1>1. /\ o \in Ops /\ Open(c) /\ ops[o] \in Row /\ ops'[o] \in Row
      /\ ops[o].state \notin Terminal
      /\ EvidenceCas(tx[c].call, ops[o])
      /\ ops'[o].evidence = MergeEvidence(old, EvidencePatch(tx[c].call))
      /\ ledger' = Booked(tx[c].call, ledger)
  BY CommitFacts
<1>2. h \in Challenges
  BY <1>1 DEF CallsHold, CallFits, ChallengeKinds, RowInv, TypeOK
<1>3. old.id = h /\ RowHolds(o, h)
  BY <1>1, AbsentIsNoRow DEF EvidenceCas, RowHolds
<1>4. /\ old \in Evidence /\ ledger \in [Challenges -> [cleared : Nat, consumed : Nat, denied : Nat]]
      /\ ledger[h].cleared \in Nat /\ ledger[h].consumed \in Nat /\ ledger[h].denied \in Nat
  BY <1>1, <1>2 DEF RowInv, TypeOK, Row
<1>5. /\ ledger[h].cleared = Bit(old.cleared) /\ ledger[h].consumed = Bit(old.consumed)
      /\ old.consumed => old.cleared
      /\ ledger[h].denied = 0
  <2>1. ops[o].state # "canceled"
    BY <1>1 DEF Terminal
  <2> QED BY <1>1, <1>2, <1>3, <1>4, <2>1 DEF RowsHold, RowBooked
<1>6. ops'[o].evidence.id = h
  BY <1>1, <1>3, <1>4 DEF MergeEvidence, EvidencePatch, Evidence
<1>7. \A g \in Challenges \ {h} : ledger'[g] = ledger[g]
  BY <1>1, <1>2, <1>4 DEF Booked
<1>8. \A g \in Challenges \ {h} : Standing(g)' = Standing(g)
  BY <1>7 DEF Standing
<1>9. CASE tx[c].call.kind = "clear"
  <2>1. ledger[h].cleared = 0 /\ ledger[h].consumed = 0
    BY <1>1, <1>5, <1>9 DEF EvidenceCas, Bit
  <2>2. /\ ledger'[h].cleared = ledger[h].cleared + 1
        /\ ledger'[h].consumed = ledger[h].consumed /\ ledger'[h].denied = ledger[h].denied
    BY <1>1, <1>2, <1>4, <1>9 DEF Booked
  <2>3. Standing(h) = "open" /\ Standing(h)' = "cleared"
    BY <1>5, <2>1, <2>2 DEF Standing
  <2> QED BY <1>2, <1>3, <1>6, <1>8, <1>9, <2>3
<1>10. CASE tx[c].call.kind = "deny"
  <2>1. ledger[h].cleared = 0 /\ ledger[h].consumed = 0
    BY <1>1, <1>5, <1>10 DEF EvidenceCas, Bit
  <2>2. /\ ledger'[h].denied = ledger[h].denied + 1
        /\ ledger'[h].consumed = ledger[h].consumed /\ ledger'[h].cleared = ledger[h].cleared
    BY <1>1, <1>2, <1>4, <1>10 DEF Booked
  <2>3. Standing(h) = "open" /\ Standing(h)' = "denied"
    BY <1>5, <2>1, <2>2 DEF Standing
  <2> QED BY <1>2, <1>3, <1>6, <1>8, <1>10, <2>3
<1>11. CASE tx[c].call.kind = "consume"
  <2>1. ledger[h].cleared = 1 /\ ledger[h].consumed = 0
    BY <1>1, <1>5, <1>11 DEF EvidenceCas, Bit
  <2>2. /\ ledger'[h].consumed = ledger[h].consumed + 1
        /\ ledger'[h].denied = ledger[h].denied /\ ledger'[h].cleared = ledger[h].cleared
    BY <1>1, <1>2, <1>4, <1>11 DEF Booked
  <2>3. Standing(h) = "cleared" /\ Standing(h)' = "consumed"
    BY <1>5, <2>1, <2>2 DEF Standing
  <2> QED BY <1>2, <1>3, <1>6, <1>8, <1>11, <2>3
<1> QED BY <1>9, <1>10, <1>11

\* A result that commits settles the challenge its Operation holds.
LEMMA ResultOnContract ==
  ASSUME RowInv, CallsHold, RowsHold, NEW c \in Clients,
         CommitTransition(c) \/ CommitProgress(c), tx[c].call.kind \in {"clear", "deny", "consume"}
  PROVE  Evidences!Next
<1>p. PICK o \in Ops : o = tx[c].call.op
  BY CommitFacts
<1>q. PICK h, kind : h = tx[c].call.challenge /\ kind = tx[c].call.kind
  OBVIOUS
<1>1. /\ o \in Ops /\ ops[o] # Absent /\ ops'[o] # Absent
      /\ \A p \in Ops \ {o} : ops'[p] = ops[p]
      /\ tx[c].call.to \in NextStates(kind) /\ h # None
  <2>1. Open(c) /\ CallFits(c) /\ issued \subseteq Challenges
    BY CommitFacts DEF CallsHold, RowInv, TypeOK
  <2> QED BY <1>p, <1>q, <2>1, CommitFacts, AbsentIsNoRow, StoreAssumption DEF CallFits, ChallengeKinds
<1>2. /\ h \in Challenges /\ ops[o].evidence.id = h /\ ops'[o].evidence.id = h
      /\ Standing(h) = IF kind = "consume" THEN "cleared" ELSE "open"
      /\ Standing(h)' = CASE kind = "clear"   -> "cleared"
                          [] kind = "deny"    -> "denied"
                          [] kind = "consume" -> "consumed"
      /\ \A g \in Challenges \ {h} : Standing(g)' = Standing(g)
  BY <1>p, <1>q, ResultStanding
<1>3. /\ kind = "clear" => ops[o].state = "waiting_for_human" /\ ops'[o].state = "waiting_for_human"
      /\ kind = "deny" => ops[o].state \in Cancelable /\ ops'[o].state = "canceled"
      /\ kind = "consume" => ops[o].state = "waiting_for_human" /\ ops'[o].state = "running"
  BY <1>1, <1>p, <1>q, CommitMovesState DEF TransitionKinds, NextStates, LegalFrom, Cancelable
<1> DEFINE seen == [p \in Ops |-> ops[p].state]
           held == [p \in Ops |-> Holding(p)]
           standing == [g \in Challenges |-> Standing(g)]
<1>4. /\ seen' = [seen EXCEPT ![o] = ops'[o].state] /\ seen[o] = ops[o].state
      /\ held' = held /\ held[o] = h
      /\ standing' = [standing EXCEPT ![h] = Standing(h)'] /\ standing[h] = Standing(h)
  <2>1. seen' = [seen EXCEPT ![o] = ops'[o].state] /\ seen[o] = ops[o].state
    BY <1>1
  <2>2. Holding(o) = h /\ \A p \in Ops : Holding(p)' = Holding(p)
    BY <1>1, <1>2 DEF Holding, Exists
  <2>3. standing' = [standing EXCEPT ![h] = Standing(h)'] /\ standing[h] = Standing(h)
    BY <1>2
  <2> QED BY <1>1, <2>1, <2>2, <2>3
<1>5. CASE kind = "clear"
  BY <1>1, <1>2, <1>3, <1>4, <1>5 DEF Evidences!Next, Evidences!Clear, Evidences!Settle
<1>6. CASE kind = "deny"
  BY <1>1, <1>2, <1>3, <1>4, <1>6
     DEF Evidences!Next, Evidences!Deny, Evidences!Settle, Evidences!Cancelable, Cancelable
<1>7. CASE kind = "consume"
  BY <1>1, <1>2, <1>3, <1>4, <1>7 DEF Evidences!Next, Evidences!Consume, Evidences!Settle
<1> QED BY <1>5, <1>6, <1>7, <1>q

\* The Operation Store keeps the contract of challenges for any number of
\* concurrent requests, Operations and challenges.
THEOREM StoreImplementsChallenges == Spec => ImplementsChallenges
<1>1. Init => Evidences!Init
  BY DEF Init, Evidences!Init, Absent, Holding, Exists, Standing
<1>2. RowInv /\ CallsHold /\ RowsHold /\ [Next]_vars => [Evidences!Next]_(Evidences!vars)
  <2> SUFFICES ASSUME RowInv, CallsHold, RowsHold, [Next]_vars
               PROVE  Evidences!Next \/ UNCHANGED ContractVars
    BY DEF ContractVars, Evidences!vars
  <2>1. ASSUME NEW c \in Clients, CommitTransition(c) \/ CommitProgress(c)
        PROVE  Evidences!Next \/ UNCHANGED ContractVars
    <3>1. CallFits(c)
      BY DEF CallsHold
    <3> QED BY <2>1, <3>1, PlainCommitOnContract, RequestOnContract, ResultOnContract
            DEF ChallengeKinds
  <2>2. CASE ~\E c \in Clients : CommitTransition(c) \/ CommitProgress(c)
    <3>1. ledger' = ledger
      BY <2>2, QuietStep
    <3>2. ASSUME NEW o \in Ops PROVE Holding(o)' = Holding(o)
      <4>1. ~\E c \in Clients : CommittedBy(c, o)
        BY <2>2 DEF CommittedBy
      <4>2. CASE \E i \in Intents, k \in Keys \cup {None} : ops[o] = Absent /\ ops'[o] = NewRow(i, k)
        <5>1. ops'[o].evidence.id = None
          BY <4>2 DEF NewRow, NoEvidence
        <5> QED BY <4>2, <5>1 DEF Holding, Exists
      <4>3. CASE ops[o] \in Row /\ ops'[o] = Parked(ops[o])
        BY <4>3, ParkedRow, AbsentIsNoRow DEF Holding, Exists
      <4>4. CASE ops'[o] = ops[o]
        BY <4>4 DEF Holding, Exists
      <4> QED BY <4>1, <4>2, <4>3, <4>4, RowMoves DEF Move
    <3> QED BY <3>1, <3>2, QuietOnContract
  <2> QED BY <2>1, <2>2
<1> QED BY <1>1, <1>2, EvidenceInvariant, PTL DEF Spec, ImplementsChallenges, Evidences!Spec
=============================================================================
