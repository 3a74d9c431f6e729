------------------------------ MODULE AtomicStore ------------------------------
(***************************************************************************)
(* What the Operation Store promises to its callers: every call happens at *)
(* one instant.  A committed call decides on the row that is stored at     *)
(* that instant and writes its result there; there are no snapshots, no    *)
(* compare-and-set and no transactions, and a row whose claim has expired  *)
(* may be parked at any moment, by nobody in particular.  A call whose     *)
(* deadline passed while it was open may take either view of the claim.    *)
(*                                                                         *)
(* OperationStore is shown to implement this specification.  The modules   *)
(* about the callers of the store (SecretSyncRun, HighAssurance,           *)
(* BackupExport) make each of its calls one step, which is what this       *)
(* specification allows them.                                              *)
(***************************************************************************)
EXTENDS OperationRows

VARIABLES
  ops,    \* the operations table
  clock,  \* the time every Worker and the database read
  acked,  \* per Operation, the clients whose audit reference was acknowledged
  ledger  \* per challenge, how often each evidence outcome committed

vars == <<ops, clock, acked, ledger>>

Init ==
  /\ ops    = [o \in Ops |-> Absent]
  /\ clock  = 0
  /\ acked  = [o \in Ops |-> {}]
  /\ ledger = [h \in Challenges |-> [cleared |-> 0, consumed |-> 0, denied |-> 0]]

Tick ==
  /\ clock' = clock + 1
  /\ UNCHANGED <<ops, acked, ledger>>

\* createOperation: a key names one Operation.
Create(o, intent, key) ==
  /\ ops[o] = Absent
  /\ key # None => \A p \in Ops : ops[p] = Absent \/ ops[p].key # key
  /\ ops' = [ops EXCEPT ![o] = NewRow(intent, key)]
  /\ UNCHANGED <<clock, acked, ledger>>

\* The lazy evaluation of an abandoned claim, on any path that reads the row.
Park(o) ==
  /\ ops[o] # Absent
  /\ ClaimExpired(ops[o], clock)
  /\ ops' = [ops EXCEPT ![o] = Parked(@)]
  /\ UNCHANGED <<clock, acked, ledger>>

\* The rows a call on o may decide on: the stored one, or the stored one parked.
Seen(o) ==
  {ops[o]} \cup {row \in {Parked(ops[o])} : ClaimExpired(ops[o], clock)}

\* A call commits the row it computed, with the evidence clauses of its UPDATE.
Commit(c, call, row, written) ==
  /\ EvidenceCas(call, row)
  /\ ops' = [ops EXCEPT ![call.op] = written]
  /\ acked' = [acked EXCEPT ![call.op] = @ \cup {c}]
  /\ ledger' = Booked(call, ledger)
  /\ UNCHANGED clock

\* A transition that is not a replay, legal from the row it sees.
Transition(c, call, row) ==
  /\ call.kind \in TransitionKinds
  /\ KeyMatches(call, row)
  /\ ~IsReplay(call, row)
  /\ TransitionGate(call, row)
  /\ Commit(c, call, row, Transitioned(c, call, row, clock))

\* A progress update or the clear of a challenge.
Progress(c, call, row) ==
  /\ call.kind \in ProgressKinds
  /\ ProgressGate(call, row)
  /\ Commit(c, call, row, Merged(c, call, row))

\* Some call on o commits.  The second conjunct follows from the last, since
\* every call adds to the revision: it saves an evaluator the search.
Called(o) ==
  /\ ops[o] # Absent
  /\ ops'[o] # ops[o]
  /\ \E c \in Clients, call \in Mutations, row \in Seen(o) :
       call.op = o /\ (Transition(c, call, row) \/ Progress(c, call, row))

Next ==
  \/ Tick
  \/ \E o \in Ops, i \in Intents, k \in Keys \cup {None} : Create(o, i, k)
  \/ \E o \in Ops : Park(o) \/ Called(o)

Spec == Init /\ [][Next]_vars
=============================================================================
