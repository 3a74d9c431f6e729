-------------------------- MODULE OperationLifecycle --------------------------
(***************************************************************************)
(* What a caller of the Operation Store may rely on: an Operation is       *)
(* created pending, moves one arm of the transition table at a time, and   *)
(* stays where it is once it is terminal.  OperationStore, SecretSyncRun   *)
(* and BackupRestore are shown to implement this specification.            *)
(***************************************************************************)
EXTENDS OperationStates

CONSTANT Operations

VARIABLE state  \* per Operation, its state, or "absent" before it is created

Init == state = [o \in Operations |-> "absent"]

Create(o) ==
  /\ state[o] = "absent"
  /\ state' = [state EXCEPT ![o] = "pending"]

Move(o) ==
  /\ state[o] \in States
  /\ \E to \in Allowed[state[o]] : state' = [state EXCEPT ![o] = to]

Next == \E o \in Operations : Create(o) \/ Move(o)

Spec == Init /\ [][Next]_state
=============================================================================
