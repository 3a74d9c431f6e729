-------------------------- MODULE ChallengeLifecycle --------------------------
(***************************************************************************)
(* The contract between the Operation Store and the gates that spend       *)
(* High-Assurance Challenges.  A challenge is raised for one Operation,    *)
(* which waits for a human; it is cleared or denied, not both, and once;   *)
(* only cleared evidence is consumed, once, by the step that resumes its   *)
(* Operation; a denial cancels it.                                         *)
(*                                                                         *)
(* OperationStore is shown to implement this specification with its        *)
(* compare-and-set calls, HighAssurance with its chains of transactions:   *)
(* what one module assumes of the store is what the other one provides.    *)
(***************************************************************************)
EXTENDS OperationStates

CONSTANTS Operations, Challenges, None

VARIABLES
  state,  \* per Operation, its state, or "absent" before it is created
  held,   \* per Operation, the challenge in its row, or None
  status  \* per challenge, its last outcome

vars == <<state, held, status>>

Init ==
  /\ state  = [o \in Operations |-> "absent"]
  /\ held   = [o \in Operations |-> None]
  /\ status = [h \in Challenges |-> "open"]

Create(o) ==
  /\ state[o] = "absent"
  /\ state' = [state EXCEPT ![o] = "pending"]
  /\ UNCHANGED <<held, status>>

\* Any other call moves the Operation along one arm of the transition table and
\* leaves the evidence alone.
Move(o) ==
  /\ state[o] \in States
  /\ \E to \in Allowed[state[o]] : state' = [state EXCEPT ![o] = to]
  /\ UNCHANGED <<held, status>>

\* A new challenge replaces the one the Operation holds.
Raise(o, h) ==
  /\ state[o] \in States \ Terminal
  /\ IsTransitionAllowed(state[o], "waiting_for_human")
  /\ status[h] = "open"
  /\ \A p \in Operations : held[p] # h
  /\ state' = [state EXCEPT ![o] = "waiting_for_human"]
  /\ held' = [held EXCEPT ![o] = h]
  /\ UNCHANGED status

\* The challenge o holds passes from one status to another while o is in one of
\* some states, and moves o to "to".
Settle(o, before, after, from, to) ==
  /\ held[o] # None
  /\ status[held[o]] = before
  /\ state[o] \in from
  /\ status' = [status EXCEPT ![held[o]] = after]
  /\ state' = [state EXCEPT ![o] = to]
  /\ UNCHANGED held

Clear(o)   == Settle(o, "open", "cleared", {"waiting_for_human"}, "waiting_for_human")
Deny(o)    == Settle(o, "open", "denied", Cancelable, "canceled")
Consume(o) == Settle(o, "cleared", "consumed", {"waiting_for_human"}, "running")

Next ==
  \E o \in Operations :
    \/ Create(o) \/ Move(o)
    \/ \E h \in Challenges : Raise(o, h)
    \/ Clear(o) \/ Deny(o) \/ Consume(o)

Spec == Init /\ [][Next]_vars
=============================================================================
