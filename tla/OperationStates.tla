--------------------------- MODULE OperationStates ---------------------------
(***************************************************************************)
(* The nine-state set of an Operation and its transition matrix            *)
(* (packages/operations/src/operation-states.ts).  Every module about      *)
(* Operations extends this one.                                            *)
(***************************************************************************)

States == {"pending", "waiting_for_human", "running", "blocked", "incomplete",
           "succeeded", "completed_with_warnings", "canceled", "failed"}

Terminal == {"succeeded", "completed_with_warnings", "canceled", "failed"}

Cancelable == {"pending", "waiting_for_human", "running", "blocked", "incomplete"}

Retryable == {"blocked", "incomplete"}

Allowed ==
  [pending                 |-> {"running", "blocked", "canceled", "waiting_for_human"},
   waiting_for_human       |-> {"running", "blocked", "canceled"},
   running                 |-> {"waiting_for_human", "blocked", "incomplete", "succeeded",
                                "completed_with_warnings", "failed", "canceled"},
   blocked                 |-> {"running", "canceled"},
   incomplete              |-> {"running", "canceled"},
   succeeded               |-> {},
   completed_with_warnings |-> {},
   canceled                |-> {},
   failed                  |-> {}]

\* A same-state write is allowed by the table itself, terminal states included.
IsTransitionAllowed(from, to) == from = to \/ to \in Allowed[from]
=============================================================================
