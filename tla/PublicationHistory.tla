-------------------------- MODULE PublicationHistory --------------------------
(***************************************************************************)
(* What Secret Versions and Approval Requests promise to those who call    *)
(* them side by side: every call takes effect in one step, on what it      *)
(* finds at that step.  A secret has a history of published versions that  *)
(* only grows at its end; a request publishes all of its change set or     *)
(* nothing of it, and closes when a draft of it is discarded; one          *)
(* promotion is pending at a time.                                         *)
(*                                                                         *)
(* There are no locks, no jobs and no guards on version numbers here:      *)
(* ProtectedPromotion is shown to implement this specification with them.  *)
(***************************************************************************)
EXTENDS Naturals, Sequences

CONSTANTS Secrets, Unprotected, Versions, Requests

VARIABLES
  history,  \* per secret, its published versions; the last one is live
  drafts,   \* per secret, its drafts
  known,    \* the versions that were ever created
  status,   \* per request, "none", its purpose while it is pending, or how it ended
  scope     \* per request, its change set

vars == <<history, drafts, known, status, scope>>

Pending == {"promotion", "rollback"}

Init ==
  /\ history = [s \in Secrets |-> << >>]
  /\ drafts  = [s \in Secrets |-> {}]
  /\ known   = {}
  /\ status  = [q \in Requests |-> "none"]
  /\ scope   = [q \in Requests |-> {}]

AddDraft(v, s) ==
  /\ drafts' = [drafts EXCEPT ![s] = @ \cup {v}]
  /\ known' = known \cup {v}
  /\ UNCHANGED history

\* A write, or a copy of an older version.
Draft(v, s) ==
  /\ AddDraft(v, s)
  /\ UNCHANGED <<status, scope>>

\* An environment that is not protected publishes at once.
WriteLive(v, s) ==
  /\ history' = [history EXCEPT ![s] = Append(@, v)]
  /\ known' = known \cup {v}
  /\ UNCHANGED <<drafts, status, scope>>

Ask(q, purpose, targets, superseded) ==
  /\ status' = [p \in Requests |-> IF p = q THEN purpose
                                   ELSE IF p \in superseded THEN "closed" ELSE status[p]]
  /\ scope' = [scope EXCEPT ![q] = targets]

\* The change set was reviewed earlier: what it names may be discarded or published
\* by now, and is then refused by the publish.
Promote(q) ==
  /\ status[q] = "none"
  /\ \E targets \in (SUBSET known) \ {{}} :
       Ask(q, "promotion", targets, {p \in Requests : status[p] = "promotion"})
  /\ UNCHANGED <<history, drafts, known>>

\* A version before the live one is copied, with a request to publish the copy.
Rollback(q, v, s) ==
  /\ status[q] = "none"
  /\ Len(history[s]) > 1
  /\ AddDraft(v, s)
  /\ Ask(q, "rollback", {v}, {})

Publish(q) ==
  /\ status[q] \in Pending
  /\ scope[q] \subseteq UNION {drafts[s] : s \in Secrets}
  /\ \A s \in Secrets : \A v, w \in scope[q] \cap drafts[s] : v = w
  /\ history' = [s \in Secrets |->
                   IF scope[q] \cap drafts[s] = {} THEN history[s]
                   ELSE Append(history[s], CHOOSE v \in scope[q] : v \in drafts[s])]
  /\ drafts' = [s \in Secrets |-> drafts[s] \ scope[q]]
  /\ status' = [status EXCEPT ![q] = "applied"]
  /\ UNCHANGED <<known, scope>>

Decline(q) ==
  /\ status[q] \in Pending
  /\ status' = [status EXCEPT ![q] = "closed"]
  /\ UNCHANGED <<history, drafts, known, scope>>

Discard(v) ==
  /\ v \in UNION {drafts[s] : s \in Secrets}
  /\ drafts' = [s \in Secrets |-> drafts[s] \ {v}]
  /\ status' = [q \in Requests |-> IF status[q] \in Pending /\ v \in scope[q] THEN "closed"
                                   ELSE status[q]]
  /\ UNCHANGED <<history, known, scope>>

Next ==
  \/ \E v \in Versions \ known :
       \/ \E s \in Secrets \cap Unprotected : WriteLive(v, s)
       \/ \E s \in Secrets \ Unprotected :
            Draft(v, s) \/ \E q \in Requests : Rollback(q, v, s)
  \/ \E v \in known : Discard(v)
  \/ \E q \in Requests : Promote(q) \/ Publish(q) \/ Decline(q)

Spec == Init /\ [][Next]_vars
=============================================================================
