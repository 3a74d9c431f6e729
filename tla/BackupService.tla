----------------------------- MODULE BackupService -----------------------------
(***************************************************************************)
(* What backups promise to whoever relies on them, from the source to the  *)
(* restored copy.  An export is sealed once and never changes; the latest  *)
(* pointer moves among complete exports, and never back behind one that    *)
(* was reported as published; a target that is declared restored holds     *)
(* the importable rows of one sealed export, once and for good.            *)
(*                                                                         *)
(* There are no runs, no reads that are not one snapshot, no lost answers  *)
(* and no deaths here: BackupRestore is shown to implement this            *)
(* specification with them.                                                *)
(***************************************************************************)
EXTENDS Naturals

CONSTANTS
  Exports,   \* the scheduled instants, positive numbers
  Sound,     \* the contents that the constraints of a target admit
  None

VARIABLES
  sealed,    \* per export, its content, or None
  complete,  \* the exports that are recorded as succeeded
  latest,    \* the export the latest pointer names, 0 for none
  published, \* the exports that a run reported as published
  restored   \* the export and the rows of a target declared restored, or None

vars == <<sealed, complete, latest, published, restored>>

Init ==
  /\ sealed = [s \in Exports |-> None]
  /\ complete = {}
  /\ latest = 0
  /\ published = {}
  /\ restored = None

Seal(s) ==
  /\ sealed[s] = None
  /\ sealed'[s] \in Sound
  /\ sealed' = [sealed EXCEPT ![s] = sealed'[s]]
  /\ UNCHANGED <<complete, latest, published, restored>>

Complete(s) ==
  /\ s \notin complete
  /\ sealed[s] # None
  /\ complete' = complete \cup {s}
  /\ UNCHANGED <<sealed, latest, published, restored>>

\* The pointer moves, and the answer may be lost.
Publish(s) ==
  /\ s \in complete
  /\ latest <= s
  /\ latest' = s
  /\ published' \in {published, published \cup {s}}
  /\ UNCHANGED <<sealed, complete, restored>>

\* A newer export is as good.
Overtaken(s) ==
  /\ s \in complete
  /\ s < latest
  /\ published' = published \cup {s}
  /\ UNCHANGED <<sealed, complete, latest, restored>>

\* A claim on an organization that the export does not hold is dropped.
Restore(s) ==
  /\ restored = None
  /\ sealed[s] # None
  /\ restored' = [export |-> s, rows |-> [sealed[s] EXCEPT !.claims = @ \cap sealed[s].orgs]]
  /\ UNCHANGED <<sealed, complete, latest, published>>

Next ==
  \E s \in Exports :
    Seal(s) \/ Complete(s) \/ Publish(s) \/ Overtaken(s) \/ Restore(s)

Spec == Init /\ [][Next]_vars
=============================================================================
