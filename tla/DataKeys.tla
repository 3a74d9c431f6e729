------------------------------- MODULE DataKeys -------------------------------
(***************************************************************************)
(* The wrapped data keys of one Organization (packages/crypto, packages/   *)
(* tenant-keyring, packages/tenant-store/src/data-keys).                   *)
(*                                                                         *)
(* A data key is minted on first use, stored wrapped under a version of    *)
(* the instance root key, and unwrapped by every request that encrypts or  *)
(* decrypts.  A rotation of the root key sweeps over the rows and rewraps  *)
(* them.  Requests and sweeps are chains of transactions and take no lock  *)
(* against each other; only the insert of a minted key is serialized.      *)
(***************************************************************************)
EXTENDS Naturals

CONSTANTS
  Projects,  \* the Projects of the Organization
  Clients,   \* concurrent requests
  Sweepers,  \* concurrent runs of the rewrap
  MaxRoot,   \* bound on the root key versions
  MaxKeys,   \* bound on the keys minted
  None       \* no row

ASSUME DataKeyAssumption ==
  /\ MaxRoot \in Nat \ {0}
  /\ MaxKeys \in Nat
  /\ None \notin Projects

VARIABLES
  organization,  \* the row of the organization data key
  projects,      \* per Project, the row of its data key
  current,       \* DEFAULT_ROOT_KEY_VERSION of the deployed Workers
  minted,        \* history: how many keys were generated; the n-th key is n
  calls,         \* per request, its use of the keyring
  sweeps         \* per sweep, its progress and what it read

keyVars == <<organization, projects, current, minted, calls, sweeps>>

-----------------------------------------------------------------------------
(* Rows, calls and sweeps.                                                 *)

Roots == 1 .. MaxRoot

\* A key and the root key version its stored blob is wrapped under.  The row of the
\* Organization names that version in a column, the row of a Project does not.
Row == [key : Nat, root : Roots]

ASSUME AbsentRow == None \notin Row

CallPhases == {"idle", "organization", "mintOrganization", "root", "project", "mintProject",
               "resolve", "unwrap", "ready"}

\* "key" is the key in hand; "cached" are the root versions the keyring of this
\* request has unwrapped it under.
Call == [phase : CallPhases, project : Projects \cup {None}, root : Nat, key : Nat,
         cached : SUBSET Roots]

NoCall == [phase |-> "idle", project |-> None, root |-> 0, key |-> 0, cached |-> {}]

Sweep == [phase : {"idle", "listing", "rewrapping", "verifying", "verified"}, old : Nat,
          organization : Row \cup {None}, projects : [Projects -> Row \cup {None}],
          todo : SUBSET Projects]

NoProjects == [p \in Projects |-> None]

NoSweep == [phase |-> "idle", old |-> 0, organization |-> None, projects |-> NoProjects,
            todo |-> {}]

InCall(c, phase) == calls[c].phase = phase

KeyInit ==
  /\ organization = None
  /\ projects     = NoProjects
  /\ current      = 1
  /\ minted       = 0
  /\ calls        = [c \in Clients |-> NoCall]
  /\ sweeps       = [s \in Sweepers |-> NoSweep]

-----------------------------------------------------------------------------
(* Minting on first use.                                                   *)

\* Mutant of Committed: the last writer wins.
CommittedLast(existing, new) == new

\* persist...DataKeyAuthoritative: under an advisory lock the key that is already
\* stored wins, and the caller goes on with it.
Committed(existing, new) == IF existing = None THEN new ELSE existing

BeginEncrypt(c, p) ==
  /\ InCall(c, "idle")
  /\ calls' = [calls EXCEPT ![c] = [NoCall EXCEPT !.phase = "organization", !.project = p]]
  /\ UNCHANGED <<organization, projects, current, minted, sweeps>>

\* ensureActiveOrganizationKey.
ReadOrganization(c) ==
  /\ InCall(c, "organization")
  /\ calls' = [calls EXCEPT ![c].phase = IF organization = None THEN "mintOrganization"
                                                                ELSE "root"]
  /\ UNCHANGED <<organization, projects, current, minted, sweeps>>

MintOrganization(c) ==
  /\ InCall(c, "mintOrganization")
  /\ minted < MaxKeys
  /\ minted' = minted + 1
  /\ organization' = Committed(organization, [key |-> minted + 1, root |-> current])
  /\ calls' = [calls EXCEPT ![c].phase = "root"]
  /\ UNCHANGED <<projects, current, sweeps>>

\* ensureActiveProjectKey: the root version is read from the row of the Organization
\* in a transaction of its own ...
ReadRoot(c) ==
  /\ InCall(c, "root")
  /\ organization # None
  /\ calls' = [calls EXCEPT ![c].phase = "project", ![c].root = organization.root]
  /\ UNCHANGED <<organization, projects, current, minted, sweeps>>

ReadProject(c) ==
  /\ InCall(c, "project")
  /\ IF projects[calls[c].project] = None
       THEN calls' = [calls EXCEPT ![c].phase = "mintProject"]
       ELSE calls' = [calls EXCEPT ![c].phase = "resolve", ![c].root = 0]
  /\ UNCHANGED <<organization, projects, current, minted, sweeps>>

\* ... and the key is wrapped under that version, whatever it is by now.
MintProject(c) ==
  LET p == calls[c].project IN
  /\ InCall(c, "mintProject")
  /\ minted < MaxKeys
  /\ minted' = minted + 1
  /\ projects' = [projects EXCEPT ![p] =
                    Committed(@, [key |-> minted + 1, root |-> calls[c].root])]
  /\ calls' = [calls EXCEPT ![c].phase = "resolve", ![c].root = 0]
  /\ UNCHANGED <<organization, current, sweeps>>

-----------------------------------------------------------------------------
(* Keyring.getProjectDataKey.                                              *)

\* A request that decrypts names the versions in its ciphertext and mints nothing.
BeginDecrypt(c, p) ==
  /\ InCall(c, "idle")
  /\ calls' = [calls EXCEPT ![c] = [NoCall EXCEPT !.phase = "resolve", !.project = p]]
  /\ UNCHANGED <<organization, projects, current, minted, sweeps>>

\* resolveVersions, and the cache of the request's keyring.
Resolve(c) ==
  /\ InCall(c, "resolve")
  /\ organization # None
  /\ projects[calls[c].project] # None
  /\ IF organization.root \in calls[c].cached
       THEN calls' = [calls EXCEPT ![c].phase = "ready"]
       ELSE calls' = [calls EXCEPT ![c].phase = "unwrap", ![c].root = organization.root]
  /\ UNCHANGED <<organization, projects, current, minted, sweeps>>

\* unwrapProjectDataKey: the blob opens under its own root version only.
Unwrap(c) ==
  LET row == projects[calls[c].project] IN
  /\ InCall(c, "unwrap")
  /\ row # None
  /\ row.root = calls[c].root
  /\ calls' = [calls EXCEPT ![c].phase = "ready", ![c].key = row.key, ![c].root = 0,
                            ![c].cached = @ \cup {row.root}]
  /\ UNCHANGED <<organization, projects, current, minted, sweeps>>

\* The next ciphertext of the same request.
ResolveAgain(c) == calls' = [calls EXCEPT ![c].phase = "resolve"]

\* The request is answered, a read or an unwrap fails, or its Worker dies.
EndCall(c) == calls' = [calls EXCEPT ![c] = NoCall]

-----------------------------------------------------------------------------
(* Rotation of the root key.                                               *)

\* ADR-0028: the deploy that binds the next root key version and wraps with it.
DeployRoot ==
  /\ current < MaxRoot
  /\ current' = current + 1
  /\ UNCHANGED <<organization, projects, minted, calls, sweeps>>

\* rewrapTenantDataKeys from the version before the current one to the current one.
BeginSweep(s) ==
  /\ sweeps[s].phase \in {"idle", "verified"}
  /\ current > 1
  /\ sweeps' = [sweeps EXCEPT ![s] = [NoSweep EXCEPT !.phase = "listing", !.old = current - 1,
                                                     !.organization = organization]]
  /\ UNCHANGED <<organization, projects, current, minted, calls>>

ListProjects(s) ==
  /\ sweeps[s].phase = "listing"
  /\ sweeps' = [sweeps EXCEPT ![s].phase = "rewrapping", ![s].projects = projects,
                              ![s].todo = {p \in Projects : projects[p] # None}]
  /\ UNCHANGED <<organization, projects, current, minted, calls>>

\* The same key bytes under the next root version.
Rewrapped(row, old) == [row EXCEPT !.root = old + 1]

\* rewrapProjectKeys decides on the row it listed and writes without a guard.
RewrapProject(s, p) ==
  LET row == sweeps[s].projects[p]
      old == sweeps[s].old
  IN
  /\ sweeps[s].phase = "rewrapping"
  /\ p \in sweeps[s].todo
  /\ row.root \in {old, old + 1}
  /\ projects' = IF row.root = old THEN [projects EXCEPT ![p] = Rewrapped(row, old)]
                                   ELSE projects
  /\ sweeps' = [sweeps EXCEPT ![s].todo = @ \ {p}]
  /\ UNCHANGED <<organization, current, minted, calls>>

\* rewrapOrganizationKeys, once every listed project key is rewrapped.
RewrapOrganization(s) ==
  LET row == sweeps[s].organization
      old == sweeps[s].old
  IN
  /\ sweeps[s].phase = "rewrapping"
  /\ sweeps[s].todo = {}
  /\ organization' = IF row # None /\ row.root = old THEN Rewrapped(row, old)
                                                     ELSE organization
  /\ sweeps' = [sweeps EXCEPT ![s] = [NoSweep EXCEPT !.phase = "verifying", !.old = old]]
  /\ UNCHANGED <<projects, current, minted, calls>>

\* canRetireRootKeyBinding: the rows of the Organization are read once more.
VerifySweep(s) ==
  /\ sweeps[s].phase = "verifying"
  /\ organization # None => organization.root # sweeps[s].old
  /\ sweeps' = [sweeps EXCEPT ![s].phase = "verified"]
  /\ UNCHANGED <<organization, projects, current, minted, calls>>

\* A sweep fails or its Worker dies: what it wrote stays, and it can be started again.
AbandonSweep(s) ==
  /\ sweeps[s].phase \in {"listing", "rewrapping", "verifying"}
  /\ sweeps' = [sweeps EXCEPT ![s] = NoSweep]
  /\ UNCHANGED <<organization, projects, current, minted, calls>>

-----------------------------------------------------------------------------
KeyringStep(c) ==
  \/ ReadOrganization(c)
  \/ MintOrganization(c)
  \/ ReadRoot(c)
  \/ ReadProject(c)
  \/ MintProject(c)
  \/ Resolve(c)
  \/ Unwrap(c)

SweepStep(s) ==
  \/ BeginSweep(s)
  \/ ListProjects(s)
  \/ \E p \in Projects : RewrapProject(s, p)
  \/ RewrapOrganization(s)
  \/ VerifySweep(s)
  \/ AbandonSweep(s)

\* The end of a call on its own: what the caller did with the key is not looked at.
DropCall(c) ==
  /\ ~InCall(c, "idle")
  /\ EndCall(c)
  /\ UNCHANGED <<organization, projects, current, minted, sweeps>>

KeyNext ==
  \/ \E c \in Clients, p \in Projects : BeginEncrypt(c, p) \/ BeginDecrypt(c, p)
  \/ \E c \in Clients : KeyringStep(c) \/ DropCall(c)
  \/ DeployRoot
  \/ \E s \in Sweepers : SweepStep(s)

KeySpec == KeyInit /\ [][KeyNext]_keyVars

-----------------------------------------------------------------------------
(* Properties.                                                             *)

\* Type invariant of the rows, the calls and the sweeps.
KeysTypeOK ==
  /\ organization \in Row \cup {None}
  /\ projects \in [Projects -> Row \cup {None}]
  /\ current \in Roots
  /\ minted \in Nat
  /\ calls \in [Clients -> Call]
  /\ sweeps \in [Sweepers -> Sweep]

SameKey(before, after) == after # None /\ after.key = before.key

\* A data key, once stored, is the data key for good: racing first uses, rewraps that
\* overwrite each other and sweeps that died half-way change what it is wrapped under,
\* never its bytes, so no ciphertext is orphaned.
KeyIdentityIsStable ==
  [][/\ organization # None => SameKey(organization, organization')
     /\ \A p \in Projects : projects[p] # None => SameKey(projects[p], projects'[p])]_keyVars
=============================================================================
