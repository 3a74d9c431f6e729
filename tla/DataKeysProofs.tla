---------------------------- MODULE DataKeysProofs ----------------------------
(***************************************************************************)
(* Theorems about DataKeys, for any number of Projects, requests, sweeps   *)
(* and root key versions.                                                  *)
(***************************************************************************)
EXTENDS DataKeys, TLAPS

-----------------------------------------------------------------------------
(* The inductive invariant.                                                *)

\* A request whose keyring has unwrapped a key holds the key of its Project.
CallKnows(k) ==
  /\ k.phase # "idle" => k.project \in Projects
  /\ k.phase \in {"project", "mintProject"} => k.root \in Roots
  /\ k.cached # {} =>
       /\ k.project \in Projects
       /\ projects[k.project] # None
       /\ k.key = projects[k.project].key
  /\ k.phase = "ready" => k.cached # {}

\* A row that a sweep listed holds the key that is stored today.
SweepKnows(w) ==
  /\ w.phase # "idle" => w.old \in Roots /\ w.old + 1 \in Roots
  /\ w.organization # None => SameKey(w.organization, organization)
  /\ \A p \in Projects : w.projects[p] # None => SameKey(w.projects[p], projects[p])
  /\ \A p \in w.todo : w.projects[p] # None

CallsKnow == \A c \in Clients : CallKnows(calls[c])

SweepsKnow == \A s \in Sweepers : SweepKnows(sweeps[s])

KeyInv == KeysTypeOK /\ CallsKnow /\ SweepsKnow

\* A step keeps the key of every row.
KeysKept ==
  /\ organization # None => SameKey(organization, organization')
  /\ \A p \in Projects : projects[p] # None => SameKey(projects[p], projects'[p])

\* The steps of DataKeys, and what a module that extends it does with a call.
ForgetCall(c) == EndCall(c) /\ UNCHANGED <<organization, projects, current, minted, sweeps>>

AskAgain(c) ==
  /\ InCall(c, "ready")
  /\ ResolveAgain(c)
  /\ UNCHANGED <<organization, projects, current, minted, sweeps>>

KeyMove ==
  \/ \E c \in Clients, p \in Projects : BeginEncrypt(c, p) \/ BeginDecrypt(c, p)
  \/ \E c \in Clients : KeyringStep(c) \/ ForgetCall(c) \/ AskAgain(c)
  \/ DeployRoot
  \/ \E s \in Sweepers : SweepStep(s)
  \/ UNCHANGED keyVars

-----------------------------------------------------------------------------
(* What a step leaves alone.                                               *)

LEMMA CallStillKnows ==
  ASSUME KeysKept, NEW k \in Call, CallKnows(k)
  PROVE  CallKnows(k)'
  BY DEF KeysKept, CallKnows, SameKey

LEMMA SweepStillKnows ==
  ASSUME KeysKept, NEW w \in Sweep, SweepKnows(w)
  PROVE  SweepKnows(w)'
<1>1. w.organization # None => SameKey(w.organization, organization')
  BY DEF KeysKept, SweepKnows, SameKey
<1>2. \A p \in Projects : w.projects[p] # None => SameKey(w.projects[p], projects'[p])
  BY DEF KeysKept, SweepKnows, SameKey
<1> QED BY <1>1, <1>2 DEF SweepKnows, SameKey

\* One call moves on with what it knows.
LEMMA CallMoves ==
  ASSUME KeyInv, KeysKept, NEW c \in Clients, NEW k \in Call, CallKnows(k)',
         calls' = [calls EXCEPT ![c] = k]
  PROVE  CallsKnow' /\ calls' \in [Clients -> Call]
<1>1. ASSUME NEW d \in Clients PROVE CallKnows(calls[d])'
  <2>1. PICK i \in Call : calls'[d] = i /\ CallKnows(i)'
    <3>1. CASE d = c
      BY <3>1 DEF KeyInv, KeysTypeOK
    <3>2. CASE d # c
      <4>1. PICK i \in Call : calls[d] = i /\ calls'[d] = i
        BY <3>2 DEF KeyInv, KeysTypeOK
      <4>2. CallKnows(i)
        BY <4>1 DEF KeyInv, CallsKnow
      <4> QED BY <4>1, <4>2, CallStillKnows
    <3> QED BY <3>1, <3>2
  <2> QED BY <2>1 DEF CallKnows
<1>2. calls' \in [Clients -> Call]
  BY DEF KeyInv, KeysTypeOK
<1> QED BY <1>1, <1>2 DEF CallsKnow

\* One sweep moves on with what it knows.
LEMMA SweepMoves ==
  ASSUME KeyInv, KeysKept, NEW s \in Sweepers, NEW w \in Sweep, SweepKnows(w)',
         sweeps' = [sweeps EXCEPT ![s] = w]
  PROVE  SweepsKnow' /\ sweeps' \in [Sweepers -> Sweep]
<1>1. ASSUME NEW r \in Sweepers PROVE SweepKnows(sweeps[r])'
  <2>1. PICK i \in Sweep : sweeps'[r] = i /\ SweepKnows(i)'
    <3>1. CASE r = s
      BY <3>1 DEF KeyInv, KeysTypeOK
    <3>2. CASE r # s
      <4>1. PICK i \in Sweep : sweeps[r] = i /\ sweeps'[r] = i
        BY <3>2 DEF KeyInv, KeysTypeOK
      <4>2. SweepKnows(i)
        BY <4>1 DEF KeyInv, SweepsKnow
      <4> QED BY <4>1, <4>2, SweepStillKnows
    <3> QED BY <3>1, <3>2
  <2> QED BY <2>1 DEF SweepKnows, SameKey
<1>2. sweeps' \in [Sweepers -> Sweep]
  BY DEF KeyInv, KeysTypeOK
<1> QED BY <1>1, <1>2 DEF SweepsKnow

LEMMA CallsStay ==
  ASSUME KeyInv, KeysKept, UNCHANGED calls
  PROVE  CallsKnow' /\ calls' \in [Clients -> Call]
<1>1. ASSUME NEW d \in Clients PROVE CallKnows(calls[d])'
  <2>1. PICK i \in Call : calls[d] = i /\ calls'[d] = i
    BY DEF KeyInv, KeysTypeOK
  <2>2. CallKnows(i)
    BY <2>1 DEF KeyInv, CallsKnow
  <2>3. CallKnows(i)'
    BY <2>2, CallStillKnows
  <2> QED BY <2>1, <2>3 DEF CallKnows
<1> QED BY <1>1 DEF CallsKnow, KeyInv, KeysTypeOK

LEMMA SweepsStay ==
  ASSUME KeyInv, KeysKept, UNCHANGED sweeps
  PROVE  SweepsKnow' /\ sweeps' \in [Sweepers -> Sweep]
<1>1. ASSUME NEW r \in Sweepers PROVE SweepKnows(sweeps[r])'
  <2>1. PICK i \in Sweep : sweeps[r] = i /\ sweeps'[r] = i
    BY DEF KeyInv, KeysTypeOK
  <2>2. SweepKnows(i)
    BY <2>1 DEF KeyInv, SweepsKnow
  <2>3. SweepKnows(i)'
    BY <2>2, SweepStillKnows
  <2> QED BY <2>1, <2>3 DEF SweepKnows, SameKey
<1> QED BY <1>1 DEF SweepsKnow, KeyInv, KeysTypeOK

-----------------------------------------------------------------------------
(* One lemma per action.                                                   *)

LEMMA RowsKept ==
  ASSUME UNCHANGED <<organization, projects>>, KeyInv
  PROVE  KeysKept
  BY DEF KeysKept, SameKey, KeyInv, KeysTypeOK

\* The step of a request that writes no row.
LEMMA OnlyItsCall ==
  ASSUME KeyInv, NEW c \in Clients, NEW k \in Call, CallKnows(k),
         calls' = [calls EXCEPT ![c] = k],
         UNCHANGED <<organization, projects, current, minted, sweeps>>
  PROVE  KeyInv' /\ KeysKept
<1>1. KeysKept
  BY RowsKept
<1>2. CallsKnow' /\ calls' \in [Clients -> Call]
  BY <1>1, CallStillKnows, CallMoves
<1>3. SweepsKnow' /\ sweeps' \in [Sweepers -> Sweep]
  BY <1>1, SweepsStay
<1> QED BY <1>1, <1>2, <1>3 DEF KeyInv, KeysTypeOK

\* The step of a sweep that writes no row.
LEMMA OnlyItsSweep ==
  ASSUME KeyInv, NEW s \in Sweepers, NEW w \in Sweep, SweepKnows(w),
         sweeps' = [sweeps EXCEPT ![s] = w],
         UNCHANGED <<organization, projects, current, minted, calls>>
  PROVE  KeyInv' /\ KeysKept
<1>1. KeysKept
  BY RowsKept
<1>2. CallsKnow' /\ calls' \in [Clients -> Call]
  BY <1>1, CallsStay
<1>3. SweepsKnow' /\ sweeps' \in [Sweepers -> Sweep]
  BY <1>1, SweepStillKnows, SweepMoves
<1> QED BY <1>1, <1>2, <1>3 DEF KeyInv, KeysTypeOK

\* What a request in the middle of a call is about.
LEMMA WorkingCall ==
  ASSUME KeyInv, NEW c \in Clients
  PROVE  calls[c] \in Call /\ CallKnows(calls[c])
  BY DEF KeyInv, KeysTypeOK, CallsKnow

LEMMA NoCallKnows == NoCall \in Call /\ CallKnows(NoCall)
  BY DEF NoCall, Call, CallPhases, CallKnows

LEMMA BeginCallStep ==
  ASSUME KeyInv, NEW c \in Clients, NEW p \in Projects,
         BeginEncrypt(c, p) \/ BeginDecrypt(c, p)
  PROVE  KeyInv' /\ KeysKept
<1>1. PICK phase \in {"organization", "resolve"} :
        calls' = [calls EXCEPT ![c] = [NoCall EXCEPT !.phase = phase, !.project = p]]
  BY DEF BeginEncrypt, BeginDecrypt
<1>2. PICK k \in Call : k = [NoCall EXCEPT !.phase = phase, !.project = p]
  BY DEF NoCall, Call, CallPhases
<1>3. CallKnows(k)
  BY <1>2 DEF NoCall, Call, CallKnows
<1> QED BY <1>1, <1>2, <1>3, OnlyItsCall DEF BeginEncrypt, BeginDecrypt

LEMMA ReadOrganizationStep ==
  ASSUME KeyInv, NEW c \in Clients, ReadOrganization(c)
  PROVE  KeyInv' /\ KeysKept
<1>1. PICK phase \in {"mintOrganization", "root"} :
        calls' = [calls EXCEPT ![c] = [calls[c] EXCEPT !.phase = phase]]
  BY WorkingCall DEF ReadOrganization, KeyInv, KeysTypeOK
<1>2. PICK k \in Call : k = [calls[c] EXCEPT !.phase = phase]
  BY WorkingCall DEF Call, CallPhases
<1>3. CallKnows(k)
  BY <1>2, WorkingCall DEF ReadOrganization, InCall, Call, CallKnows
<1> QED BY <1>1, <1>2, <1>3, OnlyItsCall DEF ReadOrganization

LEMMA ReadRootStep ==
  ASSUME KeyInv, NEW c \in Clients, ReadRoot(c)
  PROVE  KeyInv' /\ KeysKept
<1>1. organization.root \in Roots /\ organization.root \in Nat
  BY DataKeyAssumption DEF ReadRoot, KeyInv, KeysTypeOK, Row, Roots
<1>2. PICK k \in Call : k = [calls[c] EXCEPT !.phase = "project", !.root = organization.root]
  BY <1>1, WorkingCall DEF Call, CallPhases
<1>3. calls' = [calls EXCEPT ![c] = k]
  BY <1>2 DEF ReadRoot, KeyInv, KeysTypeOK
<1>4. CallKnows(k)
  BY <1>1, <1>2, WorkingCall DEF ReadRoot, InCall, Call, CallKnows
<1> QED BY <1>2, <1>3, <1>4, OnlyItsCall DEF ReadRoot

LEMMA ReadProjectStep ==
  ASSUME KeyInv, NEW c \in Clients, ReadProject(c)
  PROVE  KeyInv' /\ KeysKept
<1>1. CASE projects[calls[c].project] = None
  <2>1. PICK k \in Call : k = [calls[c] EXCEPT !.phase = "mintProject"]
    BY WorkingCall DEF Call, CallPhases
  <2>2. calls' = [calls EXCEPT ![c] = k]
    BY <1>1, <2>1 DEF ReadProject, KeyInv, KeysTypeOK
  <2>3. CallKnows(k)
    BY <2>1, WorkingCall DEF ReadProject, InCall, Call, CallKnows
  <2> QED BY <2>1, <2>2, <2>3, OnlyItsCall DEF ReadProject
<1>2. CASE projects[calls[c].project] # None
  <2>1. PICK k \in Call : k = [calls[c] EXCEPT !.phase = "resolve", !.root = 0]
    BY WorkingCall DEF Call, CallPhases
  <2>2. calls' = [calls EXCEPT ![c] = k]
    BY <1>2, <2>1 DEF ReadProject, KeyInv, KeysTypeOK
  <2>3. CallKnows(k)
    BY <2>1, WorkingCall DEF ReadProject, InCall, Call, CallKnows
  <2> QED BY <2>1, <2>2, <2>3, OnlyItsCall DEF ReadProject
<1> QED BY <1>1, <1>2

LEMMA ResolveStep ==
  ASSUME KeyInv, NEW c \in Clients, Resolve(c)
  PROVE  KeyInv' /\ KeysKept
<1>0. organization.root \in Nat
  BY DataKeyAssumption DEF Resolve, KeyInv, KeysTypeOK, Row, Roots
<1>1. CASE organization.root \in calls[c].cached
  <2>1. PICK k \in Call : k = [calls[c] EXCEPT !.phase = "ready"]
    BY WorkingCall DEF Call, CallPhases
  <2>2. calls' = [calls EXCEPT ![c] = k]
    BY <1>1, <2>1 DEF Resolve, KeyInv, KeysTypeOK
  <2>3. CallKnows(k)
    BY <1>1, <2>1, WorkingCall DEF Resolve, InCall, Call, CallKnows
  <2> QED BY <2>1, <2>2, <2>3, OnlyItsCall DEF Resolve
<1>2. CASE organization.root \notin calls[c].cached
  <2>1. PICK k \in Call : k = [calls[c] EXCEPT !.phase = "unwrap", !.root = organization.root]
    BY <1>0, WorkingCall DEF Call, CallPhases
  <2>2. calls' = [calls EXCEPT ![c] = k]
    BY <1>2, <2>1 DEF Resolve, KeyInv, KeysTypeOK
  <2>3. CallKnows(k)
    BY <2>1, WorkingCall DEF Resolve, InCall, Call, CallKnows
  <2> QED BY <2>1, <2>2, <2>3, OnlyItsCall DEF Resolve
<1> QED BY <1>1, <1>2

LEMMA UnwrapStep ==
  ASSUME KeyInv, NEW c \in Clients, Unwrap(c)
  PROVE  KeyInv' /\ KeysKept
<1> DEFINE row == projects[calls[c].project]
<1>1. calls[c] \in Call /\ CallKnows(calls[c]) /\ calls[c].phase = "unwrap" /\ row # None
  BY WorkingCall DEF Unwrap, InCall
<1>2. calls[c].project \in Projects /\ row \in Row
  BY <1>1 DEF CallKnows, KeyInv, KeysTypeOK
<1>3. PICK k \in Call :
        k = [calls[c] EXCEPT !.phase = "ready", !.key = row.key, !.root = 0,
                             !.cached = calls[c].cached \cup {row.root}]
  BY <1>1, <1>2 DEF Call, CallPhases, Row
<1>4. calls' = [calls EXCEPT ![c] = k]
  BY <1>3 DEF Unwrap, KeyInv, KeysTypeOK
<1>5. CallKnows(k)
  BY <1>1, <1>2, <1>3 DEF Call, CallKnows
<1> QED BY <1>3, <1>4, <1>5, OnlyItsCall DEF Unwrap

LEMMA ForgetCallStep ==
  ASSUME KeyInv, NEW c \in Clients, ForgetCall(c)
  PROVE  KeyInv' /\ KeysKept
  BY NoCallKnows, OnlyItsCall DEF ForgetCall, EndCall

LEMMA AskAgainStep ==
  ASSUME KeyInv, NEW c \in Clients, AskAgain(c)
  PROVE  KeyInv' /\ KeysKept
<1>1. PICK k \in Call : k = [calls[c] EXCEPT !.phase = "resolve"]
  BY WorkingCall DEF Call, CallPhases
<1>2. calls' = [calls EXCEPT ![c] = k]
  BY <1>1 DEF AskAgain, ResolveAgain, KeyInv, KeysTypeOK
<1>3. CallKnows(k)
  BY <1>1, WorkingCall DEF AskAgain, InCall, Call, CallKnows
<1> QED BY <1>1, <1>2, <1>3, OnlyItsCall DEF AskAgain

\* The rows that a first use leaves: what is stored already wins.
LEMMA CommittedKeeps ==
  ASSUME NEW existing \in Row \cup {None}, NEW new \in Row
  PROVE  /\ Committed(existing, new) \in Row
         /\ Committed(existing, new) # None
         /\ existing # None => Committed(existing, new) = existing
  BY AbsentRow DEF Committed

LEMMA MintOrganizationStep ==
  ASSUME KeyInv, NEW c \in Clients, MintOrganization(c)
  PROVE  KeyInv' /\ KeysKept
<1>1. [key |-> minted + 1, root |-> current] \in Row
  BY DEF KeyInv, KeysTypeOK, Row
<1>2. /\ organization' \in Row /\ (organization # None => organization' = organization)
      /\ projects' = projects /\ current' = current /\ minted' \in Nat /\ sweeps' = sweeps
  BY <1>1, CommittedKeeps DEF MintOrganization, KeyInv, KeysTypeOK
<1>3. KeysKept
  BY <1>2, AbsentRow DEF KeysKept, SameKey, KeyInv, KeysTypeOK
<1>4. PICK k \in Call : k = [calls[c] EXCEPT !.phase = "root"]
  BY WorkingCall DEF Call, CallPhases
<1>5. calls' = [calls EXCEPT ![c] = k]
  BY <1>4 DEF MintOrganization, KeyInv, KeysTypeOK
<1>6. CallKnows(k)
  BY <1>4, WorkingCall DEF MintOrganization, InCall, Call, CallKnows
<1>7. CallsKnow' /\ calls' \in [Clients -> Call]
  BY <1>3, <1>4, <1>5, <1>6, CallStillKnows, CallMoves
<1>8. SweepsKnow'
  BY <1>2, <1>3, SweepsStay
<1> QED BY <1>2, <1>3, <1>7, <1>8 DEF KeyInv, KeysTypeOK

LEMMA MintProjectStep ==
  ASSUME KeyInv, NEW c \in Clients, MintProject(c)
  PROVE  KeyInv' /\ KeysKept
<1> DEFINE p   == calls[c].project
           new == [key |-> minted + 1, root |-> calls[c].root]
<1>1. /\ calls[c] \in Call /\ CallKnows(calls[c]) /\ calls[c].phase = "mintProject"
      /\ p \in Projects /\ new \in Row
  BY WorkingCall DEF MintProject, InCall, CallKnows, KeyInv, KeysTypeOK, Row
<1>2. /\ projects' = [projects EXCEPT ![p] = Committed(projects[p], new)]
      /\ organization' = organization /\ current' = current /\ minted' \in Nat
      /\ sweeps' = sweeps
  BY DEF MintProject, KeyInv, KeysTypeOK
<1> HIDE DEF new
<1>3. /\ projects' \in [Projects -> Row \cup {None}]
      /\ \A q \in Projects : projects[q] # None => projects'[q] = projects[q]
  BY <1>1, <1>2, CommittedKeeps DEF KeyInv, KeysTypeOK
<1>4. KeysKept
  BY <1>2, <1>3, AbsentRow DEF KeysKept, SameKey, KeyInv, KeysTypeOK
<1>5. PICK k \in Call : k = [calls[c] EXCEPT !.phase = "resolve", !.root = 0]
  BY <1>1 DEF Call, CallPhases
<1>6. calls' = [calls EXCEPT ![c] = k]
  BY <1>5 DEF MintProject, KeyInv, KeysTypeOK
<1>7. CallKnows(k)
  BY <1>1, <1>5 DEF Call, CallKnows
<1>8. CallsKnow' /\ calls' \in [Clients -> Call]
  BY <1>4, <1>5, <1>6, <1>7, CallStillKnows, CallMoves
<1>9. SweepsKnow'
  BY <1>2, <1>4, SweepsStay
<1> QED BY <1>2, <1>3, <1>4, <1>8, <1>9 DEF KeyInv, KeysTypeOK

LEMMA DeployRootStep ==
  ASSUME KeyInv, DeployRoot
  PROVE  KeyInv' /\ KeysKept
<1>1. current' \in Roots /\ UNCHANGED <<organization, projects, minted, calls, sweeps>>
  BY DataKeyAssumption DEF DeployRoot, KeyInv, KeysTypeOK, Roots
<1>2. KeysKept
  BY <1>1, RowsKept
<1>3. CallsKnow' /\ SweepsKnow'
  BY <1>1, <1>2, CallsStay, SweepsStay
<1> QED BY <1>1, <1>2, <1>3 DEF KeyInv, KeysTypeOK

LEMMA WorkingSweep ==
  ASSUME KeyInv, NEW s \in Sweepers
  PROVE  sweeps[s] \in Sweep /\ SweepKnows(sweeps[s])
  BY DEF KeyInv, KeysTypeOK, SweepsKnow

LEMMA NoSweepKnows == NoSweep \in Sweep /\ SweepKnows(NoSweep)
  BY DEF NoSweep, NoProjects, Sweep, SweepKnows

LEMMA BeginSweepStep ==
  ASSUME KeyInv, NEW s \in Sweepers, BeginSweep(s)
  PROVE  KeyInv' /\ KeysKept
<1>1. current - 1 \in Roots /\ current - 1 \in Nat /\ (current - 1) + 1 \in Roots
  BY DataKeyAssumption DEF BeginSweep, KeyInv, KeysTypeOK, Roots
<1>2. PICK w \in Sweep : w = [NoSweep EXCEPT !.phase = "listing", !.old = current - 1,
                                             !.organization = organization]
  BY <1>1 DEF NoSweep, NoProjects, Sweep, KeyInv, KeysTypeOK
<1>3. SweepKnows(w)
  BY <1>1, <1>2 DEF NoSweep, NoProjects, SweepKnows, SameKey
<1> QED BY <1>2, <1>3, OnlyItsSweep DEF BeginSweep

LEMMA ListProjectsStep ==
  ASSUME KeyInv, NEW s \in Sweepers, ListProjects(s)
  PROVE  KeyInv' /\ KeysKept
<1>1. PICK w \in Sweep : w = [sweeps[s] EXCEPT !.phase = "rewrapping", !.projects = projects,
                                               !.todo = {p \in Projects : projects[p] # None}]
  BY WorkingSweep DEF Sweep, KeyInv, KeysTypeOK
<1>2. sweeps' = [sweeps EXCEPT ![s] = w]
  BY <1>1 DEF ListProjects, KeyInv, KeysTypeOK
<1>3. SweepKnows(w)
  BY <1>1, WorkingSweep DEF ListProjects, Sweep, SweepKnows, SameKey
<1> QED BY <1>1, <1>2, <1>3, OnlyItsSweep DEF ListProjects

\* A rewrap changes the root version of a row, not its key.
LEMMA RewrappedRow ==
  ASSUME NEW row \in Row, NEW old \in Roots, old + 1 \in Roots
  PROVE  Rewrapped(row, old) \in Row /\ Rewrapped(row, old).key = row.key
  BY DEF Rewrapped, Row

LEMMA RewrapProjectStep ==
  ASSUME KeyInv, NEW s \in Sweepers, NEW p \in Projects, RewrapProject(s, p)
  PROVE  KeyInv' /\ KeysKept
<1> DEFINE row == sweeps[s].projects[p]
           old == sweeps[s].old
<1>1. /\ sweeps[s] \in Sweep /\ SweepKnows(sweeps[s])
      /\ sweeps[s].phase = "rewrapping" /\ p \in sweeps[s].todo
      /\ UNCHANGED <<organization, current, minted, calls>>
  BY WorkingSweep DEF RewrapProject
<1>2. /\ row \in Row /\ old \in Roots /\ old + 1 \in Roots /\ SameKey(row, projects[p])
  BY <1>1 DEF Sweep, SweepKnows
<1>3. \/ projects' = projects
      \/ projects' = [projects EXCEPT ![p] = Rewrapped(row, old)]
  BY DEF RewrapProject
<1>4. projects' \in [Projects -> Row \cup {None}]
  BY <1>2, <1>3, RewrappedRow DEF KeyInv, KeysTypeOK
<1>5. \A q \in Projects : projects[q] # None => SameKey(projects[q], projects'[q])
  BY <1>2, <1>3, RewrappedRow, AbsentRow DEF SameKey, KeyInv, KeysTypeOK
<1>6. KeysKept
  BY <1>1, <1>5 DEF KeysKept, SameKey
<1>7. PICK w \in Sweep : w = [sweeps[s] EXCEPT !.todo = sweeps[s].todo \ {p}]
  BY <1>1 DEF Sweep
<1>8. sweeps' = [sweeps EXCEPT ![s] = w]
  BY <1>7 DEF RewrapProject, KeyInv, KeysTypeOK
<1>9. SweepKnows(w)
  BY <1>1, <1>7 DEF Sweep, SweepKnows
<1>10. CallsKnow' /\ SweepsKnow' /\ sweeps' \in [Sweepers -> Sweep]
  BY <1>1, <1>6, <1>7, <1>8, <1>9, SweepStillKnows, SweepMoves, CallsStay
<1> QED BY <1>1, <1>4, <1>6, <1>10 DEF KeyInv, KeysTypeOK

LEMMA RewrapOrganizationStep ==
  ASSUME KeyInv, NEW s \in Sweepers, RewrapOrganization(s)
  PROVE  KeyInv' /\ KeysKept
<1> DEFINE row == sweeps[s].organization
           old == sweeps[s].old
<1>1. /\ sweeps[s] \in Sweep /\ SweepKnows(sweeps[s])
      /\ sweeps[s].phase = "rewrapping"
      /\ UNCHANGED <<projects, current, minted, calls>>
  BY WorkingSweep DEF RewrapOrganization
<1>2. old \in Roots /\ old + 1 \in Roots /\ old \in Nat
  BY <1>1 DEF Sweep, SweepKnows
<1>3. \/ organization' = organization
      \/ row \in Row /\ SameKey(row, organization) /\ organization' = Rewrapped(row, old)
  BY <1>1 DEF RewrapOrganization, Sweep, SweepKnows
<1>4. organization' \in Row \cup {None} /\ (organization # None => SameKey(organization, organization'))
  BY <1>2, <1>3, RewrappedRow, AbsentRow DEF SameKey, KeyInv, KeysTypeOK
<1>5. KeysKept
  BY <1>1, <1>4 DEF KeysKept, SameKey
<1>6. PICK w \in Sweep : w = [NoSweep EXCEPT !.phase = "verifying", !.old = old]
  BY <1>2 DEF NoSweep, NoProjects, Sweep
<1>7. sweeps' = [sweeps EXCEPT ![s] = w]
  BY <1>6 DEF RewrapOrganization
<1>8. SweepKnows(w)
  BY <1>2, <1>6 DEF NoSweep, NoProjects, SweepKnows
<1>9. CallsKnow' /\ SweepsKnow' /\ sweeps' \in [Sweepers -> Sweep]
  BY <1>1, <1>5, <1>6, <1>7, <1>8, SweepStillKnows, SweepMoves, CallsStay
<1> QED BY <1>1, <1>4, <1>5, <1>9 DEF KeyInv, KeysTypeOK

LEMMA VerifySweepStep ==
  ASSUME KeyInv, NEW s \in Sweepers, VerifySweep(s)
  PROVE  KeyInv' /\ KeysKept
<1>1. PICK w \in Sweep : w = [sweeps[s] EXCEPT !.phase = "verified"]
  BY WorkingSweep DEF Sweep
<1>2. sweeps' = [sweeps EXCEPT ![s] = w]
  BY <1>1 DEF VerifySweep, KeyInv, KeysTypeOK
<1>3. SweepKnows(w)
  BY <1>1, WorkingSweep DEF VerifySweep, Sweep, SweepKnows
<1> QED BY <1>1, <1>2, <1>3, OnlyItsSweep DEF VerifySweep

LEMMA AbandonSweepStep ==
  ASSUME KeyInv, NEW s \in Sweepers, AbandonSweep(s)
  PROVE  KeyInv' /\ KeysKept
  BY NoSweepKnows, OnlyItsSweep DEF AbandonSweep

-----------------------------------------------------------------------------
(* The theorems.                                                           *)

LEMMA KeyInvInit == KeyInit => KeyInv
<1> SUFFICES ASSUME KeyInit PROVE KeyInv
  OBVIOUS
<1>1. KeysTypeOK
  BY NoCallKnows, NoSweepKnows, DataKeyAssumption DEF KeyInit, KeysTypeOK, NoProjects, Roots
<1>2. CallsKnow
  <2> SUFFICES ASSUME NEW c \in Clients PROVE CallKnows(calls[c])
    BY DEF CallsKnow
  <2> QED BY NoCallKnows DEF KeyInit
<1>3. SweepsKnow
  <2> SUFFICES ASSUME NEW s \in Sweepers PROVE SweepKnows(sweeps[s])
    BY DEF SweepsKnow
  <2> QED BY NoSweepKnows DEF KeyInit
<1> QED BY <1>1, <1>2, <1>3 DEF KeyInv

\* Whatever moves the keys keeps the invariant and every stored key.
LEMMA KeyMoveKeeps == KeyInv /\ KeyMove => KeyInv' /\ KeysKept
<1> SUFFICES ASSUME KeyInv, KeyMove PROVE KeyInv' /\ KeysKept
  OBVIOUS
<1>1. ASSUME NEW c \in Clients, KeyringStep(c) PROVE KeyInv' /\ KeysKept
  BY <1>1, ReadOrganizationStep, MintOrganizationStep, ReadRootStep, ReadProjectStep,
     MintProjectStep, ResolveStep, UnwrapStep DEF KeyringStep
<1>2. ASSUME NEW s \in Sweepers, SweepStep(s) PROVE KeyInv' /\ KeysKept
  BY <1>2, BeginSweepStep, ListProjectsStep, RewrapProjectStep, RewrapOrganizationStep,
     VerifySweepStep, AbandonSweepStep DEF SweepStep
<1>3. CASE UNCHANGED keyVars
  <2>1. KeysKept
    BY <1>3, RowsKept DEF keyVars
  <2> QED BY <1>3, <2>1, CallsStay, SweepsStay DEF keyVars, KeyInv, KeysTypeOK
<1> QED BY <1>1, <1>2, <1>3, BeginCallStep, ForgetCallStep, AskAgainStep, DeployRootStep
        DEF KeyMove

LEMMA KeyNextMoves == [KeyNext]_keyVars => KeyMove
  BY DEF KeyNext, KeyMove, DropCall, ForgetCall

LEMMA KeyInvHolds == KeySpec => []KeyInv
  BY KeyInvInit, KeyNextMoves, KeyMoveKeeps, PTL DEF KeySpec

\* KeysTypeOK: the rows, the calls and the sweeps always have their types; a sweep
\* never wraps a key under a root key version that does not exist.
THEOREM KeysTypeCorrect == KeySpec => []KeysTypeOK
<1>1. KeyInv => KeysTypeOK
  BY DEF KeyInv
<1> QED BY <1>1, KeyInvHolds, PTL

\* KeyIdentityIsStable: first uses, rewraps and sweeps that died never change the key
\* in a row, although a rewrap writes what it listed without looking at the row again.
THEOREM KeyIdentitiesAreStable == KeySpec => KeyIdentityIsStable
<1> DEFINE Stable == /\ organization # None => SameKey(organization, organization')
                     /\ \A p \in Projects : projects[p] # None => SameKey(projects[p], projects'[p])
<1>1. KeyInv /\ [KeyNext]_keyVars => [Stable]_keyVars
  BY KeyNextMoves, KeyMoveKeeps DEF KeysKept
<1> QED BY <1>1, KeyInvHolds, PTL DEF KeySpec, KeyIdentityIsStable
=============================================================================
