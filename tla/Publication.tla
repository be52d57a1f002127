---------------------------- MODULE Publication ----------------------------
(***************************************************************************)
(* Controlled publication of a gateway configuration: tools/publication.py *)
(* (Publisher, FilePublicationStore) over tools/apisix_control_plane.py    *)
(* and tools/apisix_admin_http.py, by several publisher processes that     *)
(* share one store directory and one APISIX control plane.                 *)
(*                                                                         *)
(* A step is one remote call, one atomic file replacement or one critical- *)
(* section boundary.  Faults names what the environment may do to them.    *)
(***************************************************************************)
CONSTANTS
  Workers,       \* processes that run Publisher.publish
  Publications,  \* publication identifiers
  Artifacts,     \* compiled configurations, by content
  None,          \* "nothing there": Python's None, an absent file
  Faults         \* what may go wrong, a subset of AllFaults

AllFaults ==
  { "request_lost",        \* a write is refused or never arrives: exception
    "response_lost",       \* a write is applied, its answer lost: exception
    "ack_without_effect",  \* a write is acknowledged and not applied
    "late",                \* a timed-out write is applied some time later
    "read_error",          \* a read of the Admin API fails
    "sink_error",          \* the incident store raises
    "crash" }              \* the process dies, or a file operation raises

ASSUME FaultsAssumption == Faults \subseteq AllFaults
ASSUME NoneAssumption == None \notin Workers \cup Publications \cup Artifacts

\* APISIXControlPlane.revision_for: the revision names the content it hashes.
RevisionFor(a) == <<"sha256", a>>
Revisions == {RevisionFor(a) : a \in Artifacts}

ASSUME NoneIsNoRevision == None \notin Revisions

VARIABLES
  plane,      \* the Admin API: .staged revisions, .active pointer
  late,       \* timed-out writes the Admin API may still apply
  artifacts,  \* files under artifacts/
  manifests,  \* files under manifests/, None where there is no file
  active,     \* publicationId in active.json, None where there is no file
  incident,   \* state of the one incident INCIDENT_KEY names
  lock,       \* holder of the flock on .publication.lock
  pc,         \* where each process is in publish()
  job,        \* arguments and manifest in the making of each process
  verdict,    \* history: status of the manifest recorded last
  interrupted \* history: a call left its outcome unreported since the
              \* last active.json

storeVars == <<artifacts, manifests, active>>
planeVars == <<plane, late>>
history == <<verdict, interrupted>>
vars == <<plane, late, artifacts, manifests, active, incident, lock, pc, job,
          verdict, interrupted>>

FailedStatuses == {"FAILED", "ROLLED_BACK"}
Recorded == FailedStatuses \cup {"ACTIVE"}
Statuses == Recorded \cup {"COMPILED", "APPLYING", "VERIFIED"}

Manifest == [artifact : Artifacts, status : Recorded,
             previous : Publications \cup {None}]
Job == [publication : Publications, artifact : Artifacts, status : Statuses,
        previous : Publications \cup {None}]

ASSUME NoneIsNoManifest == None \notin Manifest
ASSUME NoneIsNoStatus == None \notin Recorded

Recording == {"artifact", "manifest", "active"}
Critical == Recording \cup
  {"admit", "health", "put", "readback", "verify", "activate", "converge",
   "confirm", "rollback", "delete", "incident"}
Labels == Critical \cup {"idle", "lock"}

Requests == [op : {"put", "activate", "delete"}, revision : Revisions]

\* What the variables range over; a manifest on disk has a final status.
TypeOK ==
  /\ plane \in [staged : SUBSET Revisions, active : Revisions \cup {None}]
  /\ late \in SUBSET Requests
  /\ artifacts \in SUBSET Artifacts
  /\ manifests \in [Publications -> Manifest \cup {None}]
  /\ active \in Publications \cup {None}
  /\ incident \in {"NONE", "OPEN", "RESOLVED"}
  /\ lock \in Workers \cup {None}
  /\ pc \in [Workers -> Labels]
  /\ job \in [Workers -> Job \cup {None}]
  /\ verdict \in Recorded \cup {None}
  /\ interrupted \in BOOLEAN

Init ==
  /\ plane = [staged |-> {}, active |-> None]
  /\ late = {}
  /\ artifacts = {}
  /\ manifests = [i \in Publications |-> None]
  /\ active = None
  /\ incident = "NONE"
  /\ lock = None
  /\ pc = [p \in Workers |-> "idle"]
  /\ job = [p \in Workers |-> None]
  /\ verdict = None
  /\ interrupted = FALSE

(***************************************************************************)
(* The Admin API as its callers meet it.                                   *)
(***************************************************************************)
Applied(req) ==
  [ staged |-> IF req.op = "put" THEN plane.staged \cup {req.revision}
               ELSE IF req.op = "delete" THEN plane.staged \ {req.revision}
               ELSE plane.staged,
    active |-> IF req.op = "activate" THEN req.revision ELSE plane.active ]

\* APISIXAdminHTTP._request for a PUT or DELETE: answered TRUE, or an
\* APISIXAdminError, which says nothing of whether the write took effect.
Write(req, answered) ==
  \/ /\ answered
     /\ plane' = Applied(req)
     /\ UNCHANGED late
  \/ /\ answered
     /\ "ack_without_effect" \in Faults
     /\ UNCHANGED planeVars
  \/ /\ ~answered
     /\ "request_lost" \in Faults
     /\ UNCHANGED planeVars
  \/ /\ ~answered
     /\ "response_lost" \in Faults
     /\ plane' = Applied(req)
     /\ UNCHANGED late
  \/ /\ ~answered
     /\ "late" \in Faults
     /\ late' = late \cup {req}
     /\ UNCHANGED plane

\* A request that timed out at the client reaches the server after all.
ApplyLate ==
  \E req \in late :
    /\ plane' = Applied(req)
    /\ late' = late \ {req}
    /\ UNCHANGED <<storeVars, incident, lock, pc, job, history>>

\* active_revision() answers None when its request fails.
ActiveRevision ==
  {plane.active} \cup (IF "read_error" \in Faults THEN {None} ELSE {})

Revision(p) == RevisionFor(job[p].artifact)
Goto(p, label) == pc' = [pc EXCEPT ![p] = label]
Status(p, status) == job' = [job EXCEPT ![p].status = status]

\* The publish() call is over, by return or by exception: exclusive() unlocks.
Leave(p) ==
  /\ pc' = [pc EXCEPT ![p] = "idle"]
  /\ job' = [job EXCEPT ![p] = None]
  /\ lock' = None

(***************************************************************************)
(* Publisher.publish up to the first contact with the control plane.       *)
(***************************************************************************)
Publish(p, i, a) ==
  /\ pc[p] = "idle"
  /\ job' = [job EXCEPT ![p] = [publication |-> i, artifact |-> a,
                                status |-> "COMPILED", previous |-> None]]
  /\ Goto(p, "lock")
  /\ UNCHANGED <<planeVars, storeVars, incident, lock, history>>

\* Variant: the store is used without its lock.
AcquireUnlocked(p) ==
  /\ pc[p] = "lock"
  /\ lock' = p
  /\ Goto(p, "admit")
  /\ UNCHANGED <<planeVars, storeVars, incident, job, history>>

Acquire(p) ==
  /\ pc[p] = "lock"
  /\ lock = None
  /\ lock' = p
  /\ Goto(p, "admit")
  /\ UNCHANGED <<planeVars, storeVars, incident, job, history>>

Admit(p) ==
  /\ pc[p] = "admit"
  /\ manifests[job[p].publication] = None
  /\ job' = [job EXCEPT ![p].previous = active]
  /\ Goto(p, "health")
  /\ UNCHANGED <<planeVars, storeVars, incident, lock, history>>

\* Variant: a refused call does not give the lock back.
RejectKeepsLock(p) ==
  /\ pc[p] = "admit"
  /\ Goto(p, "idle")
  /\ UNCHANGED <<planeVars, storeVars, incident, lock, job, history>>

\* An identifier already used, an ungoverned input or a compile failure:
\* PublicationError before anything is touched.
Reject(p) ==
  /\ pc[p] = "admit"
  /\ Leave(p)
  /\ UNCHANGED <<planeVars, storeVars, incident, history>>

CheckHealth(p, healthy) ==
  /\ pc[p] = "health"
  /\ \/ /\ healthy
        /\ Goto(p, "put")
        /\ UNCHANGED job
     \/ /\ ~healthy
        /\ Status(p, "FAILED")
        /\ Goto(p, "artifact")
  /\ UNCHANGED <<planeVars, storeVars, incident, lock, history>>

(***************************************************************************)
(* Stage, verify, activate, roll back.                                     *)
(***************************************************************************)
StagePut(p, answered) ==
  /\ pc[p] = "put"
  /\ Write([op |-> "put", revision |-> Revision(p)], answered)
  /\ \/ /\ answered
        /\ Goto(p, "readback")
        /\ UNCHANGED job
     \/ /\ ~answered
        /\ Status(p, "FAILED")
        /\ Goto(p, "artifact")
  /\ UNCHANGED <<storeVars, incident, lock, history>>

\* The write acknowledgement is not trusted: the revision is read back.
StageReadBack(p) ==
  /\ pc[p] = "readback"
  /\ \/ /\ Revision(p) \in plane.staged
        /\ Status(p, "APPLYING")
        /\ Goto(p, "verify")
     \/ /\ Revision(p) \notin plane.staged \/ "read_error" \in Faults
        /\ Status(p, "FAILED")
        /\ Goto(p, "artifact")
  /\ UNCHANGED <<planeVars, storeVars, incident, lock, history>>

\* The five REQUIRED_CHECKS; the probes are the environment's to answer.
Verify(p, probesPass) ==
  /\ pc[p] = "verify"
  /\ \/ /\ probesPass
        /\ Revision(p) \in plane.staged
        /\ Status(p, "VERIFIED")
        /\ Goto(p, "activate")
     \/ /\ ~probesPass
        /\ Goto(p, "rollback")
        /\ UNCHANGED job
  /\ UNCHANGED <<planeVars, storeVars, incident, lock, history>>

\* Variant: the acknowledgement of the activation is trusted.
ActivatePutTrusted(p, answered) ==
  /\ pc[p] = "activate"
  /\ Write([op |-> "activate", revision |-> Revision(p)], answered)
  /\ \/ answered /\ Status(p, "ACTIVE") /\ Goto(p, "artifact")
     \/ ~answered /\ Goto(p, "rollback") /\ UNCHANGED job
  /\ UNCHANGED <<storeVars, incident, lock, history>>

ActivatePut(p, answered) ==
  /\ pc[p] = "activate"
  /\ Write([op |-> "activate", revision |-> Revision(p)], answered)
  /\ Goto(p, IF answered THEN "converge" ELSE "rollback")
  /\ UNCHANGED <<storeVars, incident, lock, job, history>>

\* activate_revision polls until the pointer is seen to have moved; its
\* deadline may pass whatever the pointer is.
Converge(p) ==
  /\ pc[p] = "converge"
  /\ \/ Revision(p) \in ActiveRevision /\ Goto(p, "confirm")
     \/ Goto(p, "rollback")
  /\ UNCHANGED <<planeVars, storeVars, incident, lock, job, history>>

\* Variant: the confirmed activation is not noted in the manifest.
ConfirmUnnoted(p) ==
  /\ pc[p] = "confirm"
  /\ Goto(p, IF plane.active = Revision(p) THEN "artifact" ELSE "rollback")
  /\ UNCHANGED <<planeVars, storeVars, incident, lock, job, history>>

\* activate() reads the pointer once more.
Confirm(p) ==
  /\ pc[p] = "confirm"
  /\ \E seen \in ActiveRevision :
       \/ /\ seen = Revision(p)
          /\ Status(p, "ACTIVE")
          /\ Goto(p, "artifact")
       \/ /\ seen # Revision(p)
          /\ Goto(p, "rollback")
          /\ UNCHANGED job
  /\ UNCHANGED <<planeVars, storeVars, incident, lock, history>>

\* Variant: rollback() deletes whatever is active.
RollbackUnchecked(p) ==
  /\ pc[p] = "rollback"
  /\ Goto(p, "delete")
  /\ UNCHANGED <<planeVars, storeVars, incident, lock, job, history>>

\* rollback() refuses to delete the active revision: the RuntimeError leaves
\* publish() without a manifest and without an incident.
RollbackCheck(p) ==
  /\ pc[p] = "rollback"
  /\ \E seen \in ActiveRevision :
       \/ /\ seen = Revision(p)
          /\ Leave(p)
          /\ interrupted' = TRUE
       \/ /\ seen # Revision(p)
          /\ Goto(p, "delete")
          /\ UNCHANGED <<lock, job, interrupted>>
  /\ UNCHANGED <<planeVars, storeVars, incident, verdict>>

RollbackDelete(p, answered) ==
  /\ pc[p] = "delete"
  /\ Write([op |-> "delete", revision |-> Revision(p)], answered)
  /\ \/ /\ answered
        /\ Status(p, "ROLLED_BACK")
        /\ Goto(p, "artifact")
        /\ UNCHANGED <<lock, interrupted>>
     \/ /\ ~answered
        /\ Leave(p)
        /\ interrupted' = TRUE
  /\ UNCHANGED <<storeVars, incident, verdict>>

(***************************************************************************)
(* FilePublicationStore.record and the incident that follows it.           *)
(***************************************************************************)
\* Variant: active.json is replaced before the manifest it names is there.
RecordActiveFirst(p) ==
  /\ pc[p] = "artifact"
  /\ artifacts' = artifacts \cup {job[p].artifact}
  /\ active' = IF job[p].status = "ACTIVE" THEN job[p].publication ELSE active
  /\ Goto(p, "manifest")
  /\ UNCHANGED <<planeVars, manifests, incident, lock, job, history>>

RecordArtifact(p) ==
  /\ pc[p] = "artifact"
  /\ \/ /\ manifests[job[p].publication] = None
        /\ artifacts' = artifacts \cup {job[p].artifact}
        /\ Goto(p, "manifest")
        /\ UNCHANGED <<lock, job, interrupted>>
     \/ /\ manifests[job[p].publication] # None
        /\ Leave(p)
        /\ interrupted' = TRUE
        /\ UNCHANGED artifacts
  /\ UNCHANGED <<planeVars, manifests, active, incident, verdict>>

RecordManifestTo(p, label) ==
  /\ pc[p] = "manifest"
  /\ manifests' = [manifests EXCEPT ![job[p].publication] =
       [artifact |-> job[p].artifact, status |-> job[p].status,
        previous |-> job[p].previous]]
  /\ verdict' = job[p].status
  /\ Goto(p, label)
  /\ UNCHANGED <<planeVars, artifacts, active, incident, job, interrupted>>

\* Variants of RecordManifest: active.json is forgotten; it is replaced for
\* every outcome; the lock is given back before the incident is written.
ForgetActive(p) == RecordManifestTo(p, "incident") /\ UNCHANGED lock
AlwaysActive(p) == RecordManifestTo(p, "active") /\ UNCHANGED lock
UnlockEarly(p) ==
  /\ pc[p] = "manifest"
  /\ IF job[p].status = "ACTIVE" THEN RecordManifestTo(p, "active") /\ UNCHANGED lock
     ELSE RecordManifestTo(p, "incident") /\ lock' = None

RecordManifest(p) ==
  /\ RecordManifestTo(p, IF job[p].status = "ACTIVE" THEN "active" ELSE "incident")
  /\ UNCHANGED lock

RecordActive(p) ==
  /\ pc[p] = "active"
  /\ active' = job[p].publication
  /\ interrupted' = FALSE
  /\ Goto(p, "incident")
  /\ UNCHANGED <<planeVars, artifacts, manifests, incident, lock, job, verdict>>

\* open_incident after a failure; resolve_incident, which changes only an
\* incident that exists, after a success.
Report(p) ==
  /\ pc[p] = "incident"
  /\ incident' = IF job[p].status \in FailedStatuses THEN "OPEN"
                 ELSE IF incident = "NONE" THEN "NONE" ELSE "RESOLVED"
  /\ Leave(p)
  /\ UNCHANGED <<planeVars, storeVars, history>>

ReportFails(p) ==
  /\ pc[p] = "incident"
  /\ "sink_error" \in Faults
  /\ Leave(p)
  /\ interrupted' = TRUE
  /\ UNCHANGED <<planeVars, storeVars, incident, verdict>>

\* The process dies, or a file operation of record() raises; either way the
\* kernel or exclusive() gives the lock back.
Crash(p) ==
  /\ "crash" \in Faults
  /\ pc[p] \in Critical
  /\ Leave(p)
  /\ interrupted' = TRUE
  /\ UNCHANGED <<planeVars, storeVars, incident, verdict>>

Step(p) ==
  \/ Acquire(p) \/ Admit(p) \/ Reject(p)
  \/ \E ok \in BOOLEAN :
       \/ CheckHealth(p, ok) \/ StagePut(p, ok) \/ Verify(p, ok)
       \/ ActivatePut(p, ok) \/ RollbackDelete(p, ok)
  \/ StageReadBack(p) \/ Converge(p) \/ Confirm(p) \/ RollbackCheck(p)
  \/ RecordArtifact(p) \/ RecordManifest(p) \/ RecordActive(p)
  \/ Report(p) \/ ReportFails(p)

Next ==
  \/ \E p \in Workers :
       \/ \E i \in Publications, a \in Artifacts : Publish(p, i, a)
       \/ Step(p)
       \/ Crash(p)
  \/ ApplyLate

Spec == Init /\ [][Next]_vars

\* Every remote call has a socket timeout, the poll a deadline and the file
\* operations end: a process that is inside publish() keeps moving.  Waiting
\* for the flock is the one step another process can put off.
Fairness == \A p \in Workers : WF_vars(Step(p))
FairSpec == Spec /\ Fairness

-----------------------------------------------------------------------------
(***************************************************************************)
(* Properties                                                              *)
(***************************************************************************)

\* No two processes are between exclusive()'s lock and unlock, and what a
\* process checked on entry (the identifier is unused, publication.py:185) still
\* holds when record() writes the manifest: its own re-check never fires.
RecordNeverRefused ==
  \A p \in Workers :
    pc[p] \in Critical =>
      /\ lock = p
      /\ pc[p] \in {"artifact", "manifest"} =>
           manifests[job[p].publication] = None

\* Whenever a process may die, the files still agree: each manifest finds its
\* artifact, active.json and every previousActivePublicationId name a manifest
\* that is there and says ACTIVE (the write order of record(), lines 84-96).
StoreReferencesResolve ==
  LET IsActive(i) == manifests[i] # None /\ manifests[i].status = "ACTIVE"
  IN /\ active # None => IsActive(active)
     /\ \A i \in Publications : manifests[i] # None =>
          /\ manifests[i].artifact \in artifacts
          /\ manifests[i].previous # None => IsActive(manifests[i].previous)

\* The pointer the gateway follows always names a staged revision: rollback()
\* never deletes the active revision (apisix_control_plane.py:67-72).
LiveRevisionStaged == plane.active # None => plane.active \in plane.staged

RecordedRevision ==
  IF active = None THEN None ELSE RevisionFor(manifests[active].artifact)

\* Between calls the control plane serves what active.json records, unless a
\* call since the last success ended without reporting its outcome.
QuiescentAgreement ==
  lock = None /\ ~interrupted => plane.active = RecordedRevision

\* Between calls the one incident is open exactly when the publication
\* recorded last has failed, however the processes interleave.
IncidentTellsLastOutcome ==
  lock = None /\ ~interrupted =>
    (incident = "OPEN" <=> verdict \in FailedStatuses)

\* active.json moves only to a publication whose revision the control plane
\* stages and serves at that very step (GATEWAY_1B_TRACEABILITY.md:8).
AdvanceIsLive ==
  [][active' # active =>
       /\ plane.active = RevisionFor(manifests[active'].artifact)
       /\ plane.active \in plane.staged]_vars

\* A process that took the publication lock gives it back.
LockIsReleased == \A p \in Workers : lock = p ~> lock # p

\* The durable record refines the ledger: decided once, advanced only to the
\* publication decided last, never moved back.
Ledger == INSTANCE PublicationLedger WITH
  ledger <- [i \in Publications |->
              IF manifests[i] = None THEN None ELSE manifests[i].status],
  current <- active,
  pending <- IF \E p \in Workers : pc[p] = "active"
             THEN job[lock].publication ELSE None
LedgerSpec == Ledger!Spec

(***************************************************************************)
(* What the documents say and the code does not guarantee.                 *)
(***************************************************************************)

\* README.md:10: "failures preserve the last-known-good revision".  Between
\* calls the gateway would serve the revision active.json records.
FailurePreservesLastKnownGood == lock = None => plane.active = RecordedRevision
=============================================================================
