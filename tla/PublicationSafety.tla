------------------------- MODULE PublicationSafety -------------------------
(***************************************************************************)
(* What the publication lock and the order of record()'s writes buy: the   *)
(* durable files agree whoever dies when, they refine the ledger, and the  *)
(* incident tells the outcome recorded last; and, as long as the Admin API *)
(* can be read and no timed-out write lands late, the revision the gateway *)
(* serves is never deleted and is the recorded one.                        *)
(***************************************************************************)
EXTENDS PublicationProofs

Decided(i) == manifests[i] # None /\ manifests[i].status = "ACTIVE"

\* Labels of a process that has been admitted and has not reached its manifest.
Undecided == Critical \ {"admit", "active", "incident"}

\* What an admitted process may rely on while it holds the lock.
AdmittedOK ==
  \A p \in Workers :
    /\ pc[p] \in Undecided => manifests[job[p].publication] = None
    /\ pc[p] \in Critical \ {"admit"} /\ job[p].previous # None =>
         Decided(job[p].previous)
    /\ pc[p] = "manifest" => job[p].artifact \in artifacts
    /\ pc[p] = "active" => Decided(job[p].publication)

StoreInv == AdmittedOK /\ StoreReferencesResolve

-----------------------------------------------------------------------------
\* A step that leaves the files alone and lets an admitted process go on with
\* the same publication preserves the store invariant.
LEMMA StoreFrame ==
  ASSUME ControlInv, ControlInv', StoreInv, UNCHANGED storeVars,
         NEW p \in Workers,
         \A q \in Workers \ {p} : pc'[q] = pc[q] /\ job'[q] = job[q],
         \/ pc'[p] \notin Critical \ {"admit"}
         \/ /\ pc[p] \in Undecided \ {"manifest"}
            /\ pc'[p] \in Undecided \ {"manifest"}
            /\ job'[p].publication = job[p].publication
            /\ job'[p].previous = job[p].previous
  PROVE  StoreInv'
<1>1. StoreReferencesResolve'
  BY DEF StoreInv, StoreReferencesResolve, storeVars
<1>2. AdmittedOK'
  <2>. SUFFICES ASSUME NEW q \in Workers
       PROVE  /\ pc'[q] \in Undecided => manifests'[job'[q].publication] = None
              /\ pc'[q] \in Critical \ {"admit"} /\ job'[q].previous # None =>
                   Decided(job[q].previous)'
              /\ pc'[q] = "manifest" => job'[q].artifact \in artifacts'
              /\ pc'[q] = "active" => Decided(job[q].publication)'
    BY DEF AdmittedOK, Decided
  <2>1. CASE q = p
    BY <2>1 DEF StoreInv, AdmittedOK, Decided, storeVars, Undecided, Critical, Recording
  <2>2. CASE q # p
    BY <2>2 DEF StoreInv, AdmittedOK, Decided, storeVars
  <2>. QED BY <2>1, <2>2
<1>. QED BY <1>1, <1>2 DEF StoreInv

LEMMA InitStore == Init => StoreInv
BY NoneAssumption DEF Init, StoreInv, AdmittedOK, StoreReferencesResolve, Undecided, Critical, Recording

\* Every action preserves the store invariant; only admission and the three
\* writes of record() need more than the frame.
LEMMA NextStore == ControlInv /\ ControlInv' /\ StoreInv /\ [Next]_vars => StoreInv'
<1>. SUFFICES ASSUME ControlInv, ControlInv', StoreInv, [Next]_vars PROVE StoreInv'
  OBVIOUS
<1>0. TypeOK /\ JobOK /\ MutualExclusion
  BY DEF ControlInv
<1>a. ASSUME NEW p \in Workers, pc[p] \in Critical
      PROVE  /\ job[p] \in Job
             /\ \A q \in Workers \ {p} : pc[q] \notin Critical
  BY <1>0, <1>a DEF JobOK, MutualExclusion, Critical, Recording
<1>1. ASSUME NEW p \in Workers, NEW i \in Publications, NEW a \in Artifacts,
             Publish(p, i, a)
      PROVE  StoreInv'
  BY <1>0, <1>1, StoreFrame DEF Publish, Goto, TypeOK, Critical, Recording
<1>2. ASSUME NEW p \in Workers, Acquire(p) PROVE StoreInv'
  BY <1>0, <1>2, StoreFrame DEF Acquire, Goto, TypeOK
<1>3. ASSUME NEW p \in Workers, Reject(p) \/ Report(p) \/ ReportFails(p) \/ Crash(p)
      PROVE  StoreInv'
  BY <1>0, <1>3, StoreFrame
     DEF Reject, Report, ReportFails, Crash, Leave, TypeOK, Critical, Recording
<1>. DEFINE Before == {"health", "put", "readback", "verify", "activate",
                       "converge", "confirm", "rollback", "delete"}
<1>b. Before \subseteq Undecided \ {"manifest"} /\ "artifact" \in Undecided \ {"manifest"}
      /\ Before \subseteq Critical /\ Critical \subseteq Labels
  BY DEF Undecided, Critical, Recording, Labels
<1>c. ASSUME NEW p \in Workers, NEW l \in Before \cup {"artifact"},
             NEW s \in Statuses, pc[p] \in Before, Goto(p, l),
             job' = job \/ Status(p, s), UNCHANGED storeVars
      PROVE  StoreInv'
  <2>1. /\ job'[p].publication = job[p].publication
        /\ job'[p].previous = job[p].previous
        /\ \A q \in Workers \ {p} : pc'[q] = pc[q] /\ job'[q] = job[q]
        /\ pc'[p] = l
    BY <1>0, <1>a, <1>b, <1>c DEF Goto, Status, TypeOK, Job
  <2>. QED BY <1>b, <1>c, <2>1, StoreFrame
<1>d. ASSUME NEW p \in Workers, Leave(p), UNCHANGED storeVars
      PROVE  StoreInv'
  BY <1>0, <1>d, StoreFrame DEF Leave, TypeOK, Critical, Recording
<1>4. ASSUME NEW p \in Workers, NEW ok \in BOOLEAN,
             \/ CheckHealth(p, ok) \/ StagePut(p, ok) \/ Verify(p, ok)
             \/ ActivatePut(p, ok)
      PROVE  StoreInv'
  BY <1>4, <1>c DEF CheckHealth, StagePut, Verify, ActivatePut, Statuses,
                    Recorded, FailedStatuses
<1>5. ASSUME NEW p \in Workers, StageReadBack(p) \/ Converge(p) \/ Confirm(p)
      PROVE  StoreInv'
  BY <1>5, <1>c DEF StageReadBack, Converge, Confirm, Statuses, Recorded, FailedStatuses
<1>6. ASSUME NEW p \in Workers, RollbackCheck(p) PROVE StoreInv'
  BY <1>6, <1>c, <1>d DEF RollbackCheck, Statuses, Recorded, FailedStatuses
<1>7. ASSUME NEW p \in Workers, NEW ok \in BOOLEAN, RollbackDelete(p, ok)
      PROVE  StoreInv'
  BY <1>7, <1>c, <1>d DEF RollbackDelete, Statuses, Recorded, FailedStatuses
<1>8. ASSUME NEW p \in Workers, Admit(p) PROVE StoreInv'
  <2>1. /\ job'[p].publication = job[p].publication
        /\ job'[p].previous = active
        /\ pc'[p] = "health" /\ UNCHANGED storeVars
        /\ \A q \in Workers \ {p} : pc'[q] = pc[q] /\ job'[q] = job[q]
    BY <1>0, <1>8, <1>a DEF Admit, Goto, TypeOK, Job, Critical
  <2>2. StoreReferencesResolve'
    BY <2>1 DEF StoreInv, StoreReferencesResolve, storeVars
  <2>3. AdmittedOK'
    BY <1>8, <1>a, <2>1 DEF Admit, StoreInv, StoreReferencesResolve, AdmittedOK,
       Decided, storeVars, Undecided, Critical, Recording
  <2>. QED BY <2>2, <2>3 DEF StoreInv
<1>9. ASSUME NEW p \in Workers, RecordArtifact(p) PROVE StoreInv'
  <2>1. manifests[job[p].publication] = None
    BY <1>9 DEF RecordArtifact, StoreInv, AdmittedOK, Undecided, Critical, Recording
  <2>2. /\ artifacts' = artifacts \cup {job[p].artifact}
        /\ UNCHANGED <<manifests, active, job>>
        /\ pc'[p] = "manifest"
        /\ \A q \in Workers \ {p} : pc'[q] = pc[q]
    BY <1>0, <1>9, <2>1 DEF RecordArtifact, Goto, TypeOK
  <2>3. StoreReferencesResolve'
    BY <2>2 DEF StoreInv, StoreReferencesResolve
  <2>4. AdmittedOK'
    BY <1>9, <1>a, <2>1, <2>2 DEF RecordArtifact, StoreInv, AdmittedOK, Decided,
       Undecided, Critical, Recording
  <2>. QED BY <2>3, <2>4 DEF StoreInv
<1>10. ASSUME NEW p \in Workers, RecordManifest(p) PROVE StoreInv'
  <2>. DEFINE i == job[p].publication
              m == [artifact |-> job[p].artifact, status |-> job[p].status,
                    previous |-> job[p].previous]
  <2>1. /\ i \in Publications /\ manifests[i] = None
        /\ job[p].artifact \in artifacts
        /\ job[p].previous # None => Decided(job[p].previous)
        /\ m \in Manifest
    BY <1>0, <1>10, <1>a DEF RecordManifest, RecordManifestTo, StoreInv, AdmittedOK, Undecided,
       Critical, Recording, Job, JobOK, Manifest
  <2>2. /\ manifests' = [manifests EXCEPT ![i] = m]
        /\ UNCHANGED <<artifacts, active, job>>
        /\ (pc'[p] = "active" /\ job[p].status = "ACTIVE") \/ pc'[p] = "incident"
        /\ \A q \in Workers \ {p} : pc'[q] = pc[q]
    BY <1>0, <1>10 DEF RecordManifest, RecordManifestTo, Goto, TypeOK
  <2>3. /\ manifests'[i] = m /\ m # None
        /\ \A k \in Publications : k # i => manifests'[k] = manifests[k]
    BY <1>0, <2>1, <2>2, NoneIsNoManifest DEF TypeOK
  <2>4. \A k \in Publications : Decided(k) => manifests'[k] = manifests[k]
    BY <2>1, <2>3 DEF Decided
  <2>5. /\ active \in Publications \cup {None}
        /\ job[p].previous \in Publications \cup {None}
        /\ \A k \in Publications : manifests[k] # None => manifests[k] \in Manifest
    BY <1>0, <1>10, <1>a DEF RecordManifest, RecordManifestTo, TypeOK, Job, Critical, Recording
  <2>6. StoreReferencesResolve'
    <3>. SUFFICES ASSUME NEW k \in Publications, manifests'[k] # None
         PROVE  /\ manifests'[k].artifact \in artifacts
                /\ manifests'[k].previous # None =>
                     /\ manifests'[manifests'[k].previous] # None
                     /\ manifests'[manifests'[k].previous].status = "ACTIVE"
      BY <2>2, <2>4, <2>5 DEF StoreInv, StoreReferencesResolve, Decided
    <3>1. CASE k = i
      BY <2>1, <2>3, <2>4, <2>5, <3>1 DEF Decided
    <3>2. CASE k # i
      BY <2>3, <2>4, <2>5, <3>2
         DEF StoreInv, StoreReferencesResolve, Decided, Manifest
    <3>. QED BY <3>1, <3>2
  <2>7. AdmittedOK'
    <3>1. \A q \in Workers \ {p} : pc'[q] \notin Critical
      BY <2>2, <1>10, <1>a DEF RecordManifest, RecordManifestTo, Critical, Recording
    <3>2. pc'[p] = "active" => /\ manifests'[i] # None /\ manifests'[i].status = "ACTIVE"
      BY <2>2, <2>3
    <3>3. job[p].previous # None => /\ manifests'[job[p].previous] # None
                                    /\ manifests'[job[p].previous].status = "ACTIVE"
      BY <2>1, <2>4, <2>5 DEF Decided
    <3>. QED BY <2>2, <3>1, <3>2, <3>3
             DEF AdmittedOK, Decided, Undecided, Critical, Recording
  <2>. QED BY <2>6, <2>7 DEF StoreInv
<1>11. ASSUME NEW p \in Workers, RecordActive(p) PROVE StoreInv'
  <2>1. /\ active' = job[p].publication /\ Decided(job[p].publication)
        /\ UNCHANGED <<artifacts, manifests, job>>
        /\ pc'[p] = "incident"
        /\ \A q \in Workers \ {p} : pc'[q] = pc[q]
    BY <1>0, <1>11 DEF RecordActive, Goto, TypeOK, StoreInv, AdmittedOK
  <2>2. StoreReferencesResolve'
    BY <2>1 DEF StoreInv, StoreReferencesResolve, Decided
  <2>3. AdmittedOK'
    BY <1>11, <1>a, <2>1 DEF RecordActive, StoreInv, AdmittedOK, Decided,
       Undecided, Critical, Recording
  <2>. QED BY <2>2, <2>3 DEF StoreInv
<1>12. CASE ApplyLate
  BY <1>12 DEF ApplyLate, storeVars, StoreInv, StoreReferencesResolve, AdmittedOK, Decided
<1>13. CASE UNCHANGED vars
  BY <1>13 DEF vars, StoreInv, StoreReferencesResolve, AdmittedOK, Decided
<1>. QED BY <1>1, <1>2, <1>3, <1>4, <1>5, <1>6, <1>7, <1>8, <1>9, <1>10, <1>11,
            <1>12, <1>13 DEF Next, Step

\* Whoever dies when, every manifest finds its artifact and every reference to
\* a publication finds a manifest that says ACTIVE.
THEOREM StoreConsistent == Spec => []StoreReferencesResolve
<1>1. Init => ControlInv /\ StoreInv
  BY InitControl, InitStore
<1>2. (ControlInv /\ StoreInv) /\ [Next]_vars => (ControlInv /\ StoreInv)'
  BY NextControl, NextStore
<1>3. StoreInv => StoreReferencesResolve
  BY DEF StoreInv
<1>. QED BY <1>1, <1>2, <1>3, PTL DEF Spec

\* The check on entry still holds at the write it is for: the lock is held by
\* the one process in the section and its identifier is still unused.
THEOREM NeverRefused == Spec => []RecordNeverRefused
<1>1. Init => ControlInv /\ StoreInv
  BY InitControl, InitStore
<1>2. (ControlInv /\ StoreInv) /\ [Next]_vars => (ControlInv /\ StoreInv)'
  BY NextControl, NextStore
<1>3. ControlInv /\ StoreInv => RecordNeverRefused
  BY DEF ControlInv, MutualExclusion, StoreInv, AdmittedOK, RecordNeverRefused,
         Undecided, Critical, Recording
<1>. QED BY <1>1, <1>2, <1>3, PTL DEF Spec

-----------------------------------------------------------------------------
(***************************************************************************)
(* The live revision.  Between rollback()'s read of the pointer and its    *)
(* DELETE only the lock keeps another process from moving the pointer, and *)
(* between verify() and the pointer's PUT from deleting the revision.      *)
(***************************************************************************)
LiveInv ==
  /\ late = {}
  /\ LiveRevisionStaged
  /\ \A p \in Workers :
       /\ pc[p] = "activate" => Revision(p) \in plane.staged
       /\ pc[p] = "delete" => plane.active # Revision(p)

Readable == "read_error" \notin Faults /\ "late" \notin Faults

\* A step of one process that leaves the plane alone preserves LiveInv, if that
\* process is at neither of the two labels afterwards.
LEMMA LiveFrame ==
  ASSUME LiveInv, NEW p \in Workers, UNCHANGED planeVars,
         \A q \in Workers \ {p} : pc'[q] = pc[q] /\ job'[q] = job[q],
         pc'[p] \notin {"activate", "delete"}
  PROVE  LiveInv'
BY DEF LiveInv, LiveRevisionStaged, planeVars, Revision

\* Every action preserves LiveInv while the Admin API can be read.
LEMMA NextLive ==
  ASSUME Readable
  PROVE  ControlInv /\ LiveInv /\ [Next]_vars => LiveInv'
<1>. SUFFICES ASSUME ControlInv, LiveInv, [Next]_vars PROVE LiveInv'
  OBVIOUS
<1>0. TypeOK /\ JobOK /\ MutualExclusion
  BY DEF ControlInv
<1>a. ASSUME NEW p \in Workers, pc[p] \in Critical
      PROVE  \A q \in Workers \ {p} : pc[q] \notin Critical
  BY <1>0, <1>a DEF MutualExclusion
<1>b. {"activate", "delete"} \subseteq Critical
  BY DEF Critical
<1>c. ActiveRevision = {plane.active}
  BY DEF ActiveRevision, Readable
<1>d. ASSUME NEW req \in Requests, NEW ok \in BOOLEAN, Write(req, ok)
      PROVE  late' = late /\ (plane' = plane \/ plane' = Applied(req))
  BY <1>d DEF Write, Readable, planeVars
<1>e. ASSUME NEW p \in Workers, pc[p] \in Critical
      PROVE  Revision(p) \in Revisions
  BY <1>0, <1>e, RevisionType DEF JobOK, Critical, Recording
<1>. USE DEF Goto, Status, Leave
<1>1. ASSUME NEW p \in Workers, NEW i \in Publications, NEW a \in Artifacts,
             Publish(p, i, a)
      PROVE  LiveInv'
  BY <1>0, <1>1, LiveFrame DEF Publish, TypeOK
<1>2. ASSUME NEW p \in Workers,
             \/ Acquire(p) \/ Admit(p) \/ Reject(p) \/ StageReadBack(p)
             \/ Converge(p) \/ Confirm(p)
      PROVE  LiveInv'
  BY <1>0, <1>2, LiveFrame
     DEF Acquire, Admit, Reject, StageReadBack, Converge, Confirm, TypeOK
<1>3. ASSUME NEW p \in Workers,
             \/ RecordArtifact(p) \/ RecordManifest(p) \/ RecordActive(p)
             \/ Report(p) \/ ReportFails(p) \/ Crash(p)
      PROVE  LiveInv'
  BY <1>0, <1>3, LiveFrame
     DEF RecordArtifact, RecordManifest, RecordManifestTo, RecordActive, Report,
         ReportFails, Crash, TypeOK
<1>4. ASSUME NEW p \in Workers, NEW ok \in BOOLEAN, CheckHealth(p, ok)
      PROVE  LiveInv'
  BY <1>0, <1>4, LiveFrame DEF CheckHealth, TypeOK
<1>5. ASSUME NEW p \in Workers, NEW ok \in BOOLEAN, StagePut(p, ok)
      PROVE  LiveInv'
  <2>. DEFINE req == [op |-> "put", revision |-> Revision(p)]
  <2>1. /\ pc[p] = "put" /\ Write(req, ok)
        /\ pc'[p] \in {"readback", "artifact"}
        /\ \A q \in Workers \ {p} : pc'[q] = pc[q] /\ job'[q] = job[q]
    BY <1>0, <1>5 DEF StagePut, TypeOK
  <2>2. req \in Requests /\ \A q \in Workers \ {p} : pc[q] \notin Critical
    BY <1>a, <1>e, <2>1 DEF Requests, Critical
  <2>3. late' = late /\ plane'.active = plane.active /\ plane.staged \subseteq plane'.staged
    BY <1>0, <1>d, <2>1, <2>2 DEF Applied, TypeOK
  <2>. QED BY <1>b, <2>1, <2>2, <2>3 DEF LiveInv, LiveRevisionStaged
<1>6. ASSUME NEW p \in Workers, NEW ok \in BOOLEAN, Verify(p, ok)
      PROVE  LiveInv'
  <2>1. /\ UNCHANGED planeVars /\ pc[p] \in Critical
        /\ pc'[p] = "rollback" \/ (pc'[p] = "activate" /\ Revision(p) \in plane.staged)
        /\ job'[p].artifact = job[p].artifact
        /\ \A q \in Workers \ {p} : pc'[q] = pc[q] /\ job'[q] = job[q]
    BY <1>0, <1>6 DEF Verify, TypeOK, Critical, JobOK, Job
  <2>. QED BY <1>a, <1>b, <2>1 DEF LiveInv, LiveRevisionStaged, Revision, planeVars
<1>7. ASSUME NEW p \in Workers, NEW ok \in BOOLEAN, ActivatePut(p, ok)
      PROVE  LiveInv'
  <2>. DEFINE req == [op |-> "activate", revision |-> Revision(p)]
  <2>1. /\ pc[p] = "activate" /\ Write(req, ok)
        /\ pc'[p] \in {"converge", "rollback"}
        /\ \A q \in Workers \ {p} : pc'[q] = pc[q] /\ job'[q] = job[q]
    BY <1>0, <1>7 DEF ActivatePut, TypeOK
  <2>2. /\ req \in Requests /\ \A q \in Workers \ {p} : pc[q] \notin Critical
        /\ Revision(p) \in plane.staged
    BY <1>a, <1>e, <2>1 DEF Requests, Critical, LiveInv
  <2>3. /\ late' = late /\ plane'.staged = plane.staged
        /\ plane'.active \in {plane.active, Revision(p)}
    BY <1>0, <1>d, <2>1, <2>2 DEF Applied, TypeOK
  <2>. QED BY <1>b, <2>1, <2>2, <2>3 DEF LiveInv, LiveRevisionStaged
<1>8. ASSUME NEW p \in Workers, RollbackCheck(p) PROVE LiveInv'
  <2>1. /\ UNCHANGED planeVars /\ pc[p] \in Critical
        /\ \/ pc'[p] = "idle"
           \/ pc'[p] = "delete" /\ plane.active # Revision(p) /\ job' = job
        /\ \A q \in Workers \ {p} : pc'[q] = pc[q] /\ job'[q] = job[q]
    BY <1>0, <1>8, <1>c DEF RollbackCheck, TypeOK, Critical
  <2>. QED BY <1>a, <1>b, <2>1 DEF LiveInv, LiveRevisionStaged, Revision, planeVars
<1>9. ASSUME NEW p \in Workers, NEW ok \in BOOLEAN, RollbackDelete(p, ok)
      PROVE  LiveInv'
  <2>. DEFINE req == [op |-> "delete", revision |-> Revision(p)]
  <2>1. /\ pc[p] = "delete" /\ Write(req, ok)
        /\ pc'[p] \in {"artifact", "idle"}
        /\ \A q \in Workers \ {p} : pc'[q] = pc[q] /\ job'[q] = job[q]
    BY <1>0, <1>9 DEF RollbackDelete, TypeOK
  <2>2. /\ req \in Requests /\ \A q \in Workers \ {p} : pc[q] \notin Critical
        /\ plane.active # Revision(p)
    BY <1>a, <1>e, <2>1 DEF Requests, Critical, LiveInv
  <2>3. /\ late' = late /\ plane'.active = plane.active
        /\ plane.staged \ {Revision(p)} \subseteq plane'.staged
    BY <1>0, <1>d, <2>1, <2>2 DEF Applied, TypeOK
  <2>. QED BY <1>b, <2>1, <2>2, <2>3 DEF LiveInv, LiveRevisionStaged
<1>10. CASE ApplyLate
  BY <1>10 DEF ApplyLate, LiveInv
<1>11. CASE UNCHANGED vars
  BY <1>11 DEF vars, LiveInv, LiveRevisionStaged, Revision
<1>. QED BY <1>1, <1>2, <1>3, <1>4, <1>5, <1>6, <1>7, <1>8, <1>9, <1>10, <1>11
         DEF Next, Step

\* While the Admin API can be read and no timed-out write lands late, the
\* pointer never names a revision that is not there, whatever else fails and
\* however many processes publish: rollback() deletes no live revision.
THEOREM LiveNeverDeleted ==
  ASSUME Readable
  PROVE  Spec => []LiveRevisionStaged
<1>1. Init => ControlInv /\ LiveInv
  BY InitControl DEF Init, LiveInv, LiveRevisionStaged
<1>2. (ControlInv /\ LiveInv) /\ [Next]_vars => (ControlInv /\ LiveInv)'
  BY NextControl, NextLive
<1>3. LiveInv => LiveRevisionStaged
  BY DEF LiveInv
<1>. QED BY <1>1, <1>2, <1>3, PTL DEF Spec

-----------------------------------------------------------------------------
(***************************************************************************)
(* Refinement: the files of the store are a PublicationLedger.             *)
(***************************************************************************)
LedgerOf == [i \in Publications |->
              IF manifests[i] = None THEN None ELSE manifests[i].status]
PendingOf == IF \E p \in Workers : pc[p] = "active"
             THEN job[lock].publication ELSE None

\* A step that neither enters nor leaves "active" keeps the pending publication.
LEMMA PendingFrame ==
  ASSUME ControlInv, ControlInv', NEW p \in Workers,
         pc[p] # "active", pc'[p] # "active",
         \A q \in Workers \ {p} : pc'[q] = pc[q] /\ job'[q] = job[q]
  PROVE  PendingOf' = PendingOf
<1>1. CASE \E q \in Workers : pc[q] = "active"
  <2>1. PICK q \in Workers : pc[q] = "active"
    BY <1>1
  <2>2. q # p /\ pc'[q] = "active" /\ job'[q] = job[q]
    BY <2>1
  <2>3. lock = q /\ lock' = q
    BY <2>1, <2>2 DEF ControlInv, MutualExclusion, Critical, Recording
  <2>. QED BY <2>1, <2>2, <2>3 DEF PendingOf
<1>2. CASE ~ \E q \in Workers : pc[q] = "active"
  BY <1>2 DEF PendingOf
<1>. QED BY <1>1, <1>2

\* Every step of a publisher is a step of the ledger or leaves it as it is.
LEMMA LedgerStep ==
  ASSUME ControlInv, ControlInv', StoreInv, [Next]_vars
  PROVE  [Ledger!Next]_(Ledger!ledgerVars)
<1>0. TypeOK /\ JobOK /\ MutualExclusion
  BY DEF ControlInv
<1>a. ASSUME LedgerOf' = LedgerOf, active' = active, PendingOf' = PendingOf
      PROVE  UNCHANGED Ledger!ledgerVars
  BY <1>a DEF LedgerOf, PendingOf, Ledger!ledgerVars
<1>b. ASSUME NEW p \in Workers, UNCHANGED <<manifests, active>>,
             pc[p] # "active", pc'[p] # "active",
             \A q \in Workers \ {p} : pc'[q] = pc[q] /\ job'[q] = job[q]
      PROVE  UNCHANGED Ledger!ledgerVars
  BY <1>a, <1>b, PendingFrame DEF LedgerOf
<1>c. ASSUME NEW p \in Workers, pc[p] = "active"
      PROVE  /\ lock = p /\ PendingOf = job[p].publication
             /\ job[p].publication \in Publications
             /\ \A q \in Workers \ {p} : pc[q] # "active"
  BY <1>0, <1>c DEF PendingOf, MutualExclusion, JobOK, Job, Critical, Recording
<1>d. ASSUME \A q \in Workers : pc[q] # "active"
      PROVE  PendingOf = None
  BY <1>d DEF PendingOf
<1>. USE DEF Goto, Status, Leave, storeVars
<1>1. ASSUME NEW p \in Workers, NEW i \in Publications, NEW a \in Artifacts,
             Publish(p, i, a)
      PROVE  UNCHANGED Ledger!ledgerVars
  BY <1>0, <1>1, <1>b DEF Publish, TypeOK
<1>2. ASSUME NEW p \in Workers,
             \/ Acquire(p) \/ Admit(p) \/ Reject(p) \/ StageReadBack(p)
             \/ Converge(p) \/ Confirm(p) \/ RollbackCheck(p)
             \/ RecordArtifact(p) \/ Report(p) \/ ReportFails(p)
      PROVE  UNCHANGED Ledger!ledgerVars
  BY <1>0, <1>2, <1>b
     DEF Acquire, Admit, Reject, StageReadBack, Converge, Confirm, RollbackCheck,
         RecordArtifact, Report, ReportFails, TypeOK
<1>3. ASSUME NEW p \in Workers, NEW ok \in BOOLEAN,
             \/ CheckHealth(p, ok) \/ StagePut(p, ok) \/ Verify(p, ok)
             \/ ActivatePut(p, ok) \/ RollbackDelete(p, ok)
      PROVE  UNCHANGED Ledger!ledgerVars
  BY <1>0, <1>3, <1>b
     DEF CheckHealth, StagePut, Verify, ActivatePut, RollbackDelete, TypeOK
<1>4. ASSUME NEW p \in Workers, RecordManifest(p)
      PROVE  \E i \in Publications, v \in Ledger!Verdicts : Ledger!Decide(i, v)
  <2>0. PICK i \in Publications, v \in Recorded :
          i = job[p].publication /\ v = job[p].status
    BY <1>0, <1>4 DEF RecordManifest, RecordManifestTo, JobOK, Job
  <2>1. /\ pc[p] = "manifest" /\ job[p] \in Job
        /\ manifests[i] = None /\ lock = p
        /\ \A q \in Workers \ {p} : pc[q] \notin Critical
    BY <1>0, <1>4, <2>0 DEF RecordManifest, RecordManifestTo, JobOK, Job, StoreInv, AdmittedOK,
       Undecided, MutualExclusion, Critical, Recording
  <2>2. PendingOf = None
    BY <1>d, <2>1 DEF Critical, Recording
  <2>3. LedgerOf' = [LedgerOf EXCEPT ![i] = v] /\ LedgerOf[i] = None
    <3>. DEFINE m == [artifact |-> job[p].artifact, status |-> job[p].status,
                      previous |-> job[p].previous]
    <3>1. manifests' = [manifests EXCEPT ![i] = m] /\ m.status = v
      BY <1>4, <2>0 DEF RecordManifest, RecordManifestTo
    <3>2. m \in Manifest
      BY <2>0, <2>1 DEF Job, Manifest
    <3>3. m # None
      BY <3>2, NoneIsNoManifest
    <3>. HIDE DEF m
    <3>. QED BY <1>0, <2>1, <3>1, <3>3 DEF LedgerOf, TypeOK
  <2>4. PendingOf' = IF v = "ACTIVE" THEN i ELSE None
    <3>1. /\ lock' = lock /\ job' = job
          /\ pc'[p] = IF v = "ACTIVE" THEN "active" ELSE "incident"
          /\ \A q \in Workers \ {p} : pc'[q] = pc[q]
      BY <1>0, <1>4, <2>0 DEF RecordManifest, RecordManifestTo, TypeOK
    <3>. QED BY <2>0, <2>1, <3>1 DEF PendingOf, Critical, Recording
  <2>5. active' = active /\ v \in Ledger!Verdicts
    BY <1>4 DEF RecordManifest, RecordManifestTo, Ledger!Verdicts, Recorded, FailedStatuses
  <2>6. Ledger!Decide(i, v)
    BY <2>2, <2>3, <2>4, <2>5 DEF Ledger!Decide, LedgerOf, PendingOf
  <2>. QED BY <2>5, <2>6
<1>5. ASSUME NEW p \in Workers, RecordActive(p)
      PROVE  Ledger!Advance
  <2>1. pc[p] = "active" /\ PendingOf = job[p].publication /\ PendingOf # None
    BY <1>5, <1>c, NoneAssumption DEF RecordActive
  <2>2. \A q \in Workers : pc'[q] # "active"
    BY <1>0, <1>5, <1>c DEF RecordActive, TypeOK
  <2>3. PendingOf' = None /\ active' = PendingOf /\ LedgerOf' = LedgerOf
    BY <1>5, <2>1, <2>2 DEF RecordActive, PendingOf, LedgerOf
  <2>. QED BY <2>1, <2>3 DEF Ledger!Advance, LedgerOf, PendingOf
<1>6. ASSUME NEW p \in Workers, Crash(p)
      PROVE  [Ledger!Next]_(Ledger!ledgerVars)
  <2>1. CASE pc[p] # "active"
    BY <1>0, <1>6, <1>b, <2>1 DEF Crash, TypeOK
  <2>2. CASE pc[p] = "active"
    <3>1. PendingOf # None
      BY <1>c, <2>2, NoneAssumption
    <3>2. \A q \in Workers : pc'[q] # "active"
      BY <1>0, <1>6, <1>c, <2>2 DEF Crash, TypeOK
    <3>3. PendingOf' = None /\ UNCHANGED <<LedgerOf, active>>
      BY <1>6, <3>2 DEF Crash, PendingOf, LedgerOf
    <3>4. Ledger!Lapse
      BY <3>1, <3>3 DEF Ledger!Lapse, LedgerOf, PendingOf
    <3>. QED BY <3>4 DEF Ledger!Next
  <2>. QED BY <2>1, <2>2
<1>7. CASE ApplyLate
  BY <1>7, <1>a DEF ApplyLate, LedgerOf, PendingOf
<1>8. CASE UNCHANGED vars
  BY <1>8, <1>a DEF vars, LedgerOf, PendingOf
<1>. QED BY <1>1, <1>2, <1>3, <1>4, <1>5, <1>6, <1>7, <1>8
         DEF Next, Step, Ledger!Next

\* The durable record of any number of publishers, with any faults, is a
\* ledger: each publication is decided once, and the active one moves only to
\* the publication decided ACTIVE last.
THEOREM RefinesLedger == Spec => LedgerSpec
<1>1. Init => ControlInv /\ StoreInv
  BY InitControl, InitStore
<1>2. (ControlInv /\ StoreInv) /\ [Next]_vars => (ControlInv /\ StoreInv)'
  BY NextControl, NextStore
<1>3. Init => Ledger!Init
  BY DEF Init, Ledger!Init
<1>4. /\ ControlInv /\ StoreInv /\ (ControlInv /\ StoreInv)'
      /\ [Next]_vars
      => [Ledger!Next]_(Ledger!ledgerVars)
  BY LedgerStep
<1>. QED BY <1>1, <1>2, <1>3, <1>4, PTL DEF Spec, LedgerSpec, Ledger!Spec
-----------------------------------------------------------------------------
(***************************************************************************)
(* The incident.  A process past its manifest owes the incident its        *)
(* outcome; when nobody owes anything and nothing was interrupted, the     *)
(* incident tells the outcome recorded last.                               *)
(***************************************************************************)
Owing == {"active", "incident"}

IncidentTells == incident = "OPEN" <=> verdict \in FailedStatuses

IncidentInv ==
  /\ \A p \in Workers : pc[p] \in Owing => verdict = job[p].status
  /\ interrupted \/ (\E p \in Workers : pc[p] \in Owing) \/ IncidentTells

\* A step that changes neither the incident nor the outcome recorded last, and
\* neither makes its process owe an outcome nor lets it go without interruption.
LEMMA IncidentFrame ==
  ASSUME IncidentInv, UNCHANGED <<incident, verdict>>, NEW p \in Workers,
         \A q \in Workers \ {p} : pc'[q] = pc[q] /\ job'[q] = job[q],
         pc'[p] \notin Owing, pc[p] \in Owing => interrupted',
         interrupted => interrupted'
  PROVE  IncidentInv'
BY DEF IncidentInv, IncidentTells

\* Every action preserves it, whatever the faults.
LEMMA NextIncident == ControlInv /\ IncidentInv /\ [Next]_vars => IncidentInv'
<1>. SUFFICES ASSUME ControlInv, IncidentInv, [Next]_vars PROVE IncidentInv'
  OBVIOUS
<1>0. TypeOK /\ JobOK /\ MutualExclusion
  BY DEF ControlInv
<1>a. ASSUME NEW p \in Workers, pc[p] \in Critical
      PROVE  job[p] \in Job /\ \A q \in Workers \ {p} : pc[q] \notin Owing
  BY <1>0, <1>a DEF JobOK, MutualExclusion, Critical, Recording, Owing
<1>. USE DEF Goto, Status, Leave, history, Owing
<1>1. ASSUME NEW p \in Workers, NEW i \in Publications, NEW a \in Artifacts,
             Publish(p, i, a)
      PROVE  IncidentInv'
  BY <1>0, <1>1, IncidentFrame DEF Publish, TypeOK
<1>2. ASSUME NEW p \in Workers,
             \/ Acquire(p) \/ Admit(p) \/ Reject(p) \/ StageReadBack(p)
             \/ Converge(p) \/ Confirm(p) \/ RollbackCheck(p)
      PROVE  IncidentInv'
  BY <1>0, <1>2, IncidentFrame
     DEF Acquire, Admit, Reject, StageReadBack, Converge, Confirm, RollbackCheck, TypeOK
<1>3. ASSUME NEW p \in Workers, NEW ok \in BOOLEAN,
             \/ CheckHealth(p, ok) \/ StagePut(p, ok) \/ Verify(p, ok)
             \/ ActivatePut(p, ok) \/ RollbackDelete(p, ok)
      PROVE  IncidentInv'
  BY <1>0, <1>3, IncidentFrame
     DEF CheckHealth, StagePut, Verify, ActivatePut, RollbackDelete, TypeOK
<1>4. ASSUME NEW p \in Workers, RecordArtifact(p) \/ ReportFails(p) \/ Crash(p)
      PROVE  IncidentInv'
  BY <1>0, <1>4, IncidentFrame DEF RecordArtifact, ReportFails, Crash, TypeOK
<1>5. ASSUME NEW p \in Workers, RecordManifest(p) PROVE IncidentInv'
  <2>1. /\ pc[p] = "manifest" /\ pc'[p] \in Owing /\ verdict' = job[p].status
        /\ job' = job /\ \A q \in Workers \ {p} : pc'[q] = pc[q]
    BY <1>0, <1>5 DEF RecordManifest, RecordManifestTo, TypeOK
  <2>. QED BY <1>a, <2>1 DEF IncidentInv, Critical, Recording
<1>6. ASSUME NEW p \in Workers, RecordActive(p) PROVE IncidentInv'
  <2>1. /\ pc[p] = "active" /\ pc'[p] = "incident" /\ verdict' = verdict
        /\ job' = job /\ \A q \in Workers \ {p} : pc'[q] = pc[q]
    BY <1>0, <1>6 DEF RecordActive, TypeOK
  <2>. QED BY <1>a, <2>1 DEF IncidentInv, Critical, Recording
<1>7. ASSUME NEW p \in Workers, Report(p) PROVE IncidentInv'
  <2>1. /\ verdict = job[p].status /\ UNCHANGED <<verdict, interrupted>>
        /\ pc'[p] = "idle" /\ \A q \in Workers \ {p} : pc'[q] = pc[q] /\ job'[q] = job[q]
        /\ incident' = IF job[p].status \in FailedStatuses THEN "OPEN"
                       ELSE IF incident = "NONE" THEN "NONE" ELSE "RESOLVED"
    BY <1>0, <1>7 DEF Report, TypeOK, IncidentInv
  <2>2. IncidentTells'
    BY <2>1 DEF IncidentTells
  <2>3. \A q \in Workers \ {p} : pc'[q] \notin Owing
    BY <1>7, <1>a, <2>1 DEF Report, Critical
  <2>. QED BY <2>1, <2>2, <2>3 DEF IncidentInv
<1>8. CASE ApplyLate
  BY <1>8 DEF ApplyLate, IncidentInv, IncidentTells
<1>9. CASE UNCHANGED vars
  BY <1>9 DEF vars, IncidentInv, IncidentTells
<1>. QED BY <1>1, <1>2, <1>3, <1>4, <1>5, <1>6, <1>7, <1>8, <1>9 DEF Next, Step

\* Whatever fails, unless a call ended without reporting: between calls the
\* incident is open exactly when the publication recorded last has failed.
THEOREM IncidentIsTrue == Spec => []IncidentTellsLastOutcome
<1>1. Init => ControlInv /\ IncidentInv
  BY InitControl, NoneIsNoStatus
     DEF Init, IncidentInv, IncidentTells, Owing, Recorded
<1>2. (ControlInv /\ IncidentInv) /\ [Next]_vars => (ControlInv /\ IncidentInv)'
  BY NextControl, NextIncident
<1>3. ControlInv /\ IncidentInv => IncidentTellsLastOutcome
  BY NoneAssumption
     DEF ControlInv, MutualExclusion, IncidentInv, IncidentTells,
         IncidentTellsLastOutcome, Owing, Critical, Recording
<1>. QED BY <1>1, <1>2, <1>3, PTL DEF Spec

-----------------------------------------------------------------------------
(***************************************************************************)
(* The record and the gateway.  While a process is between its write of    *)
(* the pointer and its outcome the gateway may serve its revision instead  *)
(* of the recorded one; nothing else parts the two without an interruption.*)
(***************************************************************************)
Recognized(p) ==
  pc[p] \in {"artifact", "manifest", "active"} /\ job[p].status = "ACTIVE"

Moving(p) == pc[p] \in {"converge", "confirm", "rollback"} \/ Recognized(p)

Agreed == plane.active = RecordedRevision

AgreeInv ==
  /\ \A p \in Workers :
       /\ Recognized(p) => plane.active = Revision(p)
       /\ pc[p] = "active" =>
            manifests[job[p].publication].artifact = job[p].artifact
  /\ \/ interrupted \/ Agreed
     \/ \E p \in Workers : Moving(p) /\ plane.active = Revision(p)

\* A step that leaves pointer and record alone, and whose process neither was nor
\* is recognized, and stops moving only where the record agrees.
LEMMA AgreeFrame ==
  ASSUME AgreeInv, plane'.active = plane.active, UNCHANGED <<manifests, active>>,
         NEW p \in Workers,
         \A q \in Workers \ {p} : pc'[q] = pc[q] /\ job'[q] = job[q],
         ~Recognized(p)', pc'[p] # "active", interrupted => interrupted',
         Moving(p) => \/ interrupted' \/ Agreed \/ plane.active # Revision(p)
                      \/ Moving(p)' /\ Revision(p)' = Revision(p)
  PROVE  AgreeInv'
<1>1. RecordedRevision' = RecordedRevision
  BY DEF RecordedRevision
<1>2. \A q \in Workers \ {p} :
        /\ Recognized(q)' <=> Recognized(q)
        /\ Moving(q)' <=> Moving(q)
        /\ Revision(q)' = Revision(q)
  BY DEF Recognized, Moving, Revision
<1>3. \A q \in Workers :
        /\ Recognized(q)' => plane'.active = Revision(q)'
        /\ pc'[q] = "active" =>
             manifests'[job'[q].publication].artifact = job'[q].artifact
  BY <1>2 DEF AgreeInv
<1>4. \/ interrupted' \/ Agreed'
      \/ \E q \in Workers : Moving(q)' /\ plane'.active = Revision(q)'
  BY <1>1, <1>2 DEF AgreeInv, Agreed
<1>. QED BY <1>3, <1>4 DEF AgreeInv

\* Every action preserves it while the Admin API can be read and no timed-out
\* write lands late.
LEMMA NextAgree ==
  ASSUME Readable
  PROVE  ControlInv /\ StoreInv /\ LiveInv /\ AgreeInv /\ [Next]_vars => AgreeInv'
<1>. SUFFICES ASSUME ControlInv, StoreInv, LiveInv, AgreeInv, [Next]_vars PROVE AgreeInv'
  OBVIOUS
<1>0. TypeOK /\ JobOK /\ MutualExclusion
  BY DEF ControlInv
<1>a. ASSUME NEW p \in Workers, pc[p] \in Critical
      PROVE  /\ job[p] \in Job /\ Revision(p) \in Revisions
             /\ \A q \in Workers \ {p} : ~Moving(q)
  BY <1>0, <1>a, RevisionType
     DEF JobOK, MutualExclusion, Critical, Recording, Moving, Recognized
<1>b. ActiveRevision = {plane.active}
  BY DEF ActiveRevision, Readable
<1>c. ASSUME NEW req \in Requests, NEW ok \in BOOLEAN, Write(req, ok)
      PROVE  /\ plane'.active \in {plane.active, Applied(req).active}
             /\ req.op # "activate" => plane'.active = plane.active
  BY <1>0, <1>c DEF Write, Readable, planeVars, Applied, TypeOK
<1>. USE DEF Goto, Status, Leave, history, planeVars, storeVars
<1>1. ASSUME NEW p \in Workers, NEW i \in Publications, NEW a \in Artifacts,
             Publish(p, i, a)
      PROVE  AgreeInv'
  BY <1>0, <1>1, AgreeFrame DEF Publish, TypeOK, Recognized, Moving
<1>2. ASSUME NEW p \in Workers, Acquire(p) \/ Admit(p) \/ StageReadBack(p)
      PROVE  AgreeInv'
  <2>1. /\ UNCHANGED <<planeVars, manifests, active, interrupted>>
        /\ pc[p] \in {"lock", "admit", "readback"}
        /\ \/ pc'[p] \in {"admit", "health", "verify"}
           \/ pc'[p] = "artifact" /\ job'[p].status = "FAILED"
        /\ \A q \in Workers \ {p} : pc'[q] = pc[q] /\ job'[q] = job[q]
    BY <1>0, <1>2 DEF Acquire, Admit, StageReadBack, TypeOK, JobOK, Job
  <2>. QED BY <2>1, AgreeFrame DEF Recognized, Moving
<1>3. ASSUME NEW p \in Workers, Reject(p) \/ Report(p) PROVE AgreeInv'
  BY <1>0, <1>3, AgreeFrame DEF Reject, Report, TypeOK, Recognized, Moving
<1>4. ASSUME NEW p \in Workers, ReportFails(p) \/ Crash(p) PROVE AgreeInv'
  BY <1>0, <1>4, AgreeFrame DEF ReportFails, Crash, TypeOK, Recognized, Moving
<1>5. ASSUME NEW p \in Workers, NEW ok \in BOOLEAN,
             CheckHealth(p, ok) \/ StagePut(p, ok) \/ Verify(p, ok)
      PROVE  AgreeInv'
  <2>1. /\ pc[p] \in {"health", "put", "verify"}
        /\ \/ pc'[p] \in {"put", "readback", "activate", "rollback"}
           \/ pc'[p] = "artifact" /\ job'[p].status = "FAILED"
        /\ \A q \in Workers \ {p} : pc'[q] = pc[q] /\ job'[q] = job[q]
        /\ UNCHANGED <<manifests, active, interrupted>>
    BY <1>0, <1>5 DEF CheckHealth, StagePut, Verify, TypeOK, JobOK, Job
  <2>2. [op |-> "put", revision |-> Revision(p)] \in Requests
    BY <1>a, <2>1 DEF Requests, Critical
  <2>3. plane'.active = plane.active
    BY <1>5, <1>c, <2>2 DEF CheckHealth, StagePut, Verify
  <2>. QED BY <2>1, <2>3, AgreeFrame DEF Recognized, Moving
<1>6. ASSUME NEW p \in Workers, NEW ok \in BOOLEAN, ActivatePut(p, ok)
      PROVE  AgreeInv'
  <2>. DEFINE req == [op |-> "activate", revision |-> Revision(p)]
  <2>1. /\ pc[p] = "activate" /\ Write(req, ok)
        /\ pc'[p] \in {"converge", "rollback"} /\ job' = job
        /\ \A q \in Workers \ {p} : pc'[q] = pc[q]
        /\ UNCHANGED <<manifests, active, interrupted>>
    BY <1>0, <1>6 DEF ActivatePut, TypeOK
  <2>2. /\ req \in Requests /\ pc[p] \in Critical
        /\ \A q \in Workers \ {p} : ~Moving(q)
    BY <1>a, <2>1 DEF Requests, Critical
  <2>3. plane'.active \in {plane.active, Revision(p)}
    BY <1>c, <2>1, <2>2 DEF Applied
  <2>4. /\ Moving(p)' /\ ~Recognized(p)' /\ ~Moving(p) /\ pc'[p] # "active"
        /\ Revision(p)' = Revision(p)
        /\ \A q \in Workers \ {p} : ~Moving(q)' /\ ~Recognized(q)' /\ pc'[q] # "active"
    BY <1>0, <2>1, <2>2 DEF Moving, Recognized, JobOK, Revision
  <2>5. RecordedRevision' = RecordedRevision
    BY <2>1 DEF RecordedRevision
  <2>6. interrupted \/ Agreed
    BY <2>2, <2>4 DEF AgreeInv
  <2>7. interrupted' \/ Agreed' \/ (Moving(p)' /\ plane'.active = Revision(p)')
    BY <2>1, <2>3, <2>4, <2>5, <2>6 DEF Agreed
  <2>. QED BY <2>4, <2>7 DEF AgreeInv
<1>7. ASSUME NEW p \in Workers, Converge(p) PROVE AgreeInv'
  BY <1>0, <1>7, AgreeFrame DEF Converge, TypeOK, Recognized, Moving, Revision
<1>8. ASSUME NEW p \in Workers, Confirm(p) PROVE AgreeInv'
  <2>1. /\ pc[p] = "confirm" /\ UNCHANGED <<planeVars, manifests, active, interrupted>>
        /\ \/ pc'[p] = "rollback" /\ job' = job
           \/ /\ pc'[p] = "artifact" /\ job'[p] = [job[p] EXCEPT !.status = "ACTIVE"]
              /\ plane.active = Revision(p)
        /\ \A q \in Workers \ {p} : pc'[q] = pc[q] /\ job'[q] = job[q]
    BY <1>0, <1>8, <1>b DEF Confirm, TypeOK
  <2>2. CASE pc'[p] = "rollback" /\ job' = job
    BY <2>1, <2>2, AgreeFrame DEF Recognized, Moving, Revision
  <2>3. CASE pc'[p] = "artifact" /\ plane.active = Revision(p)
    <3>1. /\ job'[p].status = "ACTIVE" /\ job'[p].artifact = job[p].artifact
          /\ \A q \in Workers \ {p} : ~Moving(q)
      BY <1>a, <2>1, <2>3 DEF Critical, Job
    <3>2. Moving(p)' /\ plane'.active = Revision(p)' /\ pc'[p] # "active"
      BY <2>1, <2>3, <3>1 DEF Moving, Recognized, Revision
    <3>3. \A q \in Workers \ {p} : ~Recognized(q)' /\ pc'[q] # "active"
      BY <1>0, <2>1, <3>1 DEF Moving, Recognized, JobOK
    <3>. QED BY <3>2, <3>3 DEF AgreeInv
  <2>. QED BY <2>1, <2>2, <2>3
<1>9. ASSUME NEW p \in Workers, RollbackCheck(p) PROVE AgreeInv'
  <2>1. /\ pc[p] = "rollback" /\ UNCHANGED <<planeVars, manifests, active>>
        /\ \/ pc'[p] = "idle" /\ interrupted'
           \/ pc'[p] = "delete" /\ plane.active # Revision(p) /\ interrupted' = interrupted
        /\ \A q \in Workers \ {p} : pc'[q] = pc[q] /\ job'[q] = job[q]
    BY <1>0, <1>9, <1>b DEF RollbackCheck, TypeOK
  <2>. QED BY <2>1, AgreeFrame DEF Recognized, Moving
<1>10. ASSUME NEW p \in Workers, NEW ok \in BOOLEAN, RollbackDelete(p, ok)
       PROVE  AgreeInv'
  <2>. DEFINE req == [op |-> "delete", revision |-> Revision(p)]
  <2>1. /\ pc[p] = "delete" /\ Write(req, ok)
        /\ \/ pc'[p] = "artifact" /\ job'[p].status = "ROLLED_BACK"
           \/ pc'[p] = "idle"
        /\ \A q \in Workers \ {p} : pc'[q] = pc[q] /\ job'[q] = job[q]
        /\ UNCHANGED <<manifests, active>> /\ (interrupted => interrupted')
    BY <1>0, <1>a, <1>10 DEF RollbackDelete, TypeOK, Critical, Job
  <2>2. req \in Requests
    BY <1>a, <2>1 DEF Requests, Critical
  <2>3. plane'.active = plane.active
    BY <1>c, <2>1, <2>2
  <2>. QED BY <2>1, <2>3, AgreeFrame DEF Recognized, Moving
<1>11. ASSUME NEW p \in Workers, RecordArtifact(p) PROVE AgreeInv'
  <2>1. /\ pc[p] = "artifact" /\ pc'[p] = "manifest" /\ job' = job
        /\ \A q \in Workers \ {p} : pc'[q] = pc[q]
        /\ UNCHANGED <<planeVars, manifests, active, interrupted>>
    BY <1>0, <1>11 DEF RecordArtifact, TypeOK, StoreInv, AdmittedOK, Undecided,
       Critical, Recording
  <2>2. /\ RecordedRevision' = RecordedRevision
        /\ \A q \in Workers : /\ Recognized(q)' <=> Recognized(q)
                              /\ Moving(q)' <=> Moving(q)
                              /\ Revision(q)' = Revision(q)
    BY <2>1 DEF RecordedRevision, Recognized, Moving, Revision
  <2>. QED BY <2>1, <2>2 DEF AgreeInv, Agreed
<1>12. ASSUME NEW p \in Workers, RecordManifest(p) PROVE AgreeInv'
  <2>. DEFINE i == job[p].publication
  <2>1. /\ pc[p] = "manifest" /\ job' = job
        /\ pc'[p] = IF job[p].status = "ACTIVE" THEN "active" ELSE "incident"
        /\ \A q \in Workers \ {p} : pc'[q] = pc[q]
        /\ manifests' = [manifests EXCEPT ![i] =
             [artifact |-> job[p].artifact, status |-> job[p].status,
              previous |-> job[p].previous]]
        /\ UNCHANGED <<planeVars, active, interrupted>>
    BY <1>0, <1>12 DEF RecordManifest, RecordManifestTo, TypeOK
  <2>2. /\ i \in Publications /\ manifests[i] = None
        /\ \A q \in Workers \ {p} : ~Moving(q)
        /\ \A q \in Workers \ {p} : pc[q] # "active"
    BY <1>0, <1>a, <2>1 DEF StoreInv, AdmittedOK, Undecided, Critical, Recording,
       Job, MutualExclusion
  <2>3. /\ manifests'[i].artifact = job[p].artifact
        /\ active # None => manifests'[active] = manifests[active]
    BY <1>0, <2>1, <2>2 DEF StoreInv, StoreReferencesResolve, TypeOK
  <2>4. /\ RecordedRevision' = RecordedRevision
        /\ \A q \in Workers : /\ Recognized(q)' <=> Recognized(q)
                              /\ Moving(q)' <=> Moving(q)
                              /\ Revision(q)' = Revision(q)
    BY <2>1, <2>3 DEF RecordedRevision, Recognized, Moving, Revision
  <2>5. pc'[p] = "active" => manifests'[job'[p].publication].artifact = job'[p].artifact
    BY <2>1, <2>3
  <2>. QED BY <2>1, <2>2, <2>4, <2>5 DEF AgreeInv, Agreed
<1>13. ASSUME NEW p \in Workers, RecordActive(p) PROVE AgreeInv'
  <2>1. /\ pc[p] = "active" /\ pc'[p] = "incident" /\ job' = job
        /\ active' = job[p].publication
        /\ \A q \in Workers \ {p} : pc'[q] = pc[q]
        /\ UNCHANGED <<planeVars, manifests>>
    BY <1>0, <1>13 DEF RecordActive, TypeOK
  <2>2. /\ plane.active = Revision(p) /\ active' # None
        /\ manifests[active'].artifact = job[p].artifact
        /\ \A q \in Workers \ {p} : ~Moving(q) /\ pc'[q] # "active"
    BY <1>0, <1>a, <2>1, NoneAssumption
       DEF AgreeInv, Recognized, Moving, JobOK, Job, Critical, Recording, MutualExclusion
  <2>3. Agreed'
    BY <2>1, <2>2 DEF Agreed, RecordedRevision, Revision
  <2>4. \A q \in Workers : ~Recognized(q)' /\ pc'[q] # "active"
    BY <2>1, <2>2 DEF Recognized, Moving
  <2>. QED BY <2>3, <2>4 DEF AgreeInv
<1>14. CASE ApplyLate
  BY <1>14 DEF ApplyLate, LiveInv
<1>15. CASE UNCHANGED vars
  BY <1>15 DEF vars, AgreeInv, Agreed, RecordedRevision, Recognized, Moving, Revision
<1>. QED BY <1>1, <1>2, <1>3, <1>4, <1>5, <1>6, <1>7, <1>8, <1>9, <1>10, <1>11,
            <1>12, <1>13, <1>14, <1>15 DEF Next, Step

\* The four invariants together, from the start and at every step.
LEMMA AgreeInvariance ==
  ASSUME Readable
  PROVE  Spec => [](ControlInv /\ StoreInv /\ LiveInv /\ AgreeInv)
<1>. DEFINE All == ControlInv /\ StoreInv /\ LiveInv /\ AgreeInv
<1>1. Init => All
  BY InitControl, InitStore
     DEF Init, LiveInv, LiveRevisionStaged, AgreeInv, Agreed, RecordedRevision, Recognized
<1>2. All /\ [Next]_vars => All'
  BY NextControl, NextStore, NextLive, NextAgree
<1>. QED BY <1>1, <1>2, PTL DEF Spec

\* While the Admin API can be read: between calls, and unless a call ended without
\* recording its outcome, the gateway serves what active.json records.
THEOREM RecordAgrees ==
  ASSUME Readable
  PROVE  Spec => []QuiescentAgreement
<1>. DEFINE All == ControlInv /\ StoreInv /\ LiveInv /\ AgreeInv
<1>1. All => QuiescentAgreement
  <2>1. ASSUME ControlInv, AgreeInv, lock = None PROVE interrupted \/ Agreed
    BY <2>1, NoneAssumption
       DEF ControlInv, MutualExclusion, AgreeInv, Moving, Recognized, Critical, Recording
  <2>. QED BY <2>1 DEF QuiescentAgreement, Agreed
<1>. QED BY <1>1, AgreeInvariance, PTL

\* While the Admin API can be read: active.json moves only to a publication the
\* gateway stages and serves at that very step.
THEOREM AdvancesAreLive ==
  ASSUME Readable
  PROVE  Spec => AdvanceIsLive
<1>. DEFINE All == ControlInv /\ StoreInv /\ LiveInv /\ AgreeInv
     Advance == active' # active =>
       /\ plane.active = RevisionFor(manifests[active'].artifact)
       /\ plane.active \in plane.staged
<1>1. All /\ [Next]_vars => Advance
  <2>. SUFFICES ASSUME ControlInv, LiveInv, AgreeInv, [Next]_vars, active' # active
       PROVE  Advance
    OBVIOUS
  <2>1. PICK p \in Workers : RecordActive(p)
    BY DEF Next, Step, Publish, Acquire, Admit, Reject, CheckHealth, StagePut,
       StageReadBack, Verify, ActivatePut, Converge, Confirm, RollbackCheck,
       RollbackDelete, RecordArtifact, RecordManifest, RecordManifestTo, Report,
       ReportFails, Crash, ApplyLate, storeVars, vars
  <2>2. /\ pc[p] = "active" /\ active' = job[p].publication
        /\ job[p] \in Job /\ job[p].status = "ACTIVE"
    BY <2>1 DEF RecordActive, ControlInv, JobOK
  <2>3. /\ plane.active = Revision(p)
        /\ manifests[active'].artifact = job[p].artifact
    BY <2>2 DEF AgreeInv, Recognized
  <2>4. plane.active # None
    BY <2>2, <2>3, RevisionType, NoneIsNoRevision
  <2>. QED BY <2>3, <2>4 DEF LiveInv, LiveRevisionStaged, Revision
<1>. QED BY <1>1, AgreeInvariance, PTL DEF Spec, AdvanceIsLive
=============================================================================
