------------------------- MODULE PublicationProofs -------------------------
(***************************************************************************)
(* Theorems about Publication, for any number of processes, publications   *)
(* and artifacts and any faults.  TypeOK is not inductive alone: that a    *)
(* manifest is well formed rests on what the recording process holds       *)
(* (JobOK), and what a process relies on between two of its steps rests on *)
(* the lock (MutualExclusion).                                             *)
(***************************************************************************)
EXTENDS Publication, TLAPS

JobOK ==
  \A p \in Workers :
    /\ pc[p] # "idle" => job[p] \in Job
    /\ pc[p] \in {"artifact", "manifest"} => job[p].status \in Recorded
    /\ pc[p] = "active" => job[p].status = "ACTIVE"

MutualExclusion == \A p \in Workers : pc[p] \in Critical <=> lock = p

ControlInv == TypeOK /\ JobOK /\ MutualExclusion

-----------------------------------------------------------------------------
\* A write to the Admin API leaves the plane and the late requests well typed,
\* whichever of its outcomes happens.
LEMMA WriteTypes ==
  ASSUME TypeOK, NEW req \in Requests, NEW answered \in BOOLEAN,
         Write(req, answered)
  PROVE  /\ plane' \in [staged : SUBSET Revisions, active : Revisions \cup {None}]
         /\ late' \in SUBSET Requests
<1>1. Applied(req) \in [staged : SUBSET Revisions, active : Revisions \cup {None}]
  BY DEF Applied, TypeOK, Requests
<1>. QED BY <1>1 DEF Write, TypeOK, planeVars

\* The revision of a process with a job is a revision.
LEMMA RevisionType ==
  ASSUME NEW p \in Workers, job[p] \in Job
  PROVE  Revision(p) \in Revisions
BY DEF Job, Revision, Revisions

\* A step of one process that moves only its own label and job, keeps the
\* label's obligations and enters or leaves the critical section with the
\* lock, preserves the control invariant.
LEMMA ControlMove ==
  ASSUME ControlInv, NEW p \in Workers, NEW l \in Labels, NEW j \in Job \cup {None},
         pc' = [pc EXCEPT ![p] = l], job' = [job EXCEPT ![p] = j],
         l # "idle" => j \in Job,
         l \in {"artifact", "manifest"} => j.status \in Recorded,
         l = "active" => j.status = "ACTIVE",
         \/ l \in Critical /\ lock = p /\ lock' = lock
         \/ l \in Critical /\ lock = None /\ lock' = p
         \/ l \notin Critical /\ lock = p /\ lock' = None
         \/ l \notin Critical /\ lock # p /\ lock' = lock
  PROVE  /\ pc' \in [Workers -> Labels]
         /\ job' \in [Workers -> Job \cup {None}]
         /\ lock' \in Workers \cup {None}
         /\ JobOK' /\ MutualExclusion'
<1>1. pc' \in [Workers -> Labels] /\ job' \in [Workers -> Job \cup {None}]
  BY DEF ControlInv, TypeOK
<1>2. lock' \in Workers \cup {None}
  BY DEF ControlInv, TypeOK
<1>3. JobOK'
  BY <1>1 DEF ControlInv, TypeOK, JobOK
<1>4. MutualExclusion'
  BY <1>1, NoneAssumption DEF ControlInv, TypeOK, MutualExclusion
<1>. QED BY <1>1, <1>2, <1>3, <1>4

LEMMA InitControl == Init => ControlInv
<1>. SUFFICES ASSUME Init PROVE ControlInv
  OBVIOUS
<1>1. TypeOK
  BY DEF Init, TypeOK, Labels
<1>2. JobOK /\ MutualExclusion
  BY NoneAssumption DEF Init, JobOK, MutualExclusion, Critical, Recording
<1>. QED BY <1>1, <1>2 DEF ControlInv

\* Every action preserves the control invariant: one step per action.
LEMMA NextControl == ControlInv /\ [Next]_vars => ControlInv'
<1>. SUFFICES ASSUME ControlInv, [Next]_vars PROVE ControlInv'
  OBVIOUS
<1>. USE DEF Goto, Status, Leave, planeVars, storeVars, history, Recording,
             Critical, Labels, Statuses, Recorded, FailedStatuses
<1>0. /\ TypeOK /\ JobOK /\ MutualExclusion
      /\ "idle" \notin Critical /\ "lock" \notin Critical
  BY DEF ControlInv
<1>a. ASSUME NEW p \in Workers, pc[p] \in Critical
      PROVE  lock = p /\ job[p] \in Job /\ Revision(p) \in Revisions
  BY <1>0, <1>a, RevisionType DEF JobOK, MutualExclusion
<1>b. ASSUME NEW p \in Workers, NEW j \in Job, NEW s \in Statuses
      PROVE  /\ [j EXCEPT !.status = s] \in Job
             /\ [j EXCEPT !.status = s].status = s
  BY DEF Job
<1>c. ASSUME NEW p \in Workers, pc[p] \in Critical, Leave(p)
      PROVE  /\ pc' \in [Workers -> Labels] /\ job' \in [Workers -> Job \cup {None}]
             /\ lock' \in Workers \cup {None} /\ JobOK' /\ MutualExclusion'
  BY <1>0, <1>a, <1>c, ControlMove
<1>d. ASSUME NEW p \in Workers, NEW l \in Critical, NEW s \in Statuses,
             pc[p] \in Critical, Goto(p, l), Status(p, s), lock' = lock,
             l \in {"artifact", "manifest"} => s \in Recorded, l # "active"
      PROVE  /\ pc' \in [Workers -> Labels] /\ job' \in [Workers -> Job \cup {None}]
             /\ lock' \in Workers \cup {None} /\ JobOK' /\ MutualExclusion'
  <2>. DEFINE j == [job[p] EXCEPT !.status = s]
  <2>1. j \in Job /\ j.status = s
    BY <1>a, <1>b, <1>d
  <2>2. job' = [job EXCEPT ![p] = j]
    BY <1>d
  <2>. HIDE DEF j
  <2>. QED BY <1>0, <1>a, <1>d, <2>1, <2>2, ControlMove
<1>e. ASSUME NEW p \in Workers, NEW l \in Critical \ Recording,
             pc[p] \in Critical, Goto(p, l), job' = job, lock' = lock
      PROVE  /\ pc' \in [Workers -> Labels] /\ job' \in [Workers -> Job \cup {None}]
             /\ lock' \in Workers \cup {None} /\ JobOK' /\ MutualExclusion'
  <2>1. job' = [job EXCEPT ![p] = job[p]]
    BY <1>0, <1>e DEF TypeOK
  <2>. QED BY <1>0, <1>a, <1>e, <2>1, ControlMove
<1>1. ASSUME NEW p \in Workers, NEW i \in Publications, NEW a \in Artifacts,
             Publish(p, i, a)
      PROVE  ControlInv'
  <2>1. [publication |-> i, artifact |-> a, status |-> "COMPILED",
         previous |-> None] \in Job
    BY DEF Job
  <2>2. lock # p
    BY <1>0, <1>1 DEF Publish, MutualExclusion
  <2>. QED BY <1>0, <1>1, <2>1, <2>2, ControlMove DEF Publish, ControlInv, TypeOK
<1>2. ASSUME NEW p \in Workers, Acquire(p) PROVE ControlInv'
  <2>1. job[p] \in Job /\ job' = [job EXCEPT ![p] = job[p]]
    BY <1>0, <1>2 DEF Acquire, JobOK, TypeOK
  <2>. QED BY <1>0, <1>2, <2>1, ControlMove DEF Acquire, ControlInv, TypeOK
<1>3. ASSUME NEW p \in Workers, Admit(p) PROVE ControlInv'
  <2>1. [job[p] EXCEPT !.previous = active] \in Job
    BY <1>0, <1>3, <1>a DEF Admit, Job, TypeOK
  <2>. QED BY <1>0, <1>3, <1>a, <2>1, ControlMove DEF Admit, ControlInv, TypeOK
<1>4. ASSUME NEW p \in Workers, Reject(p) PROVE ControlInv'
  BY <1>0, <1>4, <1>c DEF Reject, ControlInv, TypeOK
<1>5. ASSUME NEW p \in Workers, NEW ok \in BOOLEAN, CheckHealth(p, ok)
      PROVE  ControlInv'
  BY <1>0, <1>5, <1>d, <1>e DEF CheckHealth, ControlInv, TypeOK
<1>6. ASSUME NEW p \in Workers, NEW ok \in BOOLEAN, StagePut(p, ok) PROVE ControlInv'
  <2>1. [op |-> "put", revision |-> Revision(p)] \in Requests
    BY <1>6, <1>a DEF StagePut, Requests
  <2>2. /\ plane' \in [staged : SUBSET Revisions, active : Revisions \cup {None}]
        /\ late' \in SUBSET Requests
    BY <1>0, <1>6, <2>1, WriteTypes DEF StagePut
  <2>. QED BY <1>0, <1>6, <1>d, <1>e, <2>2 DEF StagePut, ControlInv, TypeOK
<1>7. ASSUME NEW p \in Workers, StageReadBack(p) PROVE ControlInv'
  BY <1>0, <1>7, <1>d, <1>e DEF StageReadBack, ControlInv, TypeOK
<1>8. ASSUME NEW p \in Workers, NEW ok \in BOOLEAN, Verify(p, ok) PROVE ControlInv'
  BY <1>0, <1>8, <1>d, <1>e DEF Verify, ControlInv, TypeOK
<1>9. ASSUME NEW p \in Workers, NEW ok \in BOOLEAN, ActivatePut(p, ok) PROVE ControlInv'
  <2>1. [op |-> "activate", revision |-> Revision(p)] \in Requests
    BY <1>9, <1>a DEF ActivatePut, Requests
  <2>2. /\ plane' \in [staged : SUBSET Revisions, active : Revisions \cup {None}]
        /\ late' \in SUBSET Requests
    BY <1>0, <1>9, <2>1, WriteTypes DEF ActivatePut
  <2>. QED BY <1>0, <1>9, <1>d, <1>e, <2>2 DEF ActivatePut, ControlInv, TypeOK
<1>10. ASSUME NEW p \in Workers, Converge(p) PROVE ControlInv'
  BY <1>0, <1>10, <1>d, <1>e DEF Converge, ControlInv, TypeOK
<1>11. ASSUME NEW p \in Workers, Confirm(p) PROVE ControlInv'
  BY <1>0, <1>11, <1>d, <1>e DEF Confirm, ControlInv, TypeOK
<1>12. ASSUME NEW p \in Workers, RollbackCheck(p) PROVE ControlInv'
  BY <1>0, <1>12, <1>c, <1>e DEF RollbackCheck, ControlInv, TypeOK
<1>13. ASSUME NEW p \in Workers, NEW ok \in BOOLEAN, RollbackDelete(p, ok) PROVE ControlInv'
  <2>1. [op |-> "delete", revision |-> Revision(p)] \in Requests
    BY <1>13, <1>a DEF RollbackDelete, Requests
  <2>2. /\ plane' \in [staged : SUBSET Revisions, active : Revisions \cup {None}]
        /\ late' \in SUBSET Requests
    BY <1>0, <1>13, <2>1, WriteTypes DEF RollbackDelete
  <2>. QED BY <1>0, <1>13, <1>c, <1>d, <2>2 DEF RollbackDelete, ControlInv, TypeOK
<1>14. ASSUME NEW p \in Workers, RecordArtifact(p) PROVE ControlInv'
  <2>1. CASE manifests[job[p].publication] = None
    <3>1. job[p] \in Job /\ job[p].status \in Recorded /\ job' = [job EXCEPT ![p] = job[p]]
      BY <1>0, <1>14, <1>a, <2>1 DEF RecordArtifact, JobOK, TypeOK
    <3>2. artifacts' \in SUBSET Artifacts /\ interrupted' \in BOOLEAN
      BY <1>0, <1>14, <2>1, <3>1 DEF RecordArtifact, TypeOK, Job
    <3>3. lock = p /\ lock' = lock /\ pc' = [pc EXCEPT ![p] = "manifest"]
      BY <1>14, <1>a, <2>1 DEF RecordArtifact
    <3>4. /\ pc' \in [Workers -> Labels] /\ job' \in [Workers -> Job \cup {None}]
          /\ lock' \in Workers \cup {None} /\ JobOK' /\ MutualExclusion'
      BY <3>1, <3>3, ControlMove
    <3>. QED BY <1>0, <1>14, <3>2, <3>4 DEF RecordArtifact, ControlInv, TypeOK
  <2>2. CASE manifests[job[p].publication] # None
    BY <1>0, <1>14, <1>c, <2>2 DEF RecordArtifact, ControlInv, TypeOK
  <2>. QED BY <2>1, <2>2
<1>15. ASSUME NEW p \in Workers, RecordManifest(p) PROVE ControlInv'
  <2>1. [artifact |-> job[p].artifact, status |-> job[p].status,
         previous |-> job[p].previous] \in Manifest
    BY <1>0, <1>15, <1>a DEF RecordManifest, RecordManifestTo, Manifest, Job, JobOK
  <2>2. job' = [job EXCEPT ![p] = job[p]] /\ job[p].status \in Recorded
    BY <1>0, <1>15 DEF RecordManifest, RecordManifestTo, JobOK, TypeOK
  <2>3. /\ manifests' \in [Publications -> Manifest \cup {None}]
        /\ verdict' \in Recorded \cup {None}
    BY <1>0, <1>15, <2>1, <2>2 DEF RecordManifest, RecordManifestTo, TypeOK
  <2>4. \E l \in {"active", "incident"} :
          /\ pc' = [pc EXCEPT ![p] = l]
          /\ l = "active" => job[p].status = "ACTIVE"
    BY <1>15 DEF RecordManifest, RecordManifestTo
  <2>5. lock' = lock /\ lock = p /\ job[p] \in Job
    BY <1>15, <1>a DEF RecordManifest, RecordManifestTo
  <2>6. /\ pc' \in [Workers -> Labels] /\ job' \in [Workers -> Job \cup {None}]
        /\ lock' \in Workers \cup {None} /\ JobOK' /\ MutualExclusion'
    BY <2>2, <2>4, <2>5, ControlMove
  <2>. QED BY <1>0, <1>15, <2>3, <2>6 DEF RecordManifest, RecordManifestTo, ControlInv, TypeOK
<1>16. ASSUME NEW p \in Workers, RecordActive(p) PROVE ControlInv'
  <2>1. job' = [job EXCEPT ![p] = job[p]] /\ job[p].publication \in Publications
    BY <1>0, <1>16, <1>a DEF RecordActive, Job, TypeOK
  <2>. QED BY <1>0, <1>16, <1>a, <2>1, ControlMove DEF RecordActive, ControlInv, TypeOK
<1>17. ASSUME NEW p \in Workers, Report(p) PROVE ControlInv'
  BY <1>0, <1>17, <1>c DEF Report, ControlInv, TypeOK
<1>18. ASSUME NEW p \in Workers, ReportFails(p) PROVE ControlInv'
  BY <1>0, <1>18, <1>c DEF ReportFails, ControlInv, TypeOK
<1>19. ASSUME NEW p \in Workers, Crash(p) PROVE ControlInv'
  BY <1>0, <1>19, <1>c DEF Crash, ControlInv, TypeOK
<1>20. CASE ApplyLate
  <2>1. PICK req \in late : plane' = Applied(req) /\ late' = late \ {req}
    BY <1>20 DEF ApplyLate
  <2>2. plane' \in [staged : SUBSET Revisions, active : Revisions \cup {None}]
    BY <1>0, <2>1 DEF Applied, TypeOK, Requests
  <2>. QED BY <1>0, <1>20, <2>1, <2>2
           DEF ApplyLate, ControlInv, TypeOK, JobOK, MutualExclusion
<1>21. CASE UNCHANGED vars
  BY <1>0, <1>21 DEF vars, ControlInv, TypeOK, JobOK, MutualExclusion
<1>. QED BY <1>1, <1>2, <1>3, <1>4, <1>5, <1>6, <1>7, <1>8, <1>9, <1>10, <1>11,
            <1>12, <1>13, <1>14, <1>15, <1>16, <1>17, <1>18, <1>19, <1>20, <1>21
         DEF Next, Step

\* The state is well typed, and at most one process is in the section the
\* publication lock protects, in every reachable state.
THEOREM ControlHolds == Spec => []ControlInv
BY InitControl, NextControl, PTL DEF Spec

\* The type invariant, for any constants.
THEOREM TypeCorrect == Spec => []TypeOK
<1>1. ControlInv => TypeOK
  BY DEF ControlInv
<1>. QED BY <1>1, ControlHolds, PTL
=============================================================================
