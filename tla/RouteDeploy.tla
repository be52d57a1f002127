---------------------------- MODULE RouteDeploy ----------------------------
(***************************************************************************)
(* Installation of APISIX routes by the scripts of ops/apisix/deploy_*:    *)
(* snapshot, write and read back, probe, and on failure put back what was  *)
(* there.  The scripts are one protocol in several hands; what tells them  *)
(* apart is a record of traits.  A run is one process; runs of any scripts *)
(* may overlap, for nothing excludes them.                                 *)
(*                                                                         *)
(* A step is one request to the Admin API or a round of probes.            *)
(***************************************************************************)
EXTENDS Naturals, FiniteSets

CONSTANTS
  Runs,      \* processes
  Routes,    \* route identifiers, numbered as they sort
  Retired,   \* those that a release supersedes
  Scripts,   \* the scripts that may be run
  Releases,  \* contents a materialization may give to its routes
  Found,     \* contents the routes may have at first, or None
  None,      \* no such route, no snapshot
  Altered,   \* a content APISIX stored that is not the one it was sent
  Faults,    \* what may go wrong, a subset of AllFaults
  MaxFaults, \* bound on how often something does
  Installs   \* bound on how many of the runs install; the others restore

AllFaults ==
  { "refused",      \* a write is answered by a status the script rejects
    "lost",         \* a write fails and is not applied
    "unanswered",   \* a write fails although it was applied
    "late",         \* a write fails and is applied some time later
    "altered",      \* an accepted write stores something else
    "read_error",   \* a read fails
    "wrong_probe",  \* a probe gets another status than it should
    "probe_error",  \* a probe gets no status at all
    "crash" }       \* the process is killed

ASSUME RoutesAssumption == Routes \subseteq Nat /\ Retired \subseteq Routes
ASSUME FoundAssumption == Found \subseteq Releases \cup {None}
ASSUME NoneAssumption == None \notin Releases /\ Altered \notin Releases \cup {None}
ASSUME FaultsAssumption == Faults \subseteq AllFaults /\ MaxFaults \in Nat
ASSUME InstallsAssumption == Installs \in Nat

(***************************************************************************)
(* The scripts                                                             *)
(***************************************************************************)
Phases == {"write", "readback", "retire", "probe"}

Traits == [
  retires    : BOOLEAN,                     \* has superseded routes to delete
  missing    : {"no", "refuse", "undo"},    \* writes only what is missing, and
                                            \* what it does about other content
  batch      : BOOLEAN,                     \* reads back after the last write
  compares   : BOOLEAN,                     \* reads back contents, not status
  tolerant   : BOOLEAN,                     \* takes a failed read for a 404
  onStatus   : SUBSET Phases,               \* where a wrong status,
  onError    : SUBSET Phases,               \* and a failed request, undoes
  undo       : {"all", "attempted", "blind"},
  stops      : BOOLEAN,                     \* --restore reads back, and ends
                                            \* at a failure
  keeps      : BOOLEAN ]                    \* the snapshot outlives the run,
                                            \* and there is a --restore

InternalM2M ==
  [ retires |-> FALSE, missing |-> "no", batch |-> FALSE, compares |-> TRUE,
    tolerant |-> FALSE, onStatus |-> Phases, onError |-> Phases,
    undo |-> "all", stops |-> FALSE, keeps |-> TRUE ]

\* Of the same make: the schema of a plugin is asked for before the snapshot.
ManagedFileUpload == InternalM2M
ManagedFileMcp == InternalM2M
TrustedHumanOnboarding == InternalM2M
TrustedHumanInstallation == InternalM2M
AuthorizationBundle == InternalM2M
TrustedHumanAuthorization == [InternalM2M EXCEPT !.retires = TRUE]
SemanticHuman == [InternalM2M EXCEPT !.missing = "refuse"]
ManagedFileThs == [InternalM2M EXCEPT !.missing = "undo"]
StatusExecute == [InternalM2M EXCEPT !.undo = "attempted", !.stops = TRUE]
ObjectSearch == StatusExecute

\* The shell scripts: set -e ends the script where a command substitution
\* fails outside a condition, and the trap deletes the snapshot with WORK.
McpShell ==
  [ retires |-> FALSE, missing |-> "no", batch |-> TRUE, compares |-> FALSE,
    tolerant |-> FALSE, onStatus |-> Phases, onError |-> {"write", "readback"},
    undo |-> "blind", stops |-> FALSE, keeps |-> FALSE ]
BundleShell ==
  [ McpShell EXCEPT !.batch = FALSE, !.tolerant = TRUE,
                    !.onStatus = {"readback", "probe"}, !.onError = {} ]

AllScripts ==
  { InternalM2M, ManagedFileUpload, ManagedFileMcp, TrustedHumanOnboarding,
    TrustedHumanInstallation, AuthorizationBundle, TrustedHumanAuthorization,
    SemanticHuman, ManagedFileThs, StatusExecute, ObjectSearch, McpShell,
    BundleShell }

ASSUME ScriptsAssumption == Scripts \subseteq AllScripts

Installed == Routes \ Retired
Managed(s) == IF s.retires THEN Routes ELSE Installed

VARIABLES
  live,      \* the routes APISIX serves
  late,      \* failed writes it may still apply
  job,       \* what each run is doing
  disk,      \* previous.json in the backup directory of each run
  origin,    \* history: the routes when the run began
  disturbed, \* history: the routes others have written since
  faults     \* how often something has gone wrong

vars == <<live, late, job, disk, origin, disturbed, faults>>

Contents == Releases \cup {None, Altered}
Snapshot == UNION {[S -> Contents] : S \in {Routes, Installed}}
Outcomes == {"refused", "installed", "rolled_back", "incomplete", "failed",
             "killed", "restored"}
Job == [script : Scripts, release : Releases \cup {None},
        at : {"snapshot", "install", "retire", "probe", "undo", "done"},
        todo : SUBSET Routes,      \* left to do where it is
        unread : SUBSET Routes,    \* written, not yet read back
        tried : SUBSET Routes,     \* attempted
        failures : SUBSET Routes,  \* not put back
        saved : Snapshot,          \* previous
        outcome : Outcomes \cup {None}]

\* What the variables range over; a run has an outcome exactly when it is over,
\* and a route that could not be put back is not tried a second time.
TypeOK ==
  /\ live \in [Routes -> Contents]
  /\ late \subseteq Routes \X Contents
  /\ faults \in Nat
  /\ job \in [Runs -> Job \cup {None}]
  /\ disk \in [Runs -> Snapshot \cup {None}]
  /\ origin \in [Runs -> [Routes -> Contents]]
  /\ disturbed \in [Runs -> SUBSET Routes]
  /\ \A p \in Runs : job[p] # None =>
       /\ job[p].at = "done" <=> job[p].outcome # None
       /\ job[p].todo \subseteq DOMAIN job[p].saved
       /\ job[p].failures \subseteq DOMAIN job[p].saved \ job[p].todo

\* The value for what is not there is no job and no snapshot.
ASSUME NothingAssumption == None \notin Job \cup Snapshot \cup Outcomes

Init ==
  /\ live \in [Routes -> Found]
  /\ late = {}
  /\ job = [p \in Runs |-> None]
  /\ disk = [p \in Runs |-> None]
  /\ origin = [p \in Runs |-> live]
  /\ disturbed = [p \in Runs |-> {}]
  /\ faults = 0

Happens(fault) ==
  /\ fault \in Faults
  /\ faults < MaxFaults
  /\ faults' = faults + 1

At(p, label) == job[p] # None /\ job[p].at = label
Script(p) == job[p].script
Become(p, j) == job' = [job EXCEPT ![p] = j]

\* The run is over; EXIT runs the trap of a shell script.
End(p, outcome) ==
  /\ Become(p, [job[p] EXCEPT !.at = "done", !.outcome = outcome, !.todo = {},
                              !.unread = {}, !.tried = {}])
  /\ disk' = IF Script(p).keeps THEN disk ELSE [disk EXCEPT ![p] = None]

\* Restoring what was found begins: everything, or what was attempted.
StartUndo(p, tried) ==
  /\ Become(p, [job[p] EXCEPT !.at = "undo", !.unread = {}, !.tried = tried,
       !.todo = IF Script(p).undo = "attempted" THEN tried ELSE DOMAIN job[p].saved])
  /\ UNCHANGED disk

\* An answer that is not "ok" ends the installation in this phase.
Fail(p, phase, answer, tried) ==
  IF phase \in (IF answer = "refused" THEN Script(p).onStatus ELSE Script(p).onError)
  THEN IF Script(p).undo = "attempted" /\ tried = {} THEN End(p, "rolled_back")
       ELSE StartUndo(p, tried)
  ELSE End(p, "failed")

(***************************************************************************)
(* The Admin API                                                           *)
(***************************************************************************)
Disturb(p, r) ==
  disturbed' = [q \in Runs |->
    IF q = p \/ job[q] = None THEN disturbed[q] ELSE disturbed[q] \cup {r}]

\* A PUT of v to route r, or its DELETE if v is None.
Write(p, r, v, answer) ==
  /\ \/ answer = "ok" /\ live' = [live EXCEPT ![r] = v] /\ UNCHANGED <<late, faults>>
     \/ answer = "refused" /\ Happens("refused") /\ UNCHANGED <<live, late>>
     \/ /\ answer = "error"
        /\ \/ Happens("lost") /\ UNCHANGED <<live, late>>
           \/ Happens("unanswered") /\ live' = [live EXCEPT ![r] = v] /\ UNCHANGED late
           \/ Happens("late") /\ late' = late \cup {<<r, v>>} /\ UNCHANGED live
  /\ Disturb(p, r)

\* APISIX fills in defaults, and may not keep every field it was given.
WriteAltered(p, r, answer) ==
  /\ answer = "ok"
  /\ Happens("altered")
  /\ live' = [live EXCEPT ![r] = Altered]
  /\ UNCHANGED late
  /\ Disturb(p, r)

ApplyLate ==
  \E w \in late :
    /\ live' = [live EXCEPT ![w[1]] = w[2]]
    /\ late' = late \ {w}
    /\ disturbed' = [q \in Runs |->
         IF job[q] = None THEN disturbed[q] ELSE disturbed[q] \cup {w[1]}]
    /\ UNCHANGED <<job, disk, origin, faults>>

Answers == {"ok", "refused", "error"}

(***************************************************************************)
(* Installing                                                              *)
(***************************************************************************)
Begin(p, s, v) ==
  /\ job[p] = None
  /\ Cardinality({q \in Runs : job[q] # None /\ job[q].release # None}) < Installs
  /\ Become(p, [script |-> s, release |-> v, at |-> "snapshot",
                todo |-> Managed(s), unread |-> {}, tried |-> {},
                failures |-> {}, saved |-> [r \in Managed(s) |-> None],
                outcome |-> None])
  /\ origin' = [origin EXCEPT ![p] = live]
  /\ UNCHANGED <<live, late, disk, disturbed, faults>>

SnapshotRoute(p) ==
  /\ At(p, "snapshot")
  /\ \E r \in job[p].todo :
       Become(p, [job[p] EXCEPT !.todo = @ \ {r}, !.saved[r] = live[r]])
  /\ UNCHANGED <<live, late, disk, origin, disturbed, faults>>

\* A route that cannot be read, or a plugin that is not there to be asked for.
SnapshotFails(p) ==
  /\ At(p, "snapshot")
  /\ Happens("read_error")
  /\ \E r \in job[p].todo :
       IF Script(p).tolerant
       THEN Become(p, [job[p] EXCEPT !.todo = @ \ {r}]) /\ UNCHANGED disk
       ELSE End(p, "refused")
  /\ UNCHANGED <<live, late, origin, disturbed>>

\* What is there and is not what is to be there.
Drifted(p) == {r \in Installed : job[p].saved[r] \notin {None, job[p].release}}

\* Variant: the superseded routes are left out of the snapshot.
SaveInstalledOnly(p) ==
  /\ At(p, "snapshot")
  /\ job[p].todo = {}
  /\ disk' = [disk EXCEPT ![p] = [r \in Installed |-> job[p].saved[r]]]
  /\ Become(p, [job[p] EXCEPT !.at = "install", !.todo = Installed])
  /\ UNCHANGED <<live, late, origin, disturbed, faults>>

\* previous.json is on disk before anything is written.
Save(p) ==
  /\ At(p, "snapshot")
  /\ job[p].todo = {}
  /\ IF Script(p).missing = "refuse" /\ Drifted(p) # {}
     THEN /\ Become(p, [job[p] EXCEPT !.at = "done", !.outcome = "refused"])
          /\ disk' = [disk EXCEPT ![p] = job[p].saved]
     ELSE /\ Become(p, [job[p] EXCEPT !.at = "install", !.todo = Installed])
          /\ disk' = [disk EXCEPT ![p] = job[p].saved]
  /\ UNCHANGED <<live, late, origin, disturbed, faults>>

\* The next write: in the order of the materialization, which may be any.
Writes(p) ==
  IF Script(p).batch \/ job[p].unread = {} THEN job[p].todo ELSE {}

\* Variant: a route counts as attempted when its write has succeeded.
PutNotedLate(p, answer) ==
  /\ At(p, "install")
  /\ \E r \in Writes(p) :
       /\ Script(p).missing = "no" \/ job[p].saved[r] = None
       /\ Write(p, r, job[p].release, answer) \/ WriteAltered(p, r, answer)
       /\ IF answer = "ok"
          THEN /\ Become(p, [job[p] EXCEPT !.todo = @ \ {r}, !.unread = @ \cup {r},
                                           !.tried = @ \cup {r}])
               /\ UNCHANGED disk
          ELSE Fail(p, "write", answer, job[p].tried)
  /\ UNCHANGED origin

Put(p, answer) ==
  /\ At(p, "install")
  /\ \E r \in Writes(p) :
       /\ Script(p).missing = "no" \/ job[p].saved[r] = None
       /\ Write(p, r, job[p].release, answer) \/ WriteAltered(p, r, answer)
       /\ IF answer = "ok"
          THEN /\ Become(p, [job[p] EXCEPT !.todo = @ \ {r}, !.unread = @ \cup {r},
                                           !.tried = @ \cup {r}])
               /\ UNCHANGED disk
          ELSE Fail(p, "write", answer, job[p].tried \cup {r})
  /\ UNCHANGED origin

\* A script that writes what is missing leaves the rest, if it is the same.
Leave(p) ==
  /\ At(p, "install")
  /\ Script(p).missing # "no"
  /\ \E r \in Writes(p) :
       /\ job[p].saved[r] # None
       /\ IF r \in Drifted(p) THEN StartUndo(p, {})
          ELSE /\ Become(p, [job[p] EXCEPT !.todo = @ \ {r}, !.unread = @ \cup {r}])
               /\ UNCHANGED disk
  /\ UNCHANGED <<live, late, origin, disturbed, faults>>

ReadBack(p, answer) ==
  /\ At(p, "install")
  /\ ~Script(p).batch \/ job[p].todo = {}
  /\ \E r \in job[p].unread :
       LET same == IF Script(p).compares THEN live[r] = job[p].release
                   ELSE live[r] # None
       IN \/ /\ answer = "ok" /\ same
             /\ Become(p, [job[p] EXCEPT !.unread = @ \ {r}])
             /\ UNCHANGED <<disk, faults>>
          \/ /\ \/ answer = "refused" /\ ~same /\ UNCHANGED faults
                \/ answer = "error" /\ Happens("read_error")
             /\ Fail(p, "readback", answer, job[p].tried)
  /\ UNCHANGED <<live, late, origin, disturbed>>

\* Everything is written and read back.
Written(p) ==
  /\ At(p, "install")
  /\ job[p].todo = {} /\ job[p].unread = {}
  /\ Become(p, IF Script(p).retires
               THEN [job[p] EXCEPT !.at = "retire", !.todo = Retired]
               ELSE [job[p] EXCEPT !.at = "probe"])
  /\ UNCHANGED <<live, late, disk, origin, disturbed, faults>>

\* Variant: whether a superseded route could be deleted is not looked at.
RetireUnchecked(p, answer) ==
  /\ At(p, "retire")
  /\ \E r \in job[p].todo :
       /\ Write(p, r, None, answer)
       /\ Become(p, [job[p] EXCEPT !.todo = @ \ {r},
                       !.at = IF job[p].todo = {r} THEN "probe" ELSE "retire"])
       /\ UNCHANGED disk
  /\ UNCHANGED origin

Retire(p, answer) ==
  /\ At(p, "retire")
  /\ \E r \in job[p].todo :
       /\ Write(p, r, None, answer)
       /\ IF answer = "ok"
          THEN /\ Become(p, [job[p] EXCEPT !.todo = @ \ {r},
                               !.at = IF job[p].todo = {r} THEN "probe" ELSE "retire"])
               /\ UNCHANGED disk
          ELSE Fail(p, "retire", answer, job[p].tried)
  /\ UNCHANGED origin

\* Anonymous requests must be turned away, public documents be served.
Probe(p, answer) ==
  /\ At(p, "probe")
  /\ \/ answer = "ok" /\ End(p, "installed") /\ UNCHANGED faults
     \/ /\ \/ answer = "refused" /\ Happens("wrong_probe")
           \/ answer = "error" /\ Happens("probe_error")
        /\ Fail(p, "probe", answer, job[p].tried)
  /\ UNCHANGED <<live, late, origin, disturbed>>

(***************************************************************************)
(* Undoing, and --restore from the snapshot of a run that is over          *)
(***************************************************************************)
BeginRestore(p, q) ==
  /\ job[p] = None
  /\ At(q, "done")
  /\ Script(q).keeps
  /\ disk[q] # None
  /\ Become(p, [script |-> Script(q), release |-> None, at |-> "undo",
                todo |-> DOMAIN disk[q], unread |-> {}, tried |-> {},
                failures |-> {}, saved |-> disk[q], outcome |-> None])
  /\ origin' = [origin EXCEPT ![p] = live]
  /\ UNCHANGED <<live, late, disk, disturbed, faults>>

Restoring(p) == job[p].release = None
StopsAtFailure(p) == Restoring(p) /\ Script(p).stops

\* Variant: the greatest identifier comes first.
NextBackwards(p) == {r \in job[p].todo : \A other \in job[p].todo : r >= other}

\* Those that restore everything do so as the identifiers sort.
NextUndone(p) ==
  IF Script(p).undo = "all" /\ ~StopsAtFailure(p)
  THEN {r \in job[p].todo : \A other \in job[p].todo : r <= other}
  ELSE job[p].todo

\* A route found is put back, one that was not there deleted; a failure is
\* noted and the next route taken.  What is put back came out of APISIX, which
\* stores it as it was.
UndoRoute(p, answer) ==
  /\ At(p, "undo")
  /\ job[p].unread = {}
  /\ \E r \in NextUndone(p) :
       /\ Write(p, r, job[p].saved[r], answer)
       /\ Become(p, [job[p] EXCEPT
            !.todo = @ \ {r},
            !.unread = IF StopsAtFailure(p) THEN {r} ELSE {},
            !.failures = IF answer = "ok" THEN @ ELSE @ \cup {r}])
  /\ UNCHANGED <<disk, origin>>

\* Restoring the status routes reads each one back.
CheckRestored(p, answer) ==
  /\ At(p, "undo")
  /\ \E r \in job[p].unread :
       \/ /\ answer = "ok" /\ r \notin job[p].failures /\ live[r] = job[p].saved[r]
          /\ Become(p, [job[p] EXCEPT !.unread = {}])
          /\ UNCHANGED <<disk, faults>>
       \/ /\ \/ /\ answer = "refused"
                /\ r \in job[p].failures \/ live[r] # job[p].saved[r]
                /\ UNCHANGED faults
             \/ answer = "error" /\ Happens("read_error")
          /\ End(p, "incomplete")
  /\ UNCHANGED <<live, late, origin, disturbed>>

Undone(p) ==
  /\ At(p, "undo")
  /\ job[p].todo = {} /\ job[p].unread = {}
  /\ End(p, IF Script(p).undo = "blind" THEN "failed"
            ELSE IF job[p].failures # {} THEN "incomplete"
            ELSE IF Restoring(p) THEN "restored" ELSE "rolled_back")
  /\ UNCHANGED <<live, late, origin, disturbed, faults>>

Crash(p) ==
  /\ Happens("crash")
  /\ job[p] # None
  /\ job[p].at # "done"
  /\ Become(p, [job[p] EXCEPT !.at = "done", !.outcome = "killed", !.todo = {},
                              !.unread = {}, !.tried = {}])
  /\ UNCHANGED <<live, late, disk, origin, disturbed>>

Step(p) ==
  \/ SnapshotRoute(p) \/ SnapshotFails(p) \/ Save(p) \/ Leave(p) \/ Written(p)
  \/ Undone(p)
  \/ \E answer \in Answers :
       \/ Put(p, answer) \/ ReadBack(p, answer) \/ Retire(p, answer)
       \/ Probe(p, answer) \/ UndoRoute(p, answer) \/ CheckRestored(p, answer)

Over == late = {} /\ \A p \in Runs : job[p] = None \/ At(p, "done")

Next ==
  \/ \E p \in Runs :
       \/ \E s \in Scripts, v \in Releases : Begin(p, s, v)
       \/ \E q \in Runs : BeginRestore(p, q)
       \/ Step(p)
       \/ Crash(p)
  \/ ApplyLate
  \/ Over /\ UNCHANGED vars

Spec == Init /\ [][Next]_vars

-----------------------------------------------------------------------------
(***************************************************************************)
(* Properties.  What another run or a late write has changed since a run   *)
(* began is not the run's to answer for: nothing keeps runs apart.         *)
(***************************************************************************)
Ended(p, outcomes) == job[p] # None /\ job[p].outcome \in outcomes
Undisturbed(p, S) == S \ disturbed[p]

\* A run that says it has installed its routes has: each is served with the
\* content it was sent, and nothing it supersedes is left.
InstalledIsServed ==
  \A p \in Runs : Ended(p, {"installed"}) /\ Script(p).compares =>
    /\ \A r \in Undisturbed(p, Installed) : live[r] = job[p].release
    /\ \A r \in Undisturbed(p, Managed(Script(p)) \ Installed) : live[r] = None

\* A run that gives up without saying "rollback incomplete" leaves every route
\* as it found it, whichever request failed and whether or not it was applied;
\* a restore that says it is done has put back what the snapshot holds.
FailureLeavesAsFound ==
  \A p \in Runs :
    /\ Ended(p, {"refused", "rolled_back"}) =>
         \A r \in Undisturbed(p, Routes) : live[r] = origin[p][r]
    /\ Ended(p, {"restored"}) =>
         \A r \in Undisturbed(p, DOMAIN job[p].saved) : live[r] = job[p].saved[r]

\* Whenever a run may be killed, what it has changed is in the snapshot on
\* disk as it was before, so that --restore can bring it back.
ChangesAreOnDisk ==
  \A p \in Runs : job[p] # None /\ Script(p).keeps /\ ~Restoring(p) =>
    \A r \in Undisturbed(p, Routes) : live[r] # origin[p][r] =>
      /\ disk[p] # None
      /\ r \in DOMAIN disk[p]
      /\ disk[p][r] = origin[p][r]

\* While the superseded routes give way to the new ones and on the way back,
\* one set or the other is complete: at no step is the namespace bare.
NamespaceCovered ==
  \A p \in Runs :
    LET Covered(S, routes) == \A r \in S : routes[r] # None
    IN job[p] # None /\ Script(p).retires /\ ~Restoring(p)
         /\ disturbed[p] = {} /\ job[p].failures = {}
         /\ Covered(Retired, origin[p])
       => Covered(Retired, live) \/ Covered(Installed, live)
=============================================================================
