-------------------------- MODULE RouteDeployProofs --------------------------
(***************************************************************************)
(* Theorems about RouteDeploy, for any scripts, routes, runs and faults.   *)
(* What holds of a run is said of its job j, its snapshot on disk d, the   *)
(* routes it found o, those others have written w, and the routes served   *)
(* l, so that it can be said of two states in one sentence.                *)
(***************************************************************************)
EXTENDS RouteDeploy, TLAPS

(***************************************************************************)
(* The invariant.                                                          *)
(***************************************************************************)

All(j) == Managed(j.script)

\* Of the routes of S that nobody else has written: they are as the run found
\* them, the snapshot has them as it found them, they have the content sent,
\* they are gone, they are as in the snapshot.
AsFound(S, o, w, l) == \A r \in S \ w : l[r] = o[r]
Noted(j, S, o, w) == \A r \in S \ w : j.saved[r] = o[r]
Sent(j, S, w, l) == \A r \in S \ w : l[r] = j.release
Gone(S, w, l) == \A r \in S \ w : l[r] = None
PutBack(j, S, w, l) == \A r \in S \ w : l[r] = j.saved[r]

JobFits(j) ==
  /\ j \in Job
  /\ DOMAIN j.saved = All(j)
  /\ j.at = "done" <=> j.outcome # None
  /\ j.todo \subseteq All(j)
  /\ j.failures \subseteq All(j) \ j.todo

\* previous.json holds what a run has changed as it was before.
DiskOk(j, d, o, w, l) ==
  j.script.keeps =>
    IF d = None THEN AsFound(Routes, o, w, l)
    ELSE DOMAIN d = All(j) /\ \A r \in All(j) \ w : d[r] = o[r]

Claimed(j, w, l) ==
  /\ j.script.compares => Sent(j, Installed, w, l)
  /\ j.script.compares /\ j.script.retires => Gone(Retired, w, l)

Saving(j, d, o, w, l) ==
  /\ d = None /\ AsFound(Routes, o, w, l)
  /\ j.unread = {} /\ j.tried = {} /\ j.failures = {}
  /\ ~j.script.tolerant => Noted(j, All(j) \ j.todo, o, w)

Saved(j, d, o, w) ==
  /\ ~j.script.tolerant => Noted(j, All(j), o, w)
  /\ j.script.keeps => d # None

Putting(j, o, w, l) ==
  /\ j.failures = {}
  /\ j.todo \subseteq Installed /\ j.unread \subseteq Installed /\ j.tried \subseteq Installed
  /\ AsFound(Routes \ j.tried, o, w, l)
  /\ j.script.compares => Sent(j, Installed \ (j.todo \cup j.unread), w, l)

Retiring(j, w, l) ==
  /\ j.failures = {}
  /\ j.script.retires /\ j.unread = {}
  /\ j.todo \subseteq Retired /\ j.tried \subseteq Installed
  /\ Sent(j, Installed, w, l) /\ Gone(Retired \ j.todo, w, l)

Probing(j, o, w, l) ==
  /\ j.failures = {}
  /\ j.tried \subseteq Installed
  /\ Claimed(j, w, l)
  /\ ~j.script.retires => AsFound(Routes \ j.tried, o, w, l)

Undoing(j, o, w, l) ==
  /\ j.unread = {}
  /\ ~j.script.tolerant => AsFound(Routes \ (j.todo \cup j.failures), o, w, l)

Ending(j, o, w, l) ==
  /\ j.outcome = "installed" => Claimed(j, w, l)
  /\ j.outcome \in {"refused", "rolled_back"} => AsFound(Routes, o, w, l)
  /\ j.outcome # "restored"

InstallOk(j, d, o, w, l) ==
  /\ AsFound(Routes \ All(j), o, w, l)
  /\ DiskOk(j, d, o, w, l)
  /\ j.at = "snapshot" => Saving(j, d, o, w, l)
  /\ j.at \in {"install", "retire", "probe", "undo"} => Saved(j, d, o, w)
  /\ j.at = "install" => Putting(j, o, w, l)
  /\ j.at = "retire" => Retiring(j, w, l)
  /\ j.at = "probe" => Probing(j, o, w, l)
  /\ j.at = "undo" => Undoing(j, o, w, l)
  /\ j.at = "done" => Ending(j, o, w, l)

\* A --restore has no snapshot of its own.
RestoreOk(j, d, w, l) ==
  /\ d = None /\ j.script.keeps
  /\ j.at \in {"undo", "done"}
  /\ j.at = "undo" => PutBack(j, All(j) \ (j.todo \cup j.failures), w, l)
  /\ j.outcome = "restored" => PutBack(j, All(j), w, l)
  /\ j.outcome \notin {"installed", "refused", "rolled_back"}

Ok(j, d, o, w, l) ==
  /\ JobFits(j)
  /\ IF j.release = None THEN RestoreOk(j, d, w, l) ELSE InstallOk(j, d, o, w, l)

RunOk(p) ==
  IF job[p] = None THEN disk[p] = None
  ELSE Ok(job[p], disk[p], origin[p], disturbed[p], live)

Types ==
  /\ live \in [Routes -> Contents]
  /\ late \subseteq Routes \X Contents
  /\ faults \in Nat
  /\ job \in [Runs -> Job \cup {None}]
  /\ disk \in [Runs -> Snapshot \cup {None}]
  /\ origin \in [Runs -> [Routes -> Contents]]
  /\ disturbed \in [Runs -> SUBSET Routes]

IInv == Types /\ \A p \in Runs : RunOk(p)

\* What a step of a run does not touch of the other runs.
Elsewhere(p) ==
  \A q \in Runs \ {p} :
    /\ job'[q] = job[q] /\ disk'[q] = disk[q]
    /\ job[q] # None =>
         /\ origin'[q] = origin[q]
         /\ disturbed[q] \subseteq disturbed'[q]
         /\ \A r \in Routes \ disturbed'[q] : live'[r] = live[r]

Stepped(p) == Types' /\ RunOk(p)' /\ Elsewhere(p)

(***************************************************************************)
(* The scripts, the snapshots and the routes of a run.                     *)
(***************************************************************************)

\* What the thirteen sets of traits have in common.
Sound(s) ==
  /\ s.tolerant => ~s.keeps /\ s.undo = "blind"
  /\ s.undo = "attempted" => s.missing = "no" /\ ~s.retires
  /\ s.retires => s.undo = "all" /\ s.compares /\ s.missing = "no" /\ ~s.batch
  /\ s.keeps => s.undo # "blind"
  /\ s.undo \in {"all", "attempted", "blind"}
  /\ s.keeps \in BOOLEAN /\ s.tolerant \in BOOLEAN /\ s.retires \in BOOLEAN
  /\ s.compares \in BOOLEAN /\ s.stops \in BOOLEAN

\* Every script has them.
LEMMA Kinds ==
  ASSUME NEW s \in Scripts
  PROVE  Sound(s)
<1>1. Sound(InternalM2M)
  BY DEF Sound, InternalM2M
<1>2. Sound(TrustedHumanAuthorization)
  BY DEF Sound, TrustedHumanAuthorization, InternalM2M
<1>3. Sound(SemanticHuman)
  BY DEF Sound, SemanticHuman, InternalM2M
<1>4. Sound(ManagedFileThs)
  BY DEF Sound, ManagedFileThs, InternalM2M
<1>5. Sound(StatusExecute)
  BY DEF Sound, StatusExecute, InternalM2M
<1>6. Sound(McpShell)
  BY DEF Sound, McpShell
<1>7. Sound(BundleShell)
  BY DEF Sound, BundleShell, McpShell
<1>8. AllScripts = {InternalM2M, TrustedHumanAuthorization, SemanticHuman, ManagedFileThs,
                    StatusExecute, McpShell, BundleShell}
  BY DEF AllScripts, ManagedFileUpload, ManagedFileMcp, TrustedHumanOnboarding,
     TrustedHumanInstallation, AuthorizationBundle, ObjectSearch
<1>9. \A t \in AllScripts : Sound(t)
  BY <1>1, <1>2, <1>3, <1>4, <1>5, <1>6, <1>7, <1>8
<1> QED
  BY <1>9, ScriptsAssumption

\* A run manages the installed routes, and with them the superseded ones or not.
LEMMA Managing ==
  ASSUME NEW j \in Job
  PROVE  /\ j.script \in Scripts
         /\ All(j) \in {Routes, Installed}
         /\ Installed \subseteq All(j) /\ All(j) \subseteq Routes
         /\ j.script.retires => All(j) = Routes
         /\ Retired \subseteq Routes /\ Installed = Routes \ Retired
<1>1. j.script \in Scripts
  BY DEF Job
<1>2. Retired \subseteq Routes /\ Installed = Routes \ Retired
  BY RoutesAssumption DEF Installed
<1>3. All(j) = IF j.script.retires THEN Routes ELSE Installed
  BY DEF All, Managed
<1>4. CASE j.script.retires
  BY <1>1, <1>2, <1>3, <1>4
<1>5. CASE ~j.script.retires
  BY <1>1, <1>2, <1>3, <1>5
<1> QED
  BY <1>4, <1>5

\* A snapshot is a function of all managed routes to contents.
LEMMA Snapshots ==
  ASSUME NEW f
  PROVE  f \in Snapshot <=> f \in [Routes -> Contents] \/ f \in [Installed -> Contents]
BY DEF Snapshot

\* An entry is filled in.
LEMMA SnapshotEntry ==
  ASSUME NEW f \in Snapshot, NEW r \in DOMAIN f, NEW c \in Contents
  PROVE  /\ [f EXCEPT ![r] = c] \in Snapshot
         /\ DOMAIN [f EXCEPT ![r] = c] = DOMAIN f
<1>1. CASE f \in [Routes -> Contents]
  BY <1>1, Snapshots
<1>2. CASE f \in [Installed -> Contents]
  BY <1>2, Snapshots
<1> QED
  BY <1>1, <1>2, Snapshots

\* What holds of a run goes on to hold when others write, since what they write
\* is no longer said to be the run's.
LEMMA OthersWrite ==
  ASSUME NEW j, NEW d, NEW o, NEW w, NEW l, NEW w2, NEW l2,
         Ok(j, d, o, w, l), w \subseteq w2,
         \A r \in Routes \ w2 : l2[r] = l[r]
  PROVE  Ok(j, d, o, w2, l2)
<1>1. /\ \A S : S \subseteq Routes /\ AsFound(S, o, w, l) => AsFound(S, o, w2, l2)
      /\ \A S : S \subseteq Routes /\ Sent(j, S, w, l) => Sent(j, S, w2, l2)
      /\ \A S : S \subseteq Routes /\ Gone(S, w, l) => Gone(S, w2, l2)
      /\ \A S : S \subseteq Routes /\ PutBack(j, S, w, l) => PutBack(j, S, w2, l2)
      /\ \A S : Noted(j, S, o, w) => Noted(j, S, o, w2)
  BY DEF AsFound, Sent, Gone, PutBack, Noted
<1>2. JobFits(j) /\ j \in Job
  BY DEF Ok, JobFits
<1>3. /\ All(j) \subseteq Routes /\ Installed \subseteq Routes /\ Retired \subseteq Routes
  BY <1>2, Managing
<1>4. Claimed(j, w, l) => Claimed(j, w2, l2)
  BY <1>1, <1>3 DEF Claimed
<1>5. CASE j.release = None
  <2>1. RestoreOk(j, d, w, l)
    BY <1>5 DEF Ok
  <2>2. \A S : All(j) \ S \subseteq Routes
    BY <1>3
  <2>3. RestoreOk(j, d, w2, l2)
    BY <1>1, <1>3, <2>1, <2>2 DEF RestoreOk
  <2> QED
    BY <1>2, <1>5, <2>3 DEF Ok
<1>6. CASE j.release # None
  <2>1. InstallOk(j, d, o, w, l)
    BY <1>6 DEF Ok
  <2>2. /\ \A S : Routes \ S \subseteq Routes
        /\ \A S : Installed \ S \subseteq Routes
        /\ \A S : Retired \ S \subseteq Routes
    BY <1>3
  <2>3. AsFound(Routes \ All(j), o, w2, l2)
    BY <1>1, <2>1, <2>2 DEF InstallOk
  <2>4. DiskOk(j, d, o, w2, l2)
    BY <1>1, <2>1 DEF InstallOk, DiskOk
  <2>5. j.at = "snapshot" => Saving(j, d, o, w2, l2)
    BY <1>1, <2>1 DEF InstallOk, Saving
  <2>6. j.at \in {"install", "retire", "probe", "undo"} => Saved(j, d, o, w2)
    BY <1>1, <2>1 DEF InstallOk, Saved
  <2>7. j.at = "install" => Putting(j, o, w2, l2)
    BY <1>1, <2>1, <2>2 DEF InstallOk, Putting
  <2>8. j.at = "retire" => Retiring(j, w2, l2)
    BY <1>1, <1>3, <2>1, <2>2 DEF InstallOk, Retiring
  <2>9. j.at = "probe" => Probing(j, o, w2, l2)
    BY <1>1, <1>4, <2>1, <2>2 DEF InstallOk, Probing
  <2>10. j.at = "undo" => Undoing(j, o, w2, l2)
    BY <1>1, <2>1, <2>2 DEF InstallOk, Undoing
  <2>11. j.at = "done" => Ending(j, o, w2, l2)
    BY <1>1, <1>4, <2>1 DEF InstallOk, Ending
  <2>12. InstallOk(j, d, o, w2, l2)
    BY <2>3, <2>4, <2>5, <2>6, <2>7, <2>8, <2>9, <2>10, <2>11 DEF InstallOk
  <2> QED
    BY <1>2, <1>6, <2>12 DEF Ok
<1> QED
  BY <1>5, <1>6

\* It is enough to look at the run that moves.
LEMMA OneMoves ==
  ASSUME IInv, NEW p \in Runs, Stepped(p)
  PROVE  IInv'
<1>1. \A q \in Runs \ {p} : RunOk(q)'
  <2> SUFFICES ASSUME NEW q \in Runs \ {p}
               PROVE  RunOk(q)'
    OBVIOUS
  <2>1. job'[q] = job[q] /\ disk'[q] = disk[q] /\ RunOk(q)
    BY DEF Stepped, Elsewhere, IInv
  <2>2. CASE job[q] = None
    BY <2>1, <2>2 DEF RunOk
  <2>3. CASE job[q] # None
    <3>1. /\ origin'[q] = origin[q]
          /\ disturbed[q] \subseteq disturbed'[q]
          /\ \A r \in Routes \ disturbed'[q] : live'[r] = live[r]
      BY <2>3 DEF Stepped, Elsewhere
    <3>2. Ok(job[q], disk[q], origin[q], disturbed[q], live)
      BY <2>1, <2>3 DEF RunOk
    <3>3. Ok(job[q], disk[q], origin[q], disturbed'[q], live')
      BY <3>1, <3>2, OthersWrite
    <3> QED
      BY <2>1, <2>3, <3>1, <3>3 DEF RunOk
  <2> QED
    BY <2>2, <2>3
<1> QED
  BY <1>1 DEF IInv, Stepped

(***************************************************************************)
(* Steps of a run: what they have in common.                               *)
(***************************************************************************)

Snapshotted(p) ==
  /\ disk' \in [Runs -> Snapshot \cup {None}]
  /\ \A q \in Runs \ {p} : disk'[q] = disk[q]

\* A request of p, answered or not, and what the others notice of it.
Reached(p) ==
  /\ live' \in [Routes -> Contents] /\ late' \subseteq Routes \X Contents
  /\ faults' \in Nat /\ origin' = origin
  /\ disturbed' \in [Runs -> SUBSET Routes] /\ disturbed'[p] = disturbed[p]
  /\ \A q \in Runs \ {p} : job[q] # None =>
       /\ disturbed[q] \subseteq disturbed'[q]
       /\ \A r \in Routes \ disturbed'[q] : live'[r] = live[r]

\* A run that has begun.
LEMMA Running ==
  ASSUME IInv, NEW p \in Runs, job[p] # None
  PROVE  /\ job[p] \in Job
         /\ Ok(job[p], disk[p], origin[p], disturbed[p], live)
         /\ JobFits(job[p])
         /\ job[p].at \in {"snapshot", "install", "retire", "probe"} => job[p].release # None
         /\ job[p].release # None => InstallOk(job[p], disk[p], origin[p], disturbed[p], live)
         /\ job[p].release = None => RestoreOk(job[p], disk[p], disturbed[p], live)
         /\ Sound(job[p].script)
<1>1. Ok(job[p], disk[p], origin[p], disturbed[p], live)
  BY DEF IInv, RunOk
<1>2. JobFits(job[p]) /\ job[p] \in Job
  BY <1>1 DEF Ok, JobFits
<1>3. Sound(job[p].script)
  BY <1>2, Managing, Kinds
<1>4. job[p].release = None => RestoreOk(job[p], disk[p], disturbed[p], live)
  BY <1>1 DEF Ok
<1> QED
  BY <1>1, <1>2, <1>3, <1>4 DEF Ok, RestoreOk

\* The job is another one and fits the state.
LEMMA Moves ==
  ASSUME IInv, NEW p \in Runs, NEW j \in Job, Become(p, j), Snapshotted(p), Reached(p),
         Ok(j, disk'[p], origin[p], disturbed[p], live')
  PROVE  IInv'
<1>1. j # None
  BY NothingAssumption
<1>2. /\ job' \in [Runs -> Job \cup {None}] /\ job'[p] = j
      /\ \A q \in Runs \ {p} : job'[q] = job[q]
  BY DEF Become, IInv, Types
<1>3. RunOk(p)'
  BY <1>1, <1>2 DEF RunOk, Reached
<1>4. Types'
  BY <1>2 DEF Types, Reached, Snapshotted, IInv
<1>5. Elsewhere(p)
  BY <1>2 DEF Elsewhere, Reached, Snapshotted
<1> QED
  BY <1>3, <1>4, <1>5, OneMoves DEF Stepped

\* Nothing is written.
LEMMA Quiet ==
  ASSUME IInv, NEW p \in Runs, UNCHANGED <<live, late, origin, disturbed>>, faults' \in Nat
  PROVE  Reached(p)
BY DEF Reached, IInv, Types

\* Something goes wrong, or nothing does.
LEMMA FaultsCount ==
  ASSUME IInv
  PROVE  /\ UNCHANGED faults => faults' \in Nat
         /\ \A fault : Happens(fault) => faults' \in Nat
BY DEF Happens, IInv, Types

\* The snapshot on disk is left alone.
LEMMA DiskStays ==
  ASSUME IInv, NEW p \in Runs, UNCHANGED disk
  PROVE  Snapshotted(p) /\ disk'[p] = disk[p]
BY DEF Snapshotted, IInv, Types

\* A write reaches one route at most, and that one as far as the answer tells.
LEMMA Writing ==
  ASSUME IInv, NEW p \in Runs, NEW r \in Routes, NEW v \in Contents, NEW answer,
         Write(p, r, v, answer), UNCHANGED origin
  PROVE  /\ Reached(p)
         /\ \A x \in Routes \ {r} : live'[x] = live[x]
         /\ answer = "ok" => live'[r] = v
<1>1. Types
  BY DEF IInv
<1>2. live' \in [Routes -> Contents] /\ late' \subseteq Routes \X Contents /\ faults' \in Nat
  BY <1>1 DEF Write, Happens, Types
<1>3. /\ \A x \in Routes \ {r} : live'[x] = live[x]
      /\ answer = "ok" => live'[r] = v
  BY <1>1 DEF Write, Types
<1>4. /\ disturbed' \in [Runs -> SUBSET Routes] /\ disturbed'[p] = disturbed[p]
      /\ \A q \in Runs \ {p} : job[q] # None => disturbed'[q] = disturbed[q] \cup {r}
  BY <1>1 DEF Write, Disturb, Types
<1> QED
  BY <1>2, <1>3, <1>4 DEF Reached

\* The same of a write that APISIX stores otherwise.
LEMMA WritingAltered ==
  ASSUME IInv, NEW p \in Runs, NEW r \in Routes, NEW answer,
         WriteAltered(p, r, answer), UNCHANGED origin
  PROVE  /\ Reached(p)
         /\ \A x \in Routes \ {r} : live'[x] = live[x]
<1>1. Types
  BY DEF IInv
<1>2. live' \in [Routes -> Contents] /\ late' \subseteq Routes \X Contents /\ faults' \in Nat
  BY <1>1 DEF WriteAltered, Happens, Types, Contents
<1>3. \A x \in Routes \ {r} : live'[x] = live[x]
  BY <1>1 DEF WriteAltered, Types
<1>4. /\ disturbed' \in [Runs -> SUBSET Routes] /\ disturbed'[p] = disturbed[p]
      /\ \A q \in Runs \ {p} : job[q] # None => disturbed'[q] = disturbed[q] \cup {r}
  BY <1>1 DEF WriteAltered, Disturb, Types
<1> QED
  BY <1>2, <1>3, <1>4 DEF Reached

\* What an outcome says of the routes is so.
Justified(p, outcome) ==
  LET j == job[p]
  IN IF j.release = None
     THEN /\ outcome = "restored" => PutBack(j, All(j), disturbed[p], live')
          /\ outcome \notin {"installed", "refused", "rolled_back"}
     ELSE /\ AsFound(Routes \ All(j), origin[p], disturbed[p], live')
          /\ j.script.keeps /\ disk[p] = None
               => AsFound(Routes, origin[p], disturbed[p], live')
          /\ outcome = "installed" => Claimed(j, disturbed[p], live')
          /\ outcome \in {"refused", "rolled_back"}
               => AsFound(Routes, origin[p], disturbed[p], live')
          /\ outcome # "restored"

\* A run ends; its snapshot stays where the script keeps it.
LEMMA Ends ==
  ASSUME IInv, NEW p \in Runs, job[p] # None, job[p].at # "done",
         NEW outcome \in Outcomes, NEW j \in Job, Become(p, j),
         j.at = "done", j.outcome = outcome, j.todo = {}, j.script = job[p].script,
         j.release = job[p].release, j.saved = job[p].saved, j.failures = job[p].failures,
         Snapshotted(p), job[p].script.keeps => disk'[p] = disk[p],
         Reached(p), Justified(p, outcome)
  PROVE  IInv'
<1>1. /\ JobFits(job[p]) /\ Sound(job[p].script)
      /\ job[p].release # None => InstallOk(job[p], disk[p], origin[p], disturbed[p], live)
      /\ job[p].release = None => RestoreOk(job[p], disk[p], disturbed[p], live)
  BY Running
<1>2. All(j) = All(job[p])
  BY DEF All
<1>3. outcome # None
  BY NothingAssumption
<1>4. JobFits(j)
  BY <1>1, <1>2, <1>3 DEF JobFits
<1>5. CASE job[p].release = None
  <2>1. \A S : PutBack(j, S, disturbed[p], live') <=> PutBack(job[p], S, disturbed[p], live')
    BY DEF PutBack
  <2>2. RestoreOk(j, disk'[p], disturbed[p], live')
    BY <1>1, <1>2, <1>5, <2>1 DEF RestoreOk, Justified
  <2> QED
    BY <1>4, <1>5, <2>2, Moves DEF Ok
<1>6. CASE job[p].release # None
  <2>1. Claimed(j, disturbed[p], live') <=> Claimed(job[p], disturbed[p], live')
    BY DEF Claimed, Sent
  <2>2. Ending(j, origin[p], disturbed[p], live')
    BY <1>6, <2>1 DEF Ending, Justified
  <2>3. DiskOk(j, disk'[p], origin[p], disturbed[p], live')
    BY <1>1, <1>2, <1>6 DEF InstallOk, DiskOk, Justified
  <2>4. AsFound(Routes \ All(j), origin[p], disturbed[p], live')
    BY <1>2, <1>6 DEF Justified
  <2>5. InstallOk(j, disk'[p], origin[p], disturbed[p], live')
    BY <2>2, <2>3, <2>4 DEF InstallOk
  <2> QED
    BY <1>4, <1>6, <2>5, Moves DEF Ok
<1> QED
  BY <1>5, <1>6

\* The last act of a run.
LEMMA EndsBy ==
  ASSUME IInv, NEW p \in Runs, job[p] # None, job[p].at # "done",
         NEW outcome \in Outcomes, End(p, outcome), Reached(p), Justified(p, outcome)
  PROVE  IInv'
<1> DEFINE j == [job[p] EXCEPT !.at = "done", !.outcome = outcome, !.todo = {},
                               !.unread = {}, !.tried = {}]
<1>1. job[p] \in Job /\ Sound(job[p].script)
  BY Running
<1>2. /\ j \in Job /\ j.at = "done" /\ j.outcome = outcome /\ j.todo = {}
      /\ j.script = job[p].script /\ j.release = job[p].release
      /\ j.saved = job[p].saved /\ j.failures = job[p].failures
  BY <1>1 DEF Job
<1>3. Become(p, j)
  BY DEF End
<1>4. Snapshotted(p) /\ (job[p].script.keeps => disk'[p] = disk[p])
  BY <1>1 DEF End, Script, Snapshotted, IInv, Types, Sound
<1> HIDE DEF j
<1> QED
  BY <1>2, <1>3, <1>4, Ends
\* What the undo is to bring back is what the run has changed.
LEMMA UndoStarts ==
  ASSUME IInv, NEW p \in Runs, job[p] # None,
         job[p].at \in {"install", "retire", "probe"},
         NEW tried \in SUBSET Installed, StartUndo(p, tried), Reached(p),
         AsFound(Routes \ All(job[p]), origin[p], disturbed[p], live'),
         job[p].script.undo = "attempted" =>
           AsFound(Routes \ tried, origin[p], disturbed[p], live')
  PROVE  IInv'
<1> DEFINE todo == IF job[p].script.undo = "attempted" THEN tried ELSE DOMAIN job[p].saved
           j == [job[p] EXCEPT !.at = "undo", !.unread = {}, !.tried = tried, !.todo = todo]
<1>1. /\ job[p] \in Job /\ JobFits(job[p]) /\ Sound(job[p].script)
      /\ job[p].release # None
      /\ InstallOk(job[p], disk[p], origin[p], disturbed[p], live)
  BY Running
<1>2. Installed \subseteq All(job[p]) /\ All(job[p]) \subseteq Routes /\ Installed \subseteq Routes
  BY <1>1, Managing
<1>3. DOMAIN job[p].saved = All(job[p]) /\ todo \subseteq All(job[p])
  BY <1>1, <1>2 DEF JobFits
<1>4. job[p].failures = {}
  BY <1>1 DEF InstallOk, Putting, Retiring, Probing
<1>5. AsFound(Routes \ todo, origin[p], disturbed[p], live')
  BY <1>1, <1>3
<1> HIDE DEF todo
<1>6. /\ j \in Job /\ j.at = "undo" /\ j.todo = todo /\ j.unread = {}
      /\ j.script = job[p].script /\ j.release = job[p].release /\ j.saved = job[p].saved
      /\ j.failures = {} /\ j.outcome = job[p].outcome
  BY <1>1, <1>2, <1>3, <1>4 DEF Job
<1>7. Become(p, j)
  BY DEF StartUndo, Script, todo
<1> HIDE DEF j
<1>8. All(j) = All(job[p])
  BY <1>6 DEF All
<1>9. JobFits(j)
  BY <1>1, <1>3, <1>6, <1>8 DEF JobFits
<1>10. Snapshotted(p) /\ disk'[p] = disk[p]
  BY DiskStays DEF StartUndo
<1>11. Saved(j, disk[p], origin[p], disturbed[p])
  BY <1>1, <1>6, <1>8 DEF InstallOk, Saved, Noted
<1>12. DiskOk(j, disk[p], origin[p], disturbed[p], live')
  BY <1>1, <1>6, <1>8, <1>11 DEF InstallOk, DiskOk, Saved
<1>13. Undoing(j, origin[p], disturbed[p], live')
  BY <1>5, <1>6 DEF Undoing, AsFound
<1>14. InstallOk(j, disk'[p], origin[p], disturbed[p], live')
  BY <1>6, <1>8, <1>10, <1>11, <1>12, <1>13 DEF InstallOk
<1> QED
  BY <1>1, <1>6, <1>7, <1>9, <1>10, <1>14, Moves DEF Ok

\* An answer that ends the installation, in whatever phase.
LEMMA Fails ==
  ASSUME IInv, NEW p \in Runs, job[p] # None,
         job[p].at \in {"install", "retire", "probe"},
         NEW tried \in SUBSET Installed, NEW phase, NEW answer,
         Fail(p, phase, answer, tried), Reached(p),
         AsFound(Routes \ All(job[p]), origin[p], disturbed[p], live'),
         job[p].script.undo = "attempted" =>
           AsFound(Routes \ tried, origin[p], disturbed[p], live')
  PROVE  IInv'
<1>1. /\ job[p].release # None /\ job[p].at # "done"
      /\ InstallOk(job[p], disk[p], origin[p], disturbed[p], live)
  BY Running
<1>2. job[p].script.keeps => disk[p] # None
  BY <1>1 DEF InstallOk, Saved
<1>3. CASE End(p, "rolled_back") /\ Script(p).undo = "attempted" /\ tried = {}
  <2>1. Justified(p, "rolled_back")
    BY <1>1, <1>3 DEF Justified, AsFound, Script
  <2> QED
    BY <1>1, <1>3, <2>1, EndsBy DEF Outcomes
<1>4. CASE End(p, "failed")
  <2>1. Justified(p, "failed")
    BY <1>1, <1>2 DEF Justified
  <2> QED
    BY <1>1, <1>4, <2>1, EndsBy DEF Outcomes
<1>5. CASE StartUndo(p, tried)
  BY <1>5, UndoStarts
<1> QED
  BY <1>3, <1>4, <1>5 DEF Fail

(***************************************************************************)
(* The steps.                                                              *)
(***************************************************************************)

\* Whatever is there, a run that begins has changed nothing.
LEMMA BeginStep ==
  ASSUME IInv, NEW p \in Runs, NEW s \in Scripts, NEW v \in Releases, Begin(p, s, v)
  PROVE  IInv'
<1> DEFINE saved == [r \in Managed(s) |-> None]
           j == [script |-> s, release |-> v, at |-> "snapshot", todo |-> Managed(s),
                 unread |-> {}, tried |-> {}, failures |-> {}, saved |-> saved,
                 outcome |-> None]
<1>1. Types /\ disk[p] = None
  BY DEF IInv, RunOk, Begin
<1>2. Managed(s) \in {Routes, Installed} /\ Managed(s) \subseteq Routes
  BY DEF Managed, Installed
<1>3. saved \in Snapshot /\ DOMAIN saved = Managed(s)
  BY <1>2, Snapshots DEF Contents
<1>4. v # None
  BY NoneAssumption
<1> HIDE DEF saved
<1>5. j \in Job
  BY <1>2, <1>3 DEF Job
<1>6. job' = [job EXCEPT ![p] = j] /\ j # None
  BY <1>5, NothingAssumption DEF Begin, Become, saved
<1>7. /\ j.script = s /\ j.release = v /\ j.at = "snapshot" /\ j.todo = Managed(s)
      /\ j.unread = {} /\ j.tried = {} /\ j.failures = {} /\ j.saved = saved
      /\ j.outcome = None
  OBVIOUS
<1> HIDE DEF j
<1>8. job' \in [Runs -> Job \cup {None}] /\ job'[p] = j
      /\ \A q \in Runs \ {p} : job'[q] = job[q]
  BY <1>1, <1>5, <1>6 DEF Types
<1>9. /\ origin' \in [Runs -> [Routes -> Contents]] /\ origin'[p] = live
      /\ \A q \in Runs \ {p} : origin'[q] = origin[q]
      /\ UNCHANGED <<live, late, disk, disturbed, faults>>
  BY <1>1 DEF Begin, Types
<1>10. All(j) = Managed(s)
  BY <1>7 DEF All
<1>11. JobFits(j)
  BY <1>3, <1>5, <1>7, <1>10 DEF JobFits
<1>12. \A S : AsFound(S, live, disturbed[p], live)
  BY DEF AsFound
<1>13. Saving(j, None, live, disturbed[p], live)
  BY <1>7, <1>10, <1>12 DEF Saving, Noted
<1>14. InstallOk(j, None, live, disturbed[p], live)
  BY <1>7, <1>12, <1>13 DEF InstallOk, DiskOk
<1>15. RunOk(p)'
  BY <1>1, <1>4, <1>6, <1>7, <1>8, <1>9, <1>11, <1>14 DEF RunOk, Ok
<1>16. Types'
  BY <1>1, <1>8, <1>9 DEF Types
<1>17. Elsewhere(p)
  BY <1>8, <1>9 DEF Elsewhere
<1> QED
  BY <1>15, <1>16, <1>17, OneMoves DEF Stepped

\* A route is noted as it is, and nobody has changed it unseen.
LEMMA SnapshotRouteStep ==
  ASSUME IInv, NEW p \in Runs, SnapshotRoute(p)
  PROVE  IInv'
<1>1. PICK r \in job[p].todo :
        Become(p, [job[p] EXCEPT !.todo = @ \ {r}, !.saved[r] = live[r]])
  BY DEF SnapshotRoute
<1> DEFINE saved == [job[p].saved EXCEPT ![r] = live[r]]
           j == [job[p] EXCEPT !.todo = @ \ {r}, !.saved = saved]
<1>2. /\ job[p] # None /\ job[p].at = "snapshot" /\ Types
      /\ UNCHANGED <<live, late, disk, origin, disturbed, faults>>
  BY DEF SnapshotRoute, At, IInv
<1>3. /\ job[p] \in Job /\ JobFits(job[p]) /\ job[p].release # None
      /\ InstallOk(job[p], disk[p], origin[p], disturbed[p], live)
  BY <1>2, Running
<1>4. Saving(job[p], disk[p], origin[p], disturbed[p], live)
  BY <1>2, <1>3 DEF InstallOk
<1>5. r \in DOMAIN job[p].saved /\ r \in Routes /\ DOMAIN job[p].saved = All(job[p])
  BY <1>3, Managing DEF JobFits
<1>6. live[r] \in Contents
  BY <1>2, <1>5 DEF Types
<1>7. saved \in Snapshot /\ DOMAIN saved = DOMAIN job[p].saved
  BY <1>3, <1>5, <1>6, SnapshotEntry DEF Job
<1>8. /\ \A x \in DOMAIN job[p].saved \ {r} : saved[x] = job[p].saved[x]
      /\ saved[r] = live[r]
  BY <1>5
<1>9. Become(p, j)
  BY <1>1
<1> HIDE DEF saved
<1>10. /\ j \in Job /\ j.at = "snapshot" /\ j.todo = job[p].todo \ {r} /\ j.saved = saved
       /\ j.script = job[p].script /\ j.release = job[p].release
       /\ j.failures = job[p].failures /\ j.outcome = job[p].outcome
       /\ j.unread = job[p].unread /\ j.tried = job[p].tried
  BY <1>2, <1>3, <1>7 DEF Job
<1> HIDE DEF j
<1>11. All(j) = All(job[p])
  BY <1>10 DEF All
<1>12. JobFits(j)
  BY <1>2, <1>3, <1>4, <1>7, <1>10, <1>11 DEF JobFits, Saving
<1>13. ~j.script.tolerant => Noted(j, All(j) \ j.todo, origin[p], disturbed[p])
  <2> SUFFICES ASSUME ~j.script.tolerant, NEW x \in (All(j) \ j.todo) \ disturbed[p]
               PROVE  j.saved[x] = origin[p][x]
    BY DEF Noted
  <2>1. CASE x = r
    BY <1>4, <1>5, <1>8, <1>10, <2>1 DEF Saving, AsFound
  <2>2. CASE x # r
    <3>1. x \in (All(job[p]) \ job[p].todo) \ disturbed[p]
      BY <1>10, <1>11, <2>2
    <3> QED
      BY <1>4, <1>5, <1>8, <1>10, <2>2, <3>1 DEF Saving, Noted
  <2> QED
    BY <2>1, <2>2
<1>14. Saving(j, disk[p], origin[p], disturbed[p], live)
  BY <1>4, <1>10, <1>13 DEF Saving
<1>15. InstallOk(j, disk[p], origin[p], disturbed[p], live)
  BY <1>3, <1>10, <1>11, <1>14 DEF InstallOk, DiskOk
<1>16. Snapshotted(p) /\ disk'[p] = disk[p] /\ Reached(p)
  BY <1>2, DiskStays, Quiet, FaultsCount
<1>17. Ok(j, disk'[p], origin[p], disturbed[p], live')
  BY <1>2, <1>3, <1>10, <1>12, <1>15, <1>16 DEF Ok
<1> QED
  BY <1>9, <1>10, <1>16, <1>17, Moves

\* A read that fails ends the run, or leaves an entry empty where it is tolerated.
LEMMA SnapshotFailsStep ==
  ASSUME IInv, NEW p \in Runs, SnapshotFails(p)
  PROVE  IInv'
<1>1. PICK r \in job[p].todo :
        IF Script(p).tolerant
        THEN Become(p, [job[p] EXCEPT !.todo = @ \ {r}]) /\ UNCHANGED disk
        ELSE End(p, "refused")
  BY DEF SnapshotFails
<1>2. /\ job[p] # None /\ job[p].at = "snapshot" /\ Types
      /\ UNCHANGED <<live, late, origin, disturbed>>
  BY DEF SnapshotFails, At, IInv
<1>3. /\ job[p] \in Job /\ JobFits(job[p]) /\ job[p].release # None
      /\ InstallOk(job[p], disk[p], origin[p], disturbed[p], live)
  BY <1>2, Running
<1>4. Saving(job[p], disk[p], origin[p], disturbed[p], live)
  BY <1>2, <1>3 DEF InstallOk
<1>5. Reached(p)
  BY <1>2, Quiet, FaultsCount DEF SnapshotFails
<1>6. CASE Script(p).tolerant
  <2> DEFINE j == [job[p] EXCEPT !.todo = @ \ {r}]
  <2>1. Become(p, j) /\ Snapshotted(p) /\ disk'[p] = disk[p]
    BY <1>1, <1>6, DiskStays
  <2>2. /\ j \in Job /\ j.at = "snapshot" /\ j.todo = job[p].todo \ {r}
        /\ j.saved = job[p].saved
        /\ j.script = job[p].script /\ j.release = job[p].release
        /\ j.failures = job[p].failures /\ j.outcome = job[p].outcome
        /\ j.unread = job[p].unread /\ j.tried = job[p].tried
    BY <1>2, <1>3 DEF Job
  <2> HIDE DEF j
  <2>3. All(j) = All(job[p]) /\ j.script.tolerant
    BY <1>6, <2>2 DEF All, Script
  <2>4. JobFits(j)
    BY <1>2, <1>3, <1>4, <2>2, <2>3 DEF JobFits, Saving
  <2>5. InstallOk(j, disk[p], origin[p], disturbed[p], live)
    BY <1>3, <1>4, <2>2, <2>3 DEF InstallOk, DiskOk, Saving
  <2>6. Ok(j, disk'[p], origin[p], disturbed[p], live')
    BY <1>2, <1>3, <2>1, <2>2, <2>4, <2>5 DEF Ok
  <2> QED
    BY <1>5, <2>1, <2>2, <2>6, Moves
<1>7. CASE ~Script(p).tolerant
  <2>1. End(p, "refused")
    BY <1>1, <1>7
  <2>2. Justified(p, "refused")
    BY <1>2, <1>3, <1>4 DEF Justified, Saving, AsFound
  <2> QED
    BY <1>2, <1>5, <2>1, <2>2, EndsBy DEF Outcomes
<1> QED
  BY <1>6, <1>7
\* An entry of a snapshot is a content.
LEMMA Entries ==
  ASSUME NEW f \in Snapshot, NEW r \in DOMAIN f
  PROVE  f[r] \in Contents
BY Snapshots

\* The snapshot is complete, and as the routes are, when it is put on disk.
LEMMA SaveStep ==
  ASSUME IInv, NEW p \in Runs, Save(p)
  PROVE  IInv'
<1>1. /\ job[p] # None /\ job[p].at = "snapshot" /\ Types /\ job[p].todo = {}
      /\ UNCHANGED <<live, late, origin, disturbed, faults>>
      /\ disk' = [disk EXCEPT ![p] = job[p].saved]
  BY DEF Save, At, IInv
<1>2. /\ job[p] \in Job /\ JobFits(job[p]) /\ job[p].release # None
      /\ InstallOk(job[p], disk[p], origin[p], disturbed[p], live)
      /\ Sound(job[p].script)
  BY <1>1, Running
<1>3. Saving(job[p], disk[p], origin[p], disturbed[p], live)
  BY <1>1, <1>2 DEF InstallOk
<1>4. job[p].saved \in Snapshot /\ job[p].saved # None /\ DOMAIN job[p].saved = All(job[p])
  BY <1>2, NothingAssumption DEF Job, JobFits
<1>5. Snapshotted(p) /\ disk'[p] = job[p].saved
  BY <1>1, <1>4 DEF Snapshotted, Types
<1>6. Reached(p)
  BY <1>1, Quiet, FaultsCount
<1>7. ~job[p].script.tolerant => Noted(job[p], All(job[p]), origin[p], disturbed[p])
  BY <1>1, <1>3 DEF Saving, Noted
<1>8. DiskOk(job[p], job[p].saved, origin[p], disturbed[p], live)
  BY <1>2, <1>4, <1>7 DEF DiskOk, Sound, Noted
<1>9. \A S : AsFound(S \cap Routes, origin[p], disturbed[p], live)
  BY <1>3 DEF Saving, AsFound
<1>10. Installed \subseteq All(job[p]) /\ Installed \subseteq Routes
  BY <1>2, Managing
<1>11. CASE Become(p, [job[p] EXCEPT !.at = "done", !.outcome = "refused"])
  <2> DEFINE j == [job[p] EXCEPT !.at = "done", !.outcome = "refused"]
  <2>1. /\ j \in Job /\ j.at = "done" /\ j.todo = {} /\ j.saved = job[p].saved
        /\ j.script = job[p].script /\ j.release = job[p].release
        /\ j.failures = job[p].failures /\ j.outcome = "refused"
    BY <1>1, <1>2 DEF Job, Outcomes
  <2> HIDE DEF j
  <2>2. All(j) = All(job[p])
    BY <2>1 DEF All
  <2>3. "refused" # None
    BY NothingAssumption DEF Outcomes
  <2>4. JobFits(j)
    BY <1>2, <1>4, <2>1, <2>2, <2>3 DEF JobFits
  <2>5. InstallOk(j, disk'[p], origin[p], disturbed[p], live)
    <3>1. DiskOk(j, disk'[p], origin[p], disturbed[p], live)
      BY <1>5, <1>8, <2>1, <2>2 DEF DiskOk
    <3>2. Ending(j, origin[p], disturbed[p], live)
      BY <1>3, <2>1 DEF Ending, Saving
    <3>3. AsFound(Routes \ All(j), origin[p], disturbed[p], live)
      BY <1>3 DEF Saving, AsFound
    <3> QED
      BY <2>1, <3>1, <3>2, <3>3 DEF InstallOk
  <2>6. Become(p, j)
    BY <1>11 DEF j
  <2> QED
    BY <1>1, <1>2, <1>5, <1>6, <2>1, <2>4, <2>5, <2>6, Moves DEF Ok
<1>12. CASE Become(p, [job[p] EXCEPT !.at = "install", !.todo = Installed])
  <2> DEFINE j == [job[p] EXCEPT !.at = "install", !.todo = Installed]
  <2>1. /\ j \in Job /\ j.at = "install" /\ j.todo = Installed /\ j.saved = job[p].saved
        /\ j.script = job[p].script /\ j.release = job[p].release
        /\ j.failures = {} /\ j.unread = {} /\ j.tried = {} /\ j.outcome = job[p].outcome
    BY <1>1, <1>2, <1>3, <1>10 DEF Job, Saving
  <2> HIDE DEF j
  <2>2. All(j) = All(job[p])
    BY <2>1 DEF All
  <2>3. JobFits(j)
    BY <1>1, <1>2, <1>4, <1>10, <2>1, <2>2 DEF JobFits
  <2>4. InstallOk(j, disk'[p], origin[p], disturbed[p], live)
    <3>1. DiskOk(j, disk'[p], origin[p], disturbed[p], live)
      BY <1>5, <1>8, <2>1, <2>2 DEF DiskOk
    <3>2. Saved(j, disk'[p], origin[p], disturbed[p])
      BY <1>4, <1>5, <1>7, <2>1, <2>2 DEF Saved, Noted
    <3>3. AsFound(Routes \ All(j), origin[p], disturbed[p], live)
      BY <1>3 DEF Saving, AsFound
    <3>4. Putting(j, origin[p], disturbed[p], live)
      BY <1>3, <2>1 DEF Putting, Saving, AsFound, Sent
    <3> QED
      BY <2>1, <3>1, <3>2, <3>3, <3>4 DEF InstallOk
  <2>5. Become(p, j)
    BY <1>12 DEF j
  <2> QED
    BY <1>1, <1>2, <1>5, <1>6, <2>1, <2>3, <2>4, <2>5, Moves DEF Ok
<1> QED
  BY <1>11, <1>12 DEF Save

\* A run that installs goes on: what is common to its steps up to the probe.
LEMMA GoesOn ==
  ASSUME IInv, NEW p \in Runs, job[p] # None,
         job[p].at \in {"install", "retire", "probe"},
         NEW j \in Job, Become(p, j), UNCHANGED disk, Reached(p),
         j.at \in {"install", "retire", "probe"},
         j.script = job[p].script, j.release = job[p].release, j.saved = job[p].saved,
         j.failures = job[p].failures, j.outcome = job[p].outcome,
         j.todo \subseteq All(job[p]),
         AsFound(Routes \ All(job[p]), origin[p], disturbed[p], live'),
         j.at = "install" => Putting(j, origin[p], disturbed[p], live'),
         j.at = "retire" => Retiring(j, disturbed[p], live'),
         j.at = "probe" => Probing(j, origin[p], disturbed[p], live')
  PROVE  IInv'
<1>1. /\ job[p] \in Job /\ JobFits(job[p]) /\ job[p].release # None
      /\ InstallOk(job[p], disk[p], origin[p], disturbed[p], live)
  BY Running
<1>2. Saved(job[p], disk[p], origin[p], disturbed[p]) /\ job[p].failures = {}
  BY <1>1 DEF InstallOk, Putting, Retiring, Probing
<1>3. All(j) = All(job[p])
  BY DEF All
<1>4. JobFits(j)
  BY <1>1, <1>2, <1>3 DEF JobFits
<1>5. Snapshotted(p) /\ disk'[p] = disk[p]
  BY DiskStays
<1>6. Saved(j, disk'[p], origin[p], disturbed[p])
  BY <1>2, <1>3, <1>5 DEF Saved, Noted
<1>7. DiskOk(j, disk'[p], origin[p], disturbed[p], live')
  BY <1>1, <1>3, <1>5, <1>6 DEF InstallOk, DiskOk, Saved
<1>8. InstallOk(j, disk'[p], origin[p], disturbed[p], live')
  BY <1>3, <1>6, <1>7 DEF InstallOk
<1> QED
  BY <1>1, <1>4, <1>5, <1>8, Moves DEF Ok

\* A route is written, or may have been.
LEMMA PutStep ==
  ASSUME IInv, NEW p \in Runs, NEW answer, Put(p, answer)
  PROVE  IInv'
<1>1. PICK r \in Writes(p) :
        /\ Write(p, r, job[p].release, answer) \/ WriteAltered(p, r, answer)
        /\ IF answer = "ok"
           THEN /\ Become(p, [job[p] EXCEPT !.todo = @ \ {r}, !.unread = @ \cup {r},
                                            !.tried = @ \cup {r}])
                /\ UNCHANGED disk
           ELSE Fail(p, "write", answer, job[p].tried \cup {r})
  BY DEF Put
<1>2. job[p] # None /\ job[p].at = "install" /\ UNCHANGED origin
  BY DEF Put, At
<1>3. /\ job[p] \in Job /\ JobFits(job[p]) /\ job[p].release # None
      /\ InstallOk(job[p], disk[p], origin[p], disturbed[p], live)
  BY <1>2, Running
<1>4. Putting(job[p], origin[p], disturbed[p], live)
  BY <1>2, <1>3 DEF InstallOk
<1>5. /\ Installed \subseteq All(job[p]) /\ All(job[p]) \subseteq Routes
      /\ Installed \subseteq Routes
  BY <1>3, Managing
<1>6. r \in job[p].todo /\ r \in Installed /\ r \in Routes
  BY <1>4, <1>5 DEF Writes, Putting
<1>7. job[p].release \in Contents
  BY <1>3 DEF Job, Contents
<1>8. Reached(p) /\ \A x \in Routes \ {r} : live'[x] = live[x]
  BY <1>1, <1>2, <1>6, <1>7, Writing, WritingAltered
<1>9. AsFound(Routes \ All(job[p]), origin[p], disturbed[p], live')
  BY <1>3, <1>5, <1>6, <1>8 DEF InstallOk, AsFound
<1>10. AsFound(Routes \ (job[p].tried \cup {r}), origin[p], disturbed[p], live')
  BY <1>4, <1>8 DEF Putting, AsFound
<1>11. CASE answer = "ok"
  <2> DEFINE j == [job[p] EXCEPT !.todo = @ \ {r}, !.unread = @ \cup {r},
                                 !.tried = @ \cup {r}]
  <2>1. Become(p, j) /\ UNCHANGED disk
    BY <1>1, <1>11
  <2>2. /\ j \in Job /\ j.at = "install" /\ j.todo = job[p].todo \ {r}
        /\ j.unread = job[p].unread \cup {r} /\ j.tried = job[p].tried \cup {r}
        /\ j.script = job[p].script /\ j.release = job[p].release
        /\ j.saved = job[p].saved /\ j.failures = job[p].failures
        /\ j.outcome = job[p].outcome
    BY <1>2, <1>3, <1>6 DEF Job
  <2> HIDE DEF j
  <2>3. Installed \ (j.todo \cup j.unread) \subseteq Installed \ (job[p].todo \cup job[p].unread)
    BY <1>6, <2>2
  <2>4. j.script.compares => Sent(j, Installed \ (j.todo \cup j.unread), disturbed[p], live')
    BY <1>4, <1>5, <1>8, <2>2, <2>3 DEF Putting, Sent
  <2>5. Putting(j, origin[p], disturbed[p], live')
    BY <1>4, <1>6, <1>10, <2>2, <2>4 DEF Putting
  <2>6. j.todo \subseteq All(job[p])
    BY <1>3, <2>2 DEF JobFits
  <2> QED
    BY <1>2, <1>8, <1>9, <2>1, <2>2, <2>5, <2>6, GoesOn
<1>12. CASE answer # "ok"
  <2>1. Fail(p, "write", answer, job[p].tried \cup {r})
    BY <1>1, <1>12
  <2>2. job[p].tried \cup {r} \in SUBSET Installed
    BY <1>4, <1>6 DEF Putting
  <2> QED
    BY <1>2, <1>8, <1>9, <1>10, <2>1, <2>2, Fails
<1> QED
  BY <1>11, <1>12

\* A script that writes what is missing leaves a route, or gives up at it.
LEMMA LeaveStep ==
  ASSUME IInv, NEW p \in Runs, Leave(p)
  PROVE  IInv'
<1>1. PICK r \in Writes(p) :
        IF r \in Drifted(p) THEN StartUndo(p, {})
        ELSE /\ Become(p, [job[p] EXCEPT !.todo = @ \ {r}, !.unread = @ \cup {r}])
             /\ UNCHANGED disk
  BY DEF Leave
<1>2. /\ job[p] # None /\ job[p].at = "install" /\ job[p].script.missing # "no"
      /\ UNCHANGED <<live, late, origin, disturbed, faults>>
  BY DEF Leave, At, Script
<1>3. /\ job[p] \in Job /\ JobFits(job[p]) /\ job[p].release # None
      /\ InstallOk(job[p], disk[p], origin[p], disturbed[p], live)
      /\ Sound(job[p].script)
  BY <1>2, Running
<1>4. Putting(job[p], origin[p], disturbed[p], live)
  BY <1>2, <1>3 DEF InstallOk
<1>5. r \in job[p].todo /\ r \in Installed /\ r \in Routes /\ Installed \subseteq Routes
  BY <1>3, <1>4, Managing DEF Writes, Putting
<1>6. Reached(p)
  BY <1>2, Quiet, FaultsCount
<1>7. AsFound(Routes \ All(job[p]), origin[p], disturbed[p], live')
  BY <1>2, <1>3 DEF InstallOk
<1>8. CASE r \in Drifted(p)
  <2>1. StartUndo(p, {})
    BY <1>1, <1>8
  <2>2. {} \in SUBSET Installed /\ job[p].script.undo # "attempted"
    BY <1>2, <1>3 DEF Sound
  <2> QED
    BY <1>2, <1>6, <1>7, <2>1, <2>2, UndoStarts
<1>9. CASE r \notin Drifted(p)
  <2> DEFINE j == [job[p] EXCEPT !.todo = @ \ {r}, !.unread = @ \cup {r}]
  <2>1. Become(p, j) /\ UNCHANGED disk
    BY <1>1, <1>9
  <2>2. /\ j \in Job /\ j.at = "install" /\ j.todo = job[p].todo \ {r}
        /\ j.unread = job[p].unread \cup {r} /\ j.tried = job[p].tried
        /\ j.script = job[p].script /\ j.release = job[p].release
        /\ j.saved = job[p].saved /\ j.failures = job[p].failures
        /\ j.outcome = job[p].outcome
    BY <1>2, <1>3, <1>5 DEF Job
  <2> HIDE DEF j
  <2>3. Installed \ (j.todo \cup j.unread) \subseteq Installed \ (job[p].todo \cup job[p].unread)
    BY <1>5, <2>2
  <2>4. Putting(j, origin[p], disturbed[p], live')
    BY <1>2, <1>4, <1>5, <2>2, <2>3 DEF Putting, Sent
  <2>5. j.todo \subseteq All(job[p])
    BY <1>3, <2>2 DEF JobFits
  <2> QED
    BY <1>2, <1>6, <1>7, <2>1, <2>2, <2>4, <2>5, GoesOn
<1> QED
  BY <1>8, <1>9

\* A route reads back as it was sent, or the installation ends.
LEMMA ReadBackStep ==
  ASSUME IInv, NEW p \in Runs, NEW answer, ReadBack(p, answer)
  PROVE  IInv'
<1>1. PICK r \in job[p].unread :
        LET same == IF Script(p).compares THEN live[r] = job[p].release ELSE live[r] # None
        IN \/ /\ answer = "ok" /\ same
              /\ Become(p, [job[p] EXCEPT !.unread = @ \ {r}])
              /\ UNCHANGED <<disk, faults>>
           \/ /\ \/ answer = "refused" /\ ~same /\ UNCHANGED faults
                 \/ answer = "error" /\ Happens("read_error")
              /\ Fail(p, "readback", answer, job[p].tried)
  BY DEF ReadBack
<1>2. /\ job[p] # None /\ job[p].at = "install"
      /\ UNCHANGED <<live, late, origin, disturbed>>
  BY DEF ReadBack, At
<1>3. /\ job[p] \in Job /\ JobFits(job[p]) /\ job[p].release # None
      /\ InstallOk(job[p], disk[p], origin[p], disturbed[p], live)
  BY <1>2, Running
<1>4. Putting(job[p], origin[p], disturbed[p], live)
  BY <1>2, <1>3 DEF InstallOk
<1>5. AsFound(Routes \ All(job[p]), origin[p], disturbed[p], live')
  BY <1>2, <1>3 DEF InstallOk
<1>6. Reached(p)
  BY <1>1, <1>2, Quiet, FaultsCount
<1>7. CASE /\ Become(p, [job[p] EXCEPT !.unread = @ \ {r}]) /\ UNCHANGED disk
           /\ Script(p).compares => live[r] = job[p].release
  <2> DEFINE j == [job[p] EXCEPT !.unread = @ \ {r}]
  <2>1. Become(p, j) /\ UNCHANGED disk
    BY <1>7
  <2>2. /\ j \in Job /\ j.at = "install" /\ j.todo = job[p].todo
        /\ j.unread = job[p].unread \ {r} /\ j.tried = job[p].tried
        /\ j.script = job[p].script /\ j.release = job[p].release
        /\ j.saved = job[p].saved /\ j.failures = job[p].failures
        /\ j.outcome = job[p].outcome
    BY <1>2, <1>3 DEF Job
  <2> HIDE DEF j
  <2>3. j.script.compares => Sent(j, Installed \ (j.todo \cup j.unread), disturbed[p], live')
    BY <1>2, <1>4, <1>7, <2>2 DEF Putting, Sent, Script
  <2>4. Putting(j, origin[p], disturbed[p], live')
    BY <1>2, <1>4, <2>2, <2>3 DEF Putting
  <2>5. j.todo \subseteq All(job[p])
    BY <1>3, <2>2 DEF JobFits
  <2> QED
    BY <1>2, <1>5, <1>6, <2>1, <2>2, <2>4, <2>5, GoesOn
<1>8. CASE Fail(p, "readback", answer, job[p].tried)
  <2>1. job[p].tried \in SUBSET Installed
    BY <1>4 DEF Putting
  <2>2. AsFound(Routes \ job[p].tried, origin[p], disturbed[p], live')
    BY <1>2, <1>4 DEF Putting
  <2> QED
    BY <1>2, <1>5, <1>6, <1>8, <2>1, <2>2, Fails
<1> QED
  BY <1>1, <1>7, <1>8
\* Everything is written and read back: what is superseded goes, or the probes come.
LEMMA WrittenStep ==
  ASSUME IInv, NEW p \in Runs, Written(p)
  PROVE  IInv'
<1>1. /\ job[p] # None /\ job[p].at = "install" /\ job[p].todo = {} /\ job[p].unread = {}
      /\ UNCHANGED <<live, late, disk, origin, disturbed, faults>>
  BY DEF Written, At
<1>2. /\ job[p] \in Job /\ JobFits(job[p]) /\ job[p].release # None
      /\ InstallOk(job[p], disk[p], origin[p], disturbed[p], live)
      /\ Sound(job[p].script)
  BY <1>1, Running
<1>3. Putting(job[p], origin[p], disturbed[p], live)
  BY <1>1, <1>2 DEF InstallOk
<1>4. AsFound(Routes \ All(job[p]), origin[p], disturbed[p], live')
  BY <1>1, <1>2 DEF InstallOk
<1>5. Reached(p)
  BY <1>1, Quiet, FaultsCount
<1>6. job[p].script.compares => Sent(job[p], Installed, disturbed[p], live)
  BY <1>1, <1>3 DEF Putting, Sent
<1>7. CASE job[p].script.retires
  <2> DEFINE j == [job[p] EXCEPT !.at = "retire", !.todo = Retired]
  <2>1. Become(p, j)
    BY <1>7 DEF Written, Script
  <2>2. /\ j \in Job /\ j.at = "retire" /\ j.todo = Retired
        /\ j.unread = {} /\ j.tried = job[p].tried
        /\ j.script = job[p].script /\ j.release = job[p].release
        /\ j.saved = job[p].saved /\ j.failures = job[p].failures
        /\ j.outcome = job[p].outcome
    BY <1>1, <1>2, RoutesAssumption DEF Job
  <2> HIDE DEF j
  <2>3. Retiring(j, disturbed[p], live')
    BY <1>1, <1>2, <1>3, <1>6, <1>7, <2>2 DEF Retiring, Putting, Sent, Gone, Sound
  <2>4. j.todo \subseteq All(job[p])
    BY <1>2, <1>7, <2>2, Managing
  <2> QED
    BY <1>1, <1>4, <1>5, <2>1, <2>2, <2>3, <2>4, GoesOn
<1>8. CASE ~job[p].script.retires
  <2> DEFINE j == [job[p] EXCEPT !.at = "probe"]
  <2>1. Become(p, j)
    BY <1>8 DEF Written, Script
  <2>2. /\ j \in Job /\ j.at = "probe" /\ j.todo = {}
        /\ j.unread = {} /\ j.tried = job[p].tried
        /\ j.script = job[p].script /\ j.release = job[p].release
        /\ j.saved = job[p].saved /\ j.failures = job[p].failures
        /\ j.outcome = job[p].outcome
    BY <1>1, <1>2 DEF Job
  <2> HIDE DEF j
  <2>3. Probing(j, origin[p], disturbed[p], live')
    BY <1>1, <1>3, <1>6, <1>8, <2>2 DEF Probing, Putting, Claimed, Sent
  <2>4. j.todo \subseteq All(job[p])
    BY <2>2
  <2> QED
    BY <1>1, <1>4, <1>5, <2>1, <2>2, <2>3, <2>4, GoesOn
<1> QED
  BY <1>7, <1>8

\* A superseded route is deleted once the new ones are served.
LEMMA RetireStep ==
  ASSUME IInv, NEW p \in Runs, NEW answer, Retire(p, answer)
  PROVE  IInv'
<1>1. PICK r \in job[p].todo :
        /\ Write(p, r, None, answer)
        /\ IF answer = "ok"
           THEN /\ Become(p, [job[p] EXCEPT !.todo = @ \ {r},
                                !.at = IF job[p].todo = {r} THEN "probe" ELSE "retire"])
                /\ UNCHANGED disk
           ELSE Fail(p, "retire", answer, job[p].tried)
  BY DEF Retire
<1>2. job[p] # None /\ job[p].at = "retire" /\ UNCHANGED origin
  BY DEF Retire, At
<1>3. /\ job[p] \in Job /\ JobFits(job[p]) /\ job[p].release # None
      /\ InstallOk(job[p], disk[p], origin[p], disturbed[p], live)
      /\ Sound(job[p].script)
  BY <1>2, Running
<1>4. Retiring(job[p], disturbed[p], live)
  BY <1>2, <1>3 DEF InstallOk
<1>5. /\ r \in Retired /\ r \in Routes /\ r \notin Installed /\ Installed \subseteq Routes
      /\ Retired \subseteq Routes /\ All(job[p]) = Routes
  BY <1>3, <1>4, Managing DEF Retiring
<1>6. /\ Reached(p)
      /\ \A x \in Routes \ {r} : live'[x] = live[x]
      /\ answer = "ok" => live'[r] = None
  BY <1>1, <1>2, <1>5, Writing DEF Contents
<1>7. AsFound(Routes \ All(job[p]), origin[p], disturbed[p], live')
  BY <1>5 DEF AsFound
<1>8. Sent(job[p], Installed, disturbed[p], live')
  BY <1>4, <1>5, <1>6 DEF Retiring, Sent
<1>9. CASE answer = "ok"
  <2> DEFINE at == IF job[p].todo = {r} THEN "probe" ELSE "retire"
             j == [job[p] EXCEPT !.todo = @ \ {r}, !.at = at]
  <2>1. Become(p, j) /\ UNCHANGED disk
    BY <1>1, <1>9
  <2>2. at \in {"probe", "retire"} /\ (at = "probe" => job[p].todo = {r})
    OBVIOUS
  <2> HIDE DEF at
  <2>3. /\ j \in Job /\ j.at = at /\ j.todo = job[p].todo \ {r}
        /\ j.unread = job[p].unread /\ j.tried = job[p].tried
        /\ j.script = job[p].script /\ j.release = job[p].release
        /\ j.saved = job[p].saved /\ j.failures = job[p].failures
        /\ j.outcome = job[p].outcome
    BY <1>3, <2>2 DEF Job
  <2> HIDE DEF j
  <2>4. Gone(Retired \ j.todo, disturbed[p], live')
    BY <1>4, <1>5, <1>6, <1>9, <2>3 DEF Retiring, Gone
  <2>5. Sent(j, Installed, disturbed[p], live')
    BY <1>8, <2>3 DEF Sent
  <2>6. Retiring(j, disturbed[p], live')
    BY <1>4, <2>3, <2>4, <2>5 DEF Retiring
  <2>7. at = "probe" => Probing(j, origin[p], disturbed[p], live')
    <3> SUFFICES ASSUME at = "probe"
                 PROVE  Probing(j, origin[p], disturbed[p], live')
      OBVIOUS
    <3>1. j.todo = {}
      BY <2>2, <2>3
    <3>2. Gone(Retired, disturbed[p], live')
      BY <2>4, <3>1 DEF Gone
    <3> QED
      BY <2>5, <2>6, <3>2 DEF Probing, Claimed, Retiring
  <2>8. j.todo \subseteq All(job[p])
    BY <1>3, <2>3 DEF JobFits
  <2> QED
    BY <1>2, <1>6, <1>7, <2>1, <2>2, <2>3, <2>6, <2>7, <2>8, GoesOn
<1>10. CASE answer # "ok"
  <2>1. Fail(p, "retire", answer, job[p].tried)
    BY <1>1, <1>10
  <2>2. job[p].tried \in SUBSET Installed /\ job[p].script.undo # "attempted"
    BY <1>3, <1>4 DEF Retiring, Sound
  <2> QED
    BY <1>2, <1>6, <1>7, <2>1, <2>2, Fails
<1> QED
  BY <1>9, <1>10

\* The probes let the run say that its routes are installed, or not.
LEMMA ProbeStep ==
  ASSUME IInv, NEW p \in Runs, NEW answer, Probe(p, answer)
  PROVE  IInv'
<1>1. /\ job[p] # None /\ job[p].at = "probe"
      /\ UNCHANGED <<live, late, origin, disturbed>>
  BY DEF Probe, At
<1>2. /\ job[p] \in Job /\ JobFits(job[p]) /\ job[p].release # None
      /\ InstallOk(job[p], disk[p], origin[p], disturbed[p], live)
      /\ Sound(job[p].script)
  BY <1>1, Running
<1>3. Probing(job[p], origin[p], disturbed[p], live)
  BY <1>1, <1>2 DEF InstallOk
<1>4. AsFound(Routes \ All(job[p]), origin[p], disturbed[p], live')
  BY <1>1, <1>2 DEF InstallOk
<1>5. Reached(p)
  BY <1>1, Quiet, FaultsCount DEF Probe
<1>6. CASE End(p, "installed")
  <2>1. job[p].script.keeps => disk[p] # None
    BY <1>1, <1>2 DEF InstallOk, Saved
  <2>2. Justified(p, "installed")
    BY <1>1, <1>2, <1>3, <1>4, <2>1 DEF Justified, Probing
  <2> QED
    BY <1>1, <1>5, <1>6, <2>2, EndsBy DEF Outcomes
<1>7. CASE Fail(p, "probe", answer, job[p].tried)
  <2>1. job[p].tried \in SUBSET Installed
    BY <1>3 DEF Probing
  <2>2. job[p].script.undo = "attempted" =>
          AsFound(Routes \ job[p].tried, origin[p], disturbed[p], live')
    BY <1>1, <1>2, <1>3 DEF Probing, Sound
  <2> QED
    BY <1>1, <1>4, <1>5, <1>7, <2>1, <2>2, Fails
<1> QED
  BY <1>6, <1>7 DEF Probe

\* A snapshot on disk is of the routes its script manages.
LEMMA BeginRestoreStep ==
  ASSUME IInv, NEW p \in Runs, NEW q \in Runs, BeginRestore(p, q)
  PROVE  IInv'
<1> DEFINE j == [script |-> Script(q), release |-> None, at |-> "undo",
                 todo |-> DOMAIN disk[q], unread |-> {}, tried |-> {}, failures |-> {},
                 saved |-> disk[q], outcome |-> None]
<1>1. /\ Types /\ job[p] = None /\ disk[p] = None
      /\ job[q] # None /\ job[q].at = "done" /\ job[q].script.keeps /\ disk[q] # None
      /\ Script(q) = job[q].script
      /\ UNCHANGED <<live, late, disk, disturbed, faults>>
  BY DEF IInv, RunOk, BeginRestore, At, Script
<1>2. /\ job[q] \in Job
      /\ job[q].release # None => InstallOk(job[q], disk[q], origin[q], disturbed[q], live)
      /\ job[q].release = None => RestoreOk(job[q], disk[q], disturbed[q], live)
  BY <1>1, Running
<1>3. DOMAIN disk[q] = All(job[q])
  BY <1>1, <1>2 DEF InstallOk, RestoreOk, DiskOk
<1>4. disk[q] \in Snapshot
  BY <1>1 DEF Types
<1>5. job[q].script \in Scripts /\ All(job[q]) \subseteq Routes
  BY <1>2, Managing
<1>6. j \in Job
  BY <1>1, <1>3, <1>4, <1>5 DEF Job
<1>7. job' = [job EXCEPT ![p] = j] /\ j # None
  BY <1>6, NothingAssumption DEF BeginRestore, Become
<1>8. /\ j.script = job[q].script /\ j.release = None /\ j.at = "undo"
      /\ j.todo = DOMAIN disk[q] /\ j.failures = {} /\ j.saved = disk[q]
      /\ j.outcome = None
  BY <1>1
<1> HIDE DEF j
<1>9. /\ job' \in [Runs -> Job \cup {None}] /\ job'[p] = j
      /\ \A x \in Runs \ {p} : job'[x] = job[x]
  BY <1>1, <1>6, <1>7 DEF Types
<1>10. /\ origin' \in [Runs -> [Routes -> Contents]]
       /\ \A x \in Runs \ {p} : origin'[x] = origin[x]
  BY <1>1 DEF BeginRestore, Types
<1>11. All(j) = All(job[q])
  BY <1>8 DEF All
<1>12. JobFits(j)
  BY <1>3, <1>6, <1>8, <1>11 DEF JobFits
<1>13. "restored" # None
  BY NothingAssumption DEF Outcomes
<1>14. j.outcome \notin {"installed", "refused", "rolled_back"}
  BY <1>8, NothingAssumption DEF Outcomes
<1>15. RestoreOk(j, disk[p], disturbed[p], live)
  BY <1>1, <1>3, <1>8, <1>11, <1>13, <1>14 DEF RestoreOk, PutBack
<1>16. RunOk(p)'
  BY <1>1, <1>7, <1>8, <1>9, <1>12, <1>15 DEF RunOk, Ok
<1>17. Types'
  BY <1>1, <1>9, <1>10 DEF Types
<1>18. Elsewhere(p)
  BY <1>1, <1>9, <1>10 DEF Elsewhere
<1> QED
  BY <1>16, <1>17, <1>18, OneMoves DEF Stepped

\* A run that puts routes back goes on.
LEMMA UndoGoesOn ==
  ASSUME IInv, NEW p \in Runs, job[p] # None, job[p].at = "undo",
         NEW j \in Job, Become(p, j), UNCHANGED disk, Reached(p),
         j.at = "undo", j.script = job[p].script, j.release = job[p].release,
         j.saved = job[p].saved, j.outcome = job[p].outcome,
         j.todo \subseteq All(job[p]), j.failures \subseteq All(job[p]) \ j.todo,
         job[p].release = None =>
           PutBack(j, All(job[p]) \ (j.todo \cup j.failures), disturbed[p], live'),
         job[p].release # None =>
           /\ AsFound(Routes \ All(job[p]), origin[p], disturbed[p], live')
           /\ Undoing(j, origin[p], disturbed[p], live')
  PROVE  IInv'
<1>1. /\ JobFits(job[p])
      /\ job[p].release # None => InstallOk(job[p], disk[p], origin[p], disturbed[p], live)
      /\ job[p].release = None => RestoreOk(job[p], disk[p], disturbed[p], live)
  BY Running
<1>2. All(j) = All(job[p])
  BY DEF All
<1>3. JobFits(j)
  BY <1>1, <1>2 DEF JobFits
<1>4. Snapshotted(p) /\ disk'[p] = disk[p]
  BY DiskStays
<1>5. CASE job[p].release = None
  <2>1. "restored" # None
    BY NothingAssumption DEF Outcomes
  <2>2. j.outcome = None
    BY <1>3 DEF JobFits
  <2>3. RestoreOk(j, disk'[p], disturbed[p], live')
    BY <1>1, <1>2, <1>4, <1>5, <2>1, <2>2 DEF RestoreOk
  <2> QED
    BY <1>3, <1>4, <1>5, <2>3, Moves DEF Ok
<1>6. CASE job[p].release # None
  <2>1. Saved(j, disk'[p], origin[p], disturbed[p])
    BY <1>1, <1>2, <1>4, <1>6 DEF InstallOk, Saved, Noted
  <2>2. DiskOk(j, disk'[p], origin[p], disturbed[p], live')
    BY <1>1, <1>2, <1>4, <1>6, <2>1 DEF InstallOk, DiskOk, Saved
  <2>3. InstallOk(j, disk'[p], origin[p], disturbed[p], live')
    BY <1>2, <1>6, <2>1, <2>2 DEF InstallOk
  <2> QED
    BY <1>3, <1>4, <1>6, <2>3, Moves DEF Ok
<1> QED
  BY <1>5, <1>6

\* A route is put back as the snapshot has it, or is counted as failed.
LEMMA UndoRouteStep ==
  ASSUME IInv, NEW p \in Runs, NEW answer, UndoRoute(p, answer)
  PROVE  IInv'
<1>1. PICK r \in NextUndone(p) :
        /\ Write(p, r, job[p].saved[r], answer)
        /\ Become(p, [job[p] EXCEPT
             !.todo = @ \ {r},
             !.unread = IF StopsAtFailure(p) THEN {r} ELSE {},
             !.failures = IF answer = "ok" THEN @ ELSE @ \cup {r}])
  BY DEF UndoRoute
<1>2. job[p] # None /\ job[p].at = "undo" /\ UNCHANGED <<disk, origin>>
  BY DEF UndoRoute, At
<1>3. /\ job[p] \in Job /\ JobFits(job[p])
      /\ job[p].release # None => InstallOk(job[p], disk[p], origin[p], disturbed[p], live)
      /\ job[p].release = None => RestoreOk(job[p], disk[p], disturbed[p], live)
  BY <1>2, Running
<1>4. r \in job[p].todo
  BY DEF NextUndone
<1>5. /\ r \in All(job[p]) /\ r \in Routes /\ All(job[p]) \subseteq Routes
      /\ DOMAIN job[p].saved = All(job[p])
  BY <1>3, <1>4, Managing DEF JobFits
<1>6. job[p].saved[r] \in Contents
  BY <1>3, <1>5, Entries DEF Job
<1>7. /\ Reached(p)
      /\ \A x \in Routes \ {r} : live'[x] = live[x]
      /\ answer = "ok" => live'[r] = job[p].saved[r]
  BY <1>1, <1>2, <1>5, <1>6, Writing
<1> DEFINE unread == IF StopsAtFailure(p) THEN {r} ELSE {}
           failures == IF answer = "ok" THEN job[p].failures ELSE job[p].failures \cup {r}
           j == [job[p] EXCEPT !.todo = @ \ {r}, !.unread = unread, !.failures = failures]
<1>8. Become(p, j)
  BY <1>1
<1>9. /\ unread \subseteq Routes /\ (job[p].release # None => unread = {})
      /\ failures \subseteq Routes /\ job[p].failures \subseteq failures
      /\ failures \subseteq job[p].failures \cup {r} /\ (r \notin failures => answer = "ok")
  BY <1>3, <1>5 DEF StopsAtFailure, Restoring, Job
<1> HIDE DEF unread, failures
<1>10. /\ j \in Job /\ j.at = "undo" /\ j.todo = job[p].todo \ {r} /\ j.unread = unread
       /\ j.failures = failures /\ j.saved = job[p].saved
       /\ j.script = job[p].script /\ j.release = job[p].release
       /\ j.outcome = job[p].outcome
  BY <1>2, <1>3, <1>9 DEF Job
<1> HIDE DEF j
<1>11. j.todo \subseteq All(job[p]) /\ j.failures \subseteq All(job[p]) \ j.todo
  BY <1>3, <1>4, <1>9, <1>10 DEF JobFits
<1>12. ASSUME job[p].release = None
       PROVE  PutBack(j, All(job[p]) \ (j.todo \cup j.failures), disturbed[p], live')
  <2>1. PutBack(job[p], All(job[p]) \ (job[p].todo \cup job[p].failures), disturbed[p], live)
    BY <1>2, <1>3, <1>12 DEF RestoreOk
  <2> SUFFICES ASSUME NEW x \in (All(job[p]) \ (j.todo \cup j.failures)) \ disturbed[p]
               PROVE  live'[x] = j.saved[x]
    BY DEF PutBack
  <2>2. CASE x = r
    BY <1>7, <1>9, <1>10, <2>2
  <2>3. CASE x # r
    BY <1>5, <1>7, <1>9, <1>10, <2>1, <2>3 DEF PutBack
  <2> QED
    BY <2>2, <2>3
<1>13. ASSUME job[p].release # None
       PROVE  /\ AsFound(Routes \ All(job[p]), origin[p], disturbed[p], live')
              /\ Undoing(j, origin[p], disturbed[p], live')
  <2>1. /\ AsFound(Routes \ All(job[p]), origin[p], disturbed[p], live)
        /\ Undoing(job[p], origin[p], disturbed[p], live)
        /\ Saved(job[p], disk[p], origin[p], disturbed[p])
    BY <1>2, <1>3, <1>13 DEF InstallOk
  <2>2. AsFound(Routes \ All(job[p]), origin[p], disturbed[p], live')
    BY <1>5, <1>7, <2>1 DEF AsFound
  <2>3. ASSUME ~job[p].script.tolerant,
               NEW x \in (Routes \ (j.todo \cup j.failures)) \ disturbed[p]
        PROVE  live'[x] = origin[p][x]
    <3>1. CASE x = r
      <4>1. live'[r] = job[p].saved[r]
        BY <1>7, <1>9, <1>10, <3>1
      <4>2. job[p].saved[r] = origin[p][r]
        BY <1>5, <2>1, <2>3, <3>1 DEF Saved, Noted
      <4> QED
        BY <3>1, <4>1, <4>2
    <3>2. CASE x # r
      <4>1. x \in (Routes \ (job[p].todo \cup job[p].failures)) \ disturbed[p]
        BY <1>9, <1>10, <3>2
      <4> QED
        BY <1>7, <2>1, <2>3, <3>2, <4>1 DEF Undoing, AsFound
    <3> QED
      BY <3>1, <3>2
  <2>4. Undoing(j, origin[p], disturbed[p], live')
    BY <1>9, <1>10, <1>13, <2>3 DEF Undoing, AsFound
  <2> QED
    BY <2>2, <2>4
<1> QED
  BY <1>2, <1>7, <1>8, <1>10, <1>11, <1>12, <1>13, UndoGoesOn

\* Where a --restore reads back, it ends at the first difference.
LEMMA CheckRestoredStep ==
  ASSUME IInv, NEW p \in Runs, NEW answer, CheckRestored(p, answer)
  PROVE  IInv'
<1>1. PICK r \in job[p].unread :
        \/ Become(p, [job[p] EXCEPT !.unread = {}]) /\ UNCHANGED <<disk, faults>>
        \/ /\ UNCHANGED faults \/ Happens("read_error")
           /\ End(p, "incomplete")
  BY DEF CheckRestored
<1>2. /\ job[p] # None /\ job[p].at = "undo" /\ UNCHANGED <<live, late, origin, disturbed>>
  BY DEF CheckRestored, At
<1>3. /\ job[p] \in Job /\ JobFits(job[p])
      /\ job[p].release # None => InstallOk(job[p], disk[p], origin[p], disturbed[p], live)
      /\ job[p].release = None => RestoreOk(job[p], disk[p], disturbed[p], live)
  BY <1>2, Running
<1>4. job[p].release = None
  BY <1>1, <1>2, <1>3 DEF InstallOk, Undoing
<1>5. Reached(p)
  BY <1>1, <1>2, Quiet, FaultsCount
<1>6. CASE Become(p, [job[p] EXCEPT !.unread = {}]) /\ UNCHANGED disk
  <2> DEFINE j == [job[p] EXCEPT !.unread = {}]
  <2>1. Become(p, j) /\ UNCHANGED disk
    BY <1>6
  <2>2. /\ j \in Job /\ j.at = "undo" /\ j.todo = job[p].todo
        /\ j.failures = job[p].failures /\ j.saved = job[p].saved
        /\ j.script = job[p].script /\ j.release = job[p].release
        /\ j.outcome = job[p].outcome
    BY <1>2, <1>3 DEF Job
  <2> HIDE DEF j
  <2>3. j.todo \subseteq All(job[p]) /\ j.failures \subseteq All(job[p]) \ j.todo
    BY <1>3, <2>2 DEF JobFits
  <2>4. PutBack(j, All(job[p]) \ (j.todo \cup j.failures), disturbed[p], live')
    BY <1>2, <1>3, <1>4, <2>2 DEF RestoreOk, PutBack
  <2> QED
    BY <1>2, <1>4, <1>5, <2>1, <2>2, <2>3, <2>4, UndoGoesOn
<1>7. CASE End(p, "incomplete")
  <2>1. Justified(p, "incomplete")
    BY <1>4 DEF Justified
  <2> QED
    BY <1>2, <1>5, <1>7, <2>1, EndsBy DEF Outcomes
<1> QED
  BY <1>1, <1>6, <1>7

\* Nothing is left to put back: what is said depends on whether anything failed.
LEMMA UndoneStep ==
  ASSUME IInv, NEW p \in Runs, Undone(p)
  PROVE  IInv'
<1>1. /\ job[p] # None /\ job[p].at = "undo" /\ job[p].todo = {}
      /\ UNCHANGED <<live, late, origin, disturbed, faults>>
  BY DEF Undone, At
<1>2. /\ job[p] \in Job /\ JobFits(job[p]) /\ Sound(job[p].script)
      /\ job[p].release # None => InstallOk(job[p], disk[p], origin[p], disturbed[p], live)
      /\ job[p].release = None => RestoreOk(job[p], disk[p], disturbed[p], live)
  BY <1>1, Running
<1> DEFINE outcome == IF Script(p).undo = "blind" THEN "failed"
                      ELSE IF job[p].failures # {} THEN "incomplete"
                      ELSE IF Restoring(p) THEN "restored" ELSE "rolled_back"
<1>3. Reached(p)
  BY <1>1, Quiet, FaultsCount
<1>4. End(p, outcome) /\ outcome \in Outcomes
  BY DEF Undone, Outcomes
<1>5. Justified(p, outcome)
  <2>1. CASE job[p].release = None
    <3>1. outcome = "restored" => job[p].failures = {}
      OBVIOUS
    <3>2. outcome \in {"failed", "incomplete", "restored"}
      BY <2>1 DEF Restoring
    <3> HIDE DEF outcome
    <3>3. outcome = "restored" => PutBack(job[p], All(job[p]), disturbed[p], live')
      BY <1>1, <1>2, <2>1, <3>1 DEF RestoreOk, PutBack
    <3> QED
      BY <2>1, <3>2, <3>3 DEF Justified
  <2>2. CASE job[p].release # None
    <3>1. outcome = "rolled_back" => job[p].failures = {} /\ job[p].script.undo # "blind"
      BY DEF Script
    <3>2. outcome \in {"failed", "incomplete", "rolled_back"}
      BY <2>2 DEF Restoring
    <3> HIDE DEF outcome
    <3>3. /\ Undoing(job[p], origin[p], disturbed[p], live)
          /\ AsFound(Routes \ All(job[p]), origin[p], disturbed[p], live)
          /\ Saved(job[p], disk[p], origin[p], disturbed[p])
      BY <1>1, <1>2, <2>2 DEF InstallOk
    <3>4. outcome = "rolled_back" => AsFound(Routes, origin[p], disturbed[p], live')
      BY <1>1, <1>2, <3>1, <3>3 DEF Undoing, AsFound, Sound
    <3> QED
      BY <1>1, <2>2, <3>2, <3>3, <3>4 DEF Justified, Saved
  <2> QED
    BY <2>1, <2>2
<1> HIDE DEF outcome
<1> QED
  BY <1>1, <1>3, <1>4, <1>5, EndsBy

\* A run that is killed leaves everything where it is.
LEMMA CrashStep ==
  ASSUME IInv, NEW p \in Runs, Crash(p)
  PROVE  IInv'
<1> DEFINE j == [job[p] EXCEPT !.at = "done", !.outcome = "killed", !.todo = {},
                               !.unread = {}, !.tried = {}]
<1>1. /\ job[p] # None /\ job[p].at # "done" /\ Become(p, j)
      /\ UNCHANGED <<live, late, disk, origin, disturbed>>
  BY DEF Crash
<1>2. /\ job[p] \in Job /\ JobFits(job[p])
      /\ job[p].release # None => InstallOk(job[p], disk[p], origin[p], disturbed[p], live)
  BY <1>1, Running
<1>3. Reached(p)
  BY <1>1, Quiet, FaultsCount DEF Crash
<1>4. /\ j \in Job /\ j.at = "done" /\ j.outcome = "killed" /\ j.todo = {}
      /\ j.script = job[p].script /\ j.release = job[p].release
      /\ j.saved = job[p].saved /\ j.failures = job[p].failures
  BY <1>2 DEF Job, Outcomes
<1> HIDE DEF j
<1>5. Snapshotted(p) /\ disk'[p] = disk[p]
  BY <1>1, DiskStays
<1>6. Justified(p, "killed")
  BY <1>1, <1>2 DEF Justified, InstallOk, DiskOk
<1>7. "killed" \in Outcomes
  BY DEF Outcomes
<1> QED
  BY <1>1, <1>3, <1>4, <1>5, <1>6, <1>7, Ends

\* A write that was taken for failed: whoever looks, another has written.
LEMMA ApplyLateStep ==
  ASSUME IInv, ApplyLate
  PROVE  IInv'
<1>1. PICK v \in late :
        /\ live' = [live EXCEPT ![v[1]] = v[2]]
        /\ late' = late \ {v}
        /\ disturbed' = [q \in Runs |->
             IF job[q] = None THEN disturbed[q] ELSE disturbed[q] \cup {v[1]}]
        /\ UNCHANGED <<job, disk, origin, faults>>
  BY DEF ApplyLate
<1>2. Types
  BY DEF IInv
<1>3. v[1] \in Routes /\ v[2] \in Contents
  BY <1>2 DEF Types
<1>4. /\ live' \in [Routes -> Contents] /\ late' \subseteq Routes \X Contents
      /\ disturbed' \in [Runs -> SUBSET Routes]
      /\ \A x \in Routes \ {v[1]} : live'[x] = live[x]
  BY <1>1, <1>2, <1>3 DEF Types
<1>5. Types'
  BY <1>1, <1>2, <1>4 DEF Types
<1>6. \A p \in Runs : RunOk(p)'
  <2> SUFFICES ASSUME NEW p \in Runs
               PROVE  RunOk(p)'
    OBVIOUS
  <2>1. CASE job[p] = None
    BY <1>1, <2>1 DEF IInv, RunOk
  <2>2. CASE job[p] # None
    <3>1. Ok(job[p], disk[p], origin[p], disturbed[p], live)
      BY <2>2 DEF IInv, RunOk
    <3>2. disturbed'[p] = disturbed[p] \cup {v[1]}
      BY <1>1, <2>2
    <3>3. \A r \in Routes \ disturbed'[p] : live'[r] = live[r]
      BY <1>4, <3>2
    <3>4. Ok(job[p], disk[p], origin[p], disturbed'[p], live')
      BY <3>1, <3>2, <3>3, OthersWrite
    <3> QED
      BY <1>1, <2>2, <3>4 DEF RunOk
  <2> QED
    BY <2>1, <2>2
<1> QED
  BY <1>5, <1>6 DEF IInv
\* Nothing has begun.
LEMMA InitIInv == Init => IInv
<1> SUFFICES ASSUME Init
             PROVE  IInv
  OBVIOUS
<1>1. Found \subseteq Contents
  BY FoundAssumption DEF Contents
<1>2. Types
  BY <1>1, FaultsAssumption DEF Init, Types
<1>3. \A p \in Runs : RunOk(p)
  BY DEF Init, RunOk
<1> QED
  BY <1>2, <1>3 DEF IInv

\* Every step keeps the invariant.
LEMMA NextIInv == IInv /\ [Next]_vars => IInv'
<1> SUFFICES ASSUME IInv, [Next]_vars
             PROVE  IInv'
  OBVIOUS
<1>1. CASE UNCHANGED vars
  BY <1>1 DEF vars, IInv, Types, RunOk
<1>2. ASSUME NEW p \in Runs, Step(p)
      PROVE  IInv'
  BY <1>2, SnapshotRouteStep, SnapshotFailsStep, SaveStep, LeaveStep, WrittenStep,
     UndoneStep, PutStep, ReadBackStep, RetireStep, ProbeStep, UndoRouteStep,
     CheckRestoredStep DEF Step
<1>3. ASSUME NEW p \in Runs, \E s \in Scripts, v \in Releases : Begin(p, s, v)
      PROVE  IInv'
  BY <1>3, BeginStep
<1>4. ASSUME NEW p \in Runs, \E q \in Runs : BeginRestore(p, q)
      PROVE  IInv'
  BY <1>4, BeginRestoreStep
<1> QED
  BY <1>1, <1>2, <1>3, <1>4, CrashStep, ApplyLateStep DEF Next

\* The invariant holds throughout.
THEOREM Invariance == Spec => []IInv
BY InitIInv, NextIInv, PTL DEF Spec

\* Jobs, snapshots and routes keep their types, and a run has an outcome exactly
\* when it is over.
THEOREM TypeCorrect == Spec => []TypeOK
<1>1. ASSUME IInv
      PROVE  TypeOK
  <2>1. \A p \in Runs : job[p] # None => JobFits(job[p])
    BY <1>1, Running
  <2> QED
    BY <1>1, <2>1 DEF IInv, Types, TypeOK, JobFits
<1> QED
  BY <1>1, Invariance, PTL

\* A run that says its routes are installed is right, whichever faults it met and
\* however the other runs were interleaved with it.
THEOREM InstallationsAreServed == Spec => []InstalledIsServed
<1>1. ASSUME IInv
      PROVE  InstalledIsServed
  <2> SUFFICES ASSUME NEW p \in Runs, Ended(p, {"installed"}), Script(p).compares
               PROVE  /\ \A r \in Undisturbed(p, Installed) : live[r] = job[p].release
                      /\ \A r \in Undisturbed(p, Managed(Script(p)) \ Installed) :
                           live[r] = None
    BY DEF InstalledIsServed
  <2>1. job[p] # None /\ job[p].outcome = "installed" /\ "installed" # None
    BY NothingAssumption DEF Ended, Outcomes
  <2>2. /\ job[p] \in Job /\ JobFits(job[p]) /\ Sound(job[p].script)
        /\ job[p].release # None => InstallOk(job[p], disk[p], origin[p], disturbed[p], live)
        /\ job[p].release = None => RestoreOk(job[p], disk[p], disturbed[p], live)
    BY <1>1, <2>1, Running
  <2>3. Claimed(job[p], disturbed[p], live)
    BY <2>1, <2>2 DEF InstallOk, RestoreOk, JobFits, Ending
  <2>4. Managed(Script(p)) \ Installed = IF job[p].script.retires THEN Retired ELSE {}
    BY <2>2, RoutesAssumption DEF Managed, Script, Installed, Sound
  <2> QED
    BY <2>3, <2>4 DEF Claimed, Sent, Gone, Undisturbed, Script
<1> QED
  BY <1>1, Invariance, PTL

\* A run that gives up and does not say that its undo is incomplete leaves every
\* route as it found it; a --restore that says it is done has put everything back.
THEOREM FailuresLeaveAsFound == Spec => []FailureLeavesAsFound
<1>1. ASSUME IInv
      PROVE  FailureLeavesAsFound
  <2> SUFFICES ASSUME NEW p \in Runs
               PROVE  /\ Ended(p, {"refused", "rolled_back"}) =>
                           \A r \in Undisturbed(p, Routes) : live[r] = origin[p][r]
                      /\ Ended(p, {"restored"}) =>
                           \A r \in Undisturbed(p, DOMAIN job[p].saved) :
                             live[r] = job[p].saved[r]
    BY DEF FailureLeavesAsFound
  <2>1. None \notin {"refused", "rolled_back", "restored"}
    BY NothingAssumption DEF Outcomes
  <2>2. job[p] # None =>
          /\ job[p] \in Job /\ JobFits(job[p])
          /\ job[p].release # None =>
               InstallOk(job[p], disk[p], origin[p], disturbed[p], live)
          /\ job[p].release = None => RestoreOk(job[p], disk[p], disturbed[p], live)
    BY <1>1, Running
  <2>3. ASSUME Ended(p, {"refused", "rolled_back"})
        PROVE  \A r \in Undisturbed(p, Routes) : live[r] = origin[p][r]
    BY <2>1, <2>2, <2>3
       DEF Ended, InstallOk, RestoreOk, JobFits, Ending, AsFound, Undisturbed
  <2>4. ASSUME Ended(p, {"restored"})
        PROVE  \A r \in Undisturbed(p, DOMAIN job[p].saved) : live[r] = job[p].saved[r]
    BY <2>1, <2>2, <2>4
       DEF Ended, InstallOk, RestoreOk, JobFits, Ending, PutBack, Undisturbed
  <2> QED
    BY <2>3, <2>4
<1> QED
  BY <1>1, Invariance, PTL

\* Wherever a run may be killed, what it has changed is on disk as it was before.
THEOREM ChangesCanBeUndone == Spec => []ChangesAreOnDisk
<1>1. ASSUME IInv
      PROVE  ChangesAreOnDisk
  <2> SUFFICES ASSUME NEW p \in Runs, job[p] # None, Script(p).keeps, ~Restoring(p),
                      NEW r \in Undisturbed(p, Routes), live[r] # origin[p][r]
               PROVE  /\ disk[p] # None
                      /\ r \in DOMAIN disk[p]
                      /\ disk[p][r] = origin[p][r]
    BY DEF ChangesAreOnDisk
  <2>1. InstallOk(job[p], disk[p], origin[p], disturbed[p], live)
    BY <1>1, Running DEF Restoring
  <2> QED
    BY <2>1 DEF InstallOk, DiskOk, AsFound, Undisturbed, Script
<1> QED
  BY <1>1, Invariance, PTL

(***************************************************************************)
(* The namespace.  The script that retires routes restores them in the     *)
(* order of their identifiers, and the superseded ones sort first.         *)
(***************************************************************************)

RetiredSortFirst == \A r \in Retired, i \in Installed : r < i

Bears(S, l) == \A r \in S : l[r] # None

\* A run that retires routes, found them all, and is left alone.
Supersedes(p) ==
  /\ job[p] # None /\ job[p].script.retires /\ job[p].release # None
  /\ disturbed[p] = {} /\ job[p].failures = {}
  /\ Bears(Retired, origin[p])

RetiredAreBack(p) == AsFound(Retired, origin[p], {}, live)

\* On the way back the new ones stay until the superseded ones are there again.
NamespaceOk(p) ==
  Supersedes(p) =>
    /\ job[p].at = "undo" =>
         RetiredAreBack(p) \/ (Installed \subseteq job[p].todo /\ Bears(Installed, live))
    /\ job[p].at = "done" => Bears(Retired, live) \/ Bears(Installed, live)

NInv == IInv /\ \A p \in Runs : NamespaceOk(p)

\* Before it undoes anything, a run has the superseded routes as found or the new
\* ones served.
LEMMA OneSetIsThere ==
  ASSUME IInv, NEW p \in Runs, Supersedes(p), job[p].at \notin {"undo", "done"}
  PROVE  /\ job[p].at \in {"snapshot", "install"} => RetiredAreBack(p)
         /\ job[p].at \in {"retire", "probe"} => Bears(Installed, live)
<1>1. /\ job[p] # None /\ job[p] \in Job /\ Sound(job[p].script) /\ job[p].release # None
      /\ InstallOk(job[p], disk[p], origin[p], disturbed[p], live)
  BY Running DEF Supersedes
<1>2. disturbed[p] = {} /\ job[p].script.compares
  BY <1>1 DEF Supersedes, Sound
<1>3. job[p].release \in Releases
  BY <1>1 DEF Job
<1>4. Retired \subseteq Routes /\ Installed = Routes \ Retired
  BY <1>1, Managing
<1>5. CASE job[p].at = "snapshot"
  BY <1>1, <1>2, <1>4, <1>5 DEF InstallOk, Saving, RetiredAreBack, AsFound
<1>6. CASE job[p].at = "install"
  BY <1>1, <1>2, <1>4, <1>6 DEF InstallOk, Putting, RetiredAreBack, AsFound
<1>7. CASE job[p].at \in {"retire", "probe"}
  <2>1. Sent(job[p], Installed, {}, live)
    BY <1>1, <1>2, <1>7 DEF InstallOk, Retiring, Probing, Claimed
  <2> QED
    BY <1>3, <1>7, <2>1, NoneAssumption DEF Sent, Bears
<1> QED
  BY <1>5, <1>6, <1>7

\* At every step one set or the other is complete.
LEMMA AlwaysCovered ==
  ASSUME NInv, NEW p \in Runs, Supersedes(p)
  PROVE  Bears(Retired, live) \/ Bears(Installed, live)
<1>1. RetiredAreBack(p) => Bears(Retired, live)
  BY DEF RetiredAreBack, AsFound, Bears, Supersedes
<1>2. job[p] \in Job
  BY Running DEF NInv, Supersedes
<1>3. CASE job[p].at \in {"undo", "done"}
  BY <1>1, <1>3 DEF NInv, NamespaceOk
<1>4. CASE job[p].at \notin {"undo", "done"}
  <2>1. job[p].at \in {"snapshot", "install", "retire", "probe"}
    BY <1>2, <1>4 DEF Job
  <2> QED
    BY <1>1, <1>4, <2>1, OneSetIsThere DEF NInv
<1> QED
  BY <1>3, <1>4

\* The job of a run after a step that changes no more than its progress.
Continues(p) ==
  /\ job'[p] # None /\ job'[p].script = job[p].script /\ job'[p].release = job[p].release
  /\ job[p].failures \subseteq job'[p].failures
  /\ origin'[p] = origin[p] /\ disturbed'[p] = disturbed[p]

\* It supersedes routes after the step only if it did before.
LEMMA SupersededBefore ==
  ASSUME NEW p \in Runs, job[p] # None, Continues(p), Supersedes(p)'
  PROVE  Supersedes(p)
BY DEF Continues, Supersedes

\* A run that is over by its last step leaves the routes as they are.
LEMMA EndKeepsNamespace ==
  ASSUME NInv, NEW p \in Runs, job[p] # None, Continues(p), job'[p].at = "done",
         live' = live
  PROVE  NamespaceOk(p)'
<1> SUFFICES ASSUME Supersedes(p)'
             PROVE  NamespaceOk(p)'
  BY DEF NamespaceOk
<1>1. Bears(Retired, live) \/ Bears(Installed, live)
  BY SupersededBefore, AlwaysCovered
<1> QED
  BY <1>1 DEF NamespaceOk, Bears

\* A run that is neither over nor undoing says nothing new.
LEMMA ForwardKeepsNamespace ==
  ASSUME NEW p \in Runs, job'[p].at \notin {"undo", "done"}
  PROVE  NamespaceOk(p)'
BY DEF NamespaceOk

\* An answer that ends the installation, once one set is known to be complete.
LEMMA FailKeepsNamespace ==
  ASSUME NInv, NEW p \in Runs, job[p] # None, job[p].release # None,
         NEW phase, NEW answer, NEW tried,
         Fail(p, phase, answer, tried) \/ StartUndo(p, tried),
         tried \subseteq Routes,
         origin' = origin, disturbed'[p] = disturbed[p],
         Supersedes(p) => \/ AsFound(Retired, origin[p], {}, live')
                          \/ Bears(Installed, live')
  PROVE  NamespaceOk(p)'
<1>1. job[p] \in Job /\ JobFits(job[p]) /\ Sound(job[p].script) /\ Types
  BY Running DEF NInv, IInv
<1>2. \/ job' = [job EXCEPT ![p] = [job[p] EXCEPT !.at = "undo", !.unread = {},
             !.tried = tried, !.todo = IF job[p].script.undo = "attempted" THEN tried
                                       ELSE DOMAIN job[p].saved]]
      \/ \E outcome \in {"rolled_back", "failed"} :
           job' = [job EXCEPT ![p] = [job[p] EXCEPT !.at = "done", !.outcome = outcome,
                                        !.todo = {}, !.unread = {}, !.tried = {}]]
  BY DEF Fail, StartUndo, End, Become, Script
<1>3. CASE job' = [job EXCEPT ![p] = [job[p] EXCEPT !.at = "undo", !.unread = {},
             !.tried = tried, !.todo = IF job[p].script.undo = "attempted" THEN tried
                                       ELSE DOMAIN job[p].saved]]
  <2> DEFINE todo == IF job[p].script.undo = "attempted" THEN tried ELSE DOMAIN job[p].saved
             j == [job[p] EXCEPT !.at = "undo", !.unread = {}, !.tried = tried,
                                 !.todo = todo]
  <2>1. job'[p] = j
    BY <1>1, <1>3 DEF Types
  <2>2. Installed \subseteq All(job[p]) /\ All(job[p]) \subseteq Routes
    BY <1>1, Managing
  <2>3. todo \subseteq Routes /\ (job[p].script.undo = "all" => Installed \subseteq todo)
    BY <1>1, <2>2 DEF JobFits
  <2> HIDE DEF todo
  <2>4. /\ j \in Job /\ j.at = "undo" /\ j.todo = todo /\ j.script = job[p].script
        /\ j.release = job[p].release /\ j.failures = job[p].failures
    BY <1>1, <2>3 DEF Job
  <2> HIDE DEF j
  <2>5. j # None
    BY <2>4, NothingAssumption
  <2>6. Continues(p)
    BY <2>1, <2>4, <2>5 DEF Continues
  <2> SUFFICES ASSUME Supersedes(p)'
               PROVE  NamespaceOk(p)'
    BY DEF NamespaceOk
  <2>7. Supersedes(p)
    BY <2>6, SupersededBefore
  <2>8. job[p].script.undo = "all"
    BY <1>1, <2>7 DEF Supersedes, Sound
  <2> QED
    BY <2>1, <2>3, <2>4, <2>7, <2>8 DEF NamespaceOk, RetiredAreBack
<1>4. CASE \E outcome \in {"rolled_back", "failed"} :
             job' = [job EXCEPT ![p] = [job[p] EXCEPT !.at = "done", !.outcome = outcome,
                                          !.todo = {}, !.unread = {}, !.tried = {}]]
  <2>1. PICK outcome \in {"rolled_back", "failed"} :
          job' = [job EXCEPT ![p] = [job[p] EXCEPT !.at = "done", !.outcome = outcome,
                                       !.todo = {}, !.unread = {}, !.tried = {}]]
    BY <1>4
  <2> DEFINE j == [job[p] EXCEPT !.at = "done", !.outcome = outcome, !.todo = {},
                                 !.unread = {}, !.tried = {}]
  <2>2. job'[p] = j
    BY <1>1, <2>1 DEF Types
  <2>3. /\ j \in Job /\ j.at = "done" /\ j.script = job[p].script
        /\ j.release = job[p].release /\ j.failures = job[p].failures
    BY <1>1 DEF Job, Outcomes
  <2> HIDE DEF j
  <2>4. Continues(p)
    BY <2>2, <2>3, NothingAssumption DEF Continues
  <2> SUFFICES ASSUME Supersedes(p)'
               PROVE  NamespaceOk(p)'
    BY DEF NamespaceOk
  <2>5. Supersedes(p)
    BY <2>4, SupersededBefore
  <2>6. Bears(Retired, live') \/ Bears(Installed, live')
    BY <2>5 DEF Supersedes, AsFound, Bears
  <2> QED
    BY <2>2, <2>3, <2>6 DEF NamespaceOk, Bears
<1> QED
  BY <1>2, <1>3, <1>4

\* A write of p to one route.
LEMMA WritesOne ==
  ASSUME NInv, NEW p \in Runs, NEW r \in Routes, NEW v \in Contents, NEW answer,
         Write(p, r, v, answer) \/ WriteAltered(p, r, answer), UNCHANGED origin
  PROVE  /\ disturbed'[p] = disturbed[p]
         /\ \A x \in Routes \ {r} : live'[x] = live[x]
BY Writing, WritingAltered DEF NInv, Reached

\* Only installed routes are written while the superseded ones are there.
LEMMA PutKeepsNamespace ==
  ASSUME NInv, NEW p \in Runs, NEW answer, Put(p, answer)
  PROVE  NamespaceOk(p)'
<1>1. PICK r \in Writes(p) :
        /\ Write(p, r, job[p].release, answer) \/ WriteAltered(p, r, answer)
        /\ IF answer = "ok"
           THEN /\ Become(p, [job[p] EXCEPT !.todo = @ \ {r}, !.unread = @ \cup {r},
                                            !.tried = @ \cup {r}])
                /\ UNCHANGED disk
           ELSE Fail(p, "write", answer, job[p].tried \cup {r})
  BY DEF Put
<1>2. job[p] # None /\ job[p].at = "install" /\ UNCHANGED origin /\ IInv /\ Types
  BY DEF Put, At, NInv, IInv
<1>3. /\ job[p] \in Job /\ job[p].release # None
      /\ InstallOk(job[p], disk[p], origin[p], disturbed[p], live)
  BY <1>2, Running
<1>4. Putting(job[p], origin[p], disturbed[p], live)
  BY <1>2, <1>3 DEF InstallOk
<1>5. /\ r \in Installed /\ r \in Routes /\ r \notin Retired /\ Retired \subseteq Routes
      /\ job[p].release \in Contents
  BY <1>3, <1>4, Managing DEF Writes, Putting, Job, Contents
<1>6. /\ disturbed'[p] = disturbed[p]
      /\ \A x \in Routes \ {r} : live'[x] = live[x]
  BY <1>1, <1>2, <1>5, WritesOne
<1>7. CASE answer = "ok"
  <2>1. job'[p].at = "install"
    BY <1>1, <1>2, <1>3, <1>7 DEF Become, Types, Job
  <2> QED
    BY <2>1, ForwardKeepsNamespace
<1>8. CASE answer # "ok"
  <2>1. Supersedes(p) => AsFound(Retired, origin[p], {}, live')
    BY <1>2, <1>5, <1>6, OneSetIsThere DEF RetiredAreBack, AsFound
  <2>2. job[p].tried \cup {r} \subseteq Routes
    BY <1>3, <1>5 DEF Job
  <2>3. Fail(p, "write", answer, job[p].tried \cup {r})
    BY <1>1, <1>8
  <2> QED
    BY <1>2, <1>3, <1>6, <2>1, <2>2, <2>3, FailKeepsNamespace
<1> QED
  BY <1>7, <1>8

\* The superseded ones go while the new ones are served.
LEMMA RetireKeepsNamespace ==
  ASSUME NInv, NEW p \in Runs, NEW answer, Retire(p, answer)
  PROVE  NamespaceOk(p)'
<1>1. PICK r \in job[p].todo :
        /\ Write(p, r, None, answer)
        /\ IF answer = "ok"
           THEN /\ Become(p, [job[p] EXCEPT !.todo = @ \ {r},
                                !.at = IF job[p].todo = {r} THEN "probe" ELSE "retire"])
                /\ UNCHANGED disk
           ELSE Fail(p, "retire", answer, job[p].tried)
  BY DEF Retire
<1>2. job[p] # None /\ job[p].at = "retire" /\ UNCHANGED origin /\ IInv /\ Types
  BY DEF Retire, At, NInv, IInv
<1>3. /\ job[p] \in Job /\ job[p].release # None
      /\ InstallOk(job[p], disk[p], origin[p], disturbed[p], live)
  BY <1>2, Running
<1>4. Retiring(job[p], disturbed[p], live)
  BY <1>2, <1>3 DEF InstallOk
<1>5. r \in Routes /\ r \notin Installed /\ Installed \subseteq Routes
  BY <1>3, <1>4, Managing DEF Retiring
<1>6. /\ disturbed'[p] = disturbed[p]
      /\ \A x \in Routes \ {r} : live'[x] = live[x]
  BY <1>1, <1>2, <1>5, WritesOne DEF Contents
<1>7. CASE answer = "ok"
  <2> DEFINE at == IF job[p].todo = {r} THEN "probe" ELSE "retire"
  <2>1. at \in {"probe", "retire"} /\ Become(p, [job[p] EXCEPT !.todo = @ \ {r}, !.at = at])
    BY <1>1, <1>7
  <2> HIDE DEF at
  <2>2. job'[p].at = at
    BY <1>2, <1>3, <2>1 DEF Become, Types, Job
  <2> QED
    BY <2>1, <2>2, ForwardKeepsNamespace
<1>8. CASE answer # "ok"
  <2>1. Supersedes(p) => Bears(Installed, live')
    BY <1>2, <1>5, <1>6, OneSetIsThere DEF Bears
  <2>2. job[p].tried \subseteq Routes
    BY <1>3 DEF Job
  <2>3. Fail(p, "retire", answer, job[p].tried)
    BY <1>1, <1>8
  <2> QED
    BY <1>2, <1>3, <1>6, <2>1, <2>2, <2>3, FailKeepsNamespace
<1> QED
  BY <1>7, <1>8

\* The superseded ones are put back before a new one is taken away.
LEMMA UndoKeepsNamespace ==
  ASSUME RetiredSortFirst, NInv, NEW p \in Runs, NEW answer, UndoRoute(p, answer)
  PROVE  NamespaceOk(p)'
<1>1. PICK r \in NextUndone(p) :
        /\ Write(p, r, job[p].saved[r], answer)
        /\ Become(p, [job[p] EXCEPT
             !.todo = @ \ {r},
             !.unread = IF StopsAtFailure(p) THEN {r} ELSE {},
             !.failures = IF answer = "ok" THEN @ ELSE @ \cup {r}])
  BY DEF UndoRoute
<1>2. job[p] # None /\ job[p].at = "undo" /\ UNCHANGED <<disk, origin>> /\ IInv /\ Types
  BY DEF UndoRoute, At, NInv, IInv
<1>3. /\ job[p] \in Job /\ JobFits(job[p]) /\ Sound(job[p].script)
      /\ job[p].release # None => InstallOk(job[p], disk[p], origin[p], disturbed[p], live)
  BY <1>2, Running
<1>4. r \in job[p].todo
  BY DEF NextUndone
<1>5. /\ r \in All(job[p]) /\ r \in Routes /\ DOMAIN job[p].saved = All(job[p])
      /\ Retired \subseteq Routes /\ Installed = Routes \ Retired
  BY <1>3, <1>4, Managing DEF JobFits
<1>6. job[p].saved[r] \in Contents
  BY <1>3, <1>5, Entries DEF Job
<1>7. /\ disturbed'[p] = disturbed[p]
      /\ \A x \in Routes \ {r} : live'[x] = live[x]
      /\ answer = "ok" => live'[r] = job[p].saved[r]
  BY <1>1, <1>2, <1>5, <1>6, Writing, WritesOne
<1> DEFINE unread == IF StopsAtFailure(p) THEN {r} ELSE {}
           failures == IF answer = "ok" THEN job[p].failures ELSE job[p].failures \cup {r}
           j == [job[p] EXCEPT !.todo = @ \ {r}, !.unread = unread, !.failures = failures]
<1>8. job'[p] = j
  BY <1>1, <1>2 DEF Become, Types
<1>9. /\ unread \subseteq Routes
      /\ failures \subseteq Routes /\ job[p].failures \subseteq failures
      /\ failures = {} => answer = "ok"
  BY <1>3, <1>5 DEF Job
<1> HIDE DEF unread, failures
<1>10. /\ j \in Job /\ j.at = "undo" /\ j.todo = job[p].todo \ {r}
       /\ j.failures = failures /\ j.script = job[p].script /\ j.release = job[p].release
  BY <1>2, <1>3, <1>9 DEF Job
<1> HIDE DEF j
<1>11. Continues(p)
  BY <1>2, <1>7, <1>8, <1>9, <1>10, NothingAssumption DEF Continues
<1> SUFFICES ASSUME Supersedes(p)'
             PROVE  NamespaceOk(p)'
  BY DEF NamespaceOk
<1>12. Supersedes(p) /\ answer = "ok"
  BY <1>2, <1>8, <1>9, <1>10, <1>11, SupersededBefore DEF Supersedes
<1>13. /\ disturbed[p] = {} /\ job[p].failures = {} /\ job[p].release # None
       /\ job[p].script.undo = "all" /\ ~job[p].script.tolerant
       /\ All(job[p]) = Routes
  BY <1>3, <1>12, Managing DEF Supersedes, Sound
<1>14. live'[r] = origin[p][r]
  BY <1>2, <1>3, <1>5, <1>7, <1>12, <1>13 DEF InstallOk, Saved, Noted
<1>15. \A other \in job[p].todo : r <= other
  BY <1>13 DEF NextUndone, Script, StopsAtFailure, Restoring
<1>16. CASE RetiredAreBack(p)
  <2>1. AsFound(Retired, origin[p], {}, live')
    BY <1>5, <1>7, <1>14, <1>16 DEF RetiredAreBack, AsFound
  <2> QED
    BY <1>2, <1>8, <1>10, <2>1 DEF NamespaceOk, RetiredAreBack
<1>17. CASE /\ ~RetiredAreBack(p)
            /\ Installed \subseteq job[p].todo /\ Bears(Installed, live)
  <2>1. Undoing(job[p], origin[p], disturbed[p], live)
    BY <1>2, <1>3, <1>13 DEF InstallOk
  <2>2. PICK x \in Retired : live[x] # origin[p][x]
    BY <1>17 DEF RetiredAreBack, AsFound
  <2>3. x \in job[p].todo
    BY <1>5, <1>13, <2>1, <2>2 DEF Undoing, AsFound
  <2>4. r \in Retired
    <3> SUFFICES ASSUME r \in Installed
                 PROVE  FALSE
      BY <1>5
    <3>1. x < r /\ r <= x
      BY <1>15, <2>2, <2>3 DEF RetiredSortFirst
    <3>2. x \in Nat /\ r \in Nat
      BY <1>5, <2>2, RoutesAssumption
    <3> QED
      BY <3>1, <3>2
  <2>5. Installed \subseteq j.todo
    BY <1>5, <1>10, <1>17, <2>4
  <2>6. Bears(Installed, live')
    BY <1>5, <1>7, <1>17, <2>4 DEF Bears
  <2> QED
    BY <1>8, <1>10, <2>5, <2>6 DEF NamespaceOk
<1> QED
  BY <1>2, <1>12, <1>16, <1>17 DEF NInv, NamespaceOk

\* The other steps of a run write nothing.
LEMMA QuietKeepsNamespace ==
  ASSUME NInv, NEW p \in Runs,
         \/ SnapshotRoute(p) \/ SnapshotFails(p) \/ Save(p) \/ Leave(p) \/ Written(p)
         \/ Undone(p) \/ Crash(p)
         \/ \E answer \in Answers :
              ReadBack(p, answer) \/ Probe(p, answer) \/ CheckRestored(p, answer)
  PROVE  NamespaceOk(p)'
<1>1. /\ job[p] # None /\ IInv /\ Types
      /\ UNCHANGED <<live, origin, disturbed>>
  BY DEF NInv, IInv, SnapshotRoute, SnapshotFails, Save, Leave, Written, Undone, Crash,
     ReadBack, Probe, CheckRestored, At
<1>2. /\ job[p] \in Job /\ JobFits(job[p])
      /\ job[p].at \in {"snapshot", "install", "retire", "probe"} => job[p].release # None
      /\ job[p].release # None => InstallOk(job[p], disk[p], origin[p], disturbed[p], live)
  BY <1>1, Running
<1>3. ASSUME NEW outcome \in Outcomes, End(p, outcome)
      PROVE  NamespaceOk(p)'
  <2> DEFINE j == [job[p] EXCEPT !.at = "done", !.outcome = outcome, !.todo = {},
                                 !.unread = {}, !.tried = {}]
  <2>1. job'[p] = j
    BY <1>1, <1>3 DEF End, Become, Types
  <2>2. /\ j \in Job /\ j.at = "done" /\ j.script = job[p].script
        /\ j.release = job[p].release /\ j.failures = job[p].failures
    BY <1>2 DEF Job
  <2> HIDE DEF j
  <2>3. Continues(p)
    BY <1>1, <2>1, <2>2, NothingAssumption DEF Continues
  <2> QED
    BY <1>1, <2>1, <2>2, <2>3, EndKeepsNamespace
<1>4. ASSUME NEW phase, NEW answer, NEW tried, tried \subseteq Routes,
             job[p].at \in {"install", "retire", "probe"},
             Fail(p, phase, answer, tried) \/ StartUndo(p, tried)
      PROVE  NamespaceOk(p)'
  <2>1. Supersedes(p) =>
          AsFound(Retired, origin[p], {}, live') \/ Bears(Installed, live')
    BY <1>1, <1>4, OneSetIsThere DEF RetiredAreBack
  <2> QED
    BY <1>1, <1>2, <1>4, <2>1, FailKeepsNamespace
<1>5. CASE SnapshotRoute(p)
  <2>1. PICK r \in job[p].todo :
          Become(p, [job[p] EXCEPT !.todo = @ \ {r}, !.saved[r] = live[r]])
    BY <1>5 DEF SnapshotRoute
  <2>2. job'[p].at = "snapshot"
    BY <1>1, <1>2, <1>5, <2>1 DEF SnapshotRoute, At, Become, Types, Job
  <2> QED
    BY <2>2, ForwardKeepsNamespace
<1>6. CASE SnapshotFails(p)
  <2>1. CASE \E r \in job[p].todo : Become(p, [job[p] EXCEPT !.todo = @ \ {r}])
    <3>1. job'[p].at = "snapshot"
      BY <1>1, <1>2, <1>6, <2>1 DEF SnapshotFails, At, Become, Types, Job
    <3> QED
      BY <3>1, ForwardKeepsNamespace
  <2>2. CASE End(p, "refused")
    BY <1>3, <2>2 DEF Outcomes
  <2> QED
    BY <1>6, <2>1, <2>2 DEF SnapshotFails
<1>7. CASE Save(p)
  <2>1. CASE Become(p, [job[p] EXCEPT !.at = "install", !.todo = Installed])
    <3>1. job'[p].at = "install"
      BY <1>1, <1>2, <2>1 DEF Become, Types, Job
    <3> QED
      BY <3>1, ForwardKeepsNamespace
  <2>2. CASE Become(p, [job[p] EXCEPT !.at = "done", !.outcome = "refused"])
    <3> DEFINE j == [job[p] EXCEPT !.at = "done", !.outcome = "refused"]
    <3>1. job'[p] = j
      BY <1>1, <2>2 DEF Become, Types
    <3>2. /\ j \in Job /\ j.at = "done" /\ j.script = job[p].script
          /\ j.release = job[p].release /\ j.failures = job[p].failures
      BY <1>2 DEF Job, Outcomes
    <3> HIDE DEF j
    <3>3. Continues(p)
      BY <1>1, <3>1, <3>2, NothingAssumption DEF Continues
    <3> QED
      BY <1>1, <3>1, <3>2, <3>3, EndKeepsNamespace
  <2> QED
    BY <1>7, <2>1, <2>2 DEF Save
<1>8. CASE Leave(p)
  <2>1. PICK r \in Writes(p) :
          \/ StartUndo(p, {})
          \/ Become(p, [job[p] EXCEPT !.todo = @ \ {r}, !.unread = @ \cup {r}])
    BY <1>8 DEF Leave
  <2>2. job[p].at = "install"
    BY <1>8 DEF Leave, At
  <2>3. CASE Become(p, [job[p] EXCEPT !.todo = @ \ {r}, !.unread = @ \cup {r}])
    <3>1. job'[p].at = "install"
      BY <1>1, <1>2, <2>2, <2>3 DEF Become, Types, Job
    <3> QED
      BY <3>1, ForwardKeepsNamespace
  <2>4. CASE StartUndo(p, {})
    BY <1>4, <2>2, <2>4
  <2> QED
    BY <2>1, <2>3, <2>4
<1>9. CASE Written(p)
  <2>1. job'[p].at \in {"retire", "probe"}
    BY <1>1, <1>2, <1>9 DEF Written, Become, Types, Job
  <2> QED
    BY <2>1, ForwardKeepsNamespace
<1>10. CASE Undone(p)
  <2>1. \E outcome \in Outcomes : End(p, outcome)
    BY <1>10 DEF Undone, Outcomes
  <2> QED
    BY <1>3, <2>1
<1>11. CASE Crash(p)
  <2> DEFINE j == [job[p] EXCEPT !.at = "done", !.outcome = "killed", !.todo = {},
                                 !.unread = {}, !.tried = {}]
  <2>1. job'[p] = j
    BY <1>1, <1>11 DEF Crash, Become, Types
  <2>2. /\ j \in Job /\ j.at = "done" /\ j.script = job[p].script
        /\ j.release = job[p].release /\ j.failures = job[p].failures
    BY <1>2 DEF Job, Outcomes
  <2> HIDE DEF j
  <2>3. Continues(p)
    BY <1>1, <2>1, <2>2, NothingAssumption DEF Continues
  <2> QED
    BY <1>1, <2>1, <2>2, <2>3, EndKeepsNamespace
<1>12. ASSUME NEW answer \in Answers, ReadBack(p, answer)
       PROVE  NamespaceOk(p)'
  <2>1. job[p].at = "install" /\ job[p].tried \subseteq Routes
    BY <1>2, <1>12 DEF ReadBack, At, Job
  <2>2. PICK r \in job[p].unread :
          \/ Become(p, [job[p] EXCEPT !.unread = @ \ {r}])
          \/ Fail(p, "readback", answer, job[p].tried)
    BY <1>12 DEF ReadBack
  <2>3. CASE Become(p, [job[p] EXCEPT !.unread = @ \ {r}])
    <3>1. job'[p].at = "install"
      BY <1>1, <1>2, <2>1, <2>3 DEF Become, Types, Job
    <3> QED
      BY <3>1, ForwardKeepsNamespace
  <2>4. CASE Fail(p, "readback", answer, job[p].tried)
    BY <1>4, <2>1, <2>4
  <2> QED
    BY <2>2, <2>3, <2>4
<1>13. ASSUME NEW answer \in Answers, Probe(p, answer)
       PROVE  NamespaceOk(p)'
  <2>1. job[p].at = "probe" /\ job[p].tried \subseteq Routes
    BY <1>2, <1>13 DEF Probe, At, Job
  <2>2. End(p, "installed") \/ Fail(p, "probe", answer, job[p].tried)
    BY <1>13 DEF Probe
  <2>3. "installed" \in Outcomes
    BY DEF Outcomes
  <2> QED
    BY <1>3, <1>4, <2>1, <2>2, <2>3
<1>14. ASSUME NEW answer \in Answers, CheckRestored(p, answer)
       PROVE  NamespaceOk(p)'
  <2>1. job[p].at = "undo" /\ job[p].unread # {}
    BY <1>14 DEF CheckRestored, At
  <2>2. job[p].release = None
    BY <1>2, <2>1 DEF InstallOk, Undoing
  <2>3. CASE End(p, "incomplete")
    BY <1>3, <2>3 DEF Outcomes
  <2>4. CASE Become(p, [job[p] EXCEPT !.unread = {}])
    <3>1. job'[p].release = None
      BY <1>1, <1>2, <2>2, <2>4 DEF Become, Types, Job
    <3> QED
      BY <3>1 DEF NamespaceOk, Supersedes
  <2> QED
    BY <1>14, <2>3, <2>4 DEF CheckRestored
<1> QED
  BY <1>5, <1>6, <1>7, <1>8, <1>9, <1>10, <1>11, <1>12, <1>13, <1>14

\* What others do to a run that is still left alone, they do elsewhere.
LEMMA OthersKeepNamespace ==
  ASSUME NInv, NEW q \in Runs,
         job'[q] = job[q],
         job[q] # None =>
           /\ origin'[q] = origin[q]
           /\ disturbed[q] \subseteq disturbed'[q]
           /\ \A r \in Routes \ disturbed'[q] : live'[r] = live[r]
  PROVE  NamespaceOk(q)'
<1> SUFFICES ASSUME Supersedes(q)'
             PROVE  NamespaceOk(q)'
  BY DEF NamespaceOk
<1>1. Supersedes(q)
  BY DEF Supersedes
<1>2. Retired \subseteq Routes /\ Installed \subseteq Routes
  BY RoutesAssumption DEF Installed
<1>3. /\ \A r \in Retired : live'[r] = live[r]
      /\ \A r \in Installed : live'[r] = live[r]
  BY <1>1, <1>2 DEF Supersedes
<1>4. origin'[q] = origin[q]
  BY <1>1 DEF Supersedes
<1> QED
  BY <1>1, <1>3, <1>4 DEF NInv, NamespaceOk, RetiredAreBack, AsFound, Bears

\* A step of p changes the job of p only.
LEMMA OnlyOwnJob ==
  ASSUME NInv, NEW p \in Runs,
         \/ Step(p) \/ Crash(p)
         \/ \E s \in Scripts, v \in Releases : Begin(p, s, v)
         \/ \E q \in Runs : BeginRestore(p, q)
  PROVE  \A q \in Runs \ {p} : job'[q] = job[q]
<1>1. \A j : Become(p, j) => \A q \in Runs \ {p} : job'[q] = job[q]
  BY DEF Become, NInv, IInv, Types
<1>2. \A outcome : End(p, outcome) => \E j : Become(p, j)
  BY DEF End
<1>3. \A tried : StartUndo(p, tried) => \E j : Become(p, j)
  BY DEF StartUndo
<1>4. \A phase, answer, tried : Fail(p, phase, answer, tried) => \E j : Become(p, j)
  BY <1>2, <1>3 DEF Fail
<1>5. CASE SnapshotRoute(p) \/ SnapshotFails(p) \/ Save(p) \/ Leave(p) \/ Written(p)
  BY <1>1, <1>2, <1>3, <1>5 DEF SnapshotRoute, SnapshotFails, Save, Leave, Written
<1>6. CASE Undone(p) \/ Crash(p)
  BY <1>1, <1>2, <1>6 DEF Undone, Crash
<1>7. ASSUME NEW answer, \/ Put(p, answer) \/ ReadBack(p, answer) \/ Retire(p, answer)
                         \/ Probe(p, answer)
      PROVE  \E j : Become(p, j)
  BY <1>2, <1>4, <1>7 DEF Put, ReadBack, Retire, Probe
<1>8. ASSUME NEW answer, UndoRoute(p, answer) \/ CheckRestored(p, answer)
      PROVE  \E j : Become(p, j)
  BY <1>2, <1>8 DEF UndoRoute, CheckRestored
<1>9. CASE \E s \in Scripts, v \in Releases : Begin(p, s, v)
  BY <1>1, <1>9 DEF Begin
<1>10. CASE \E q \in Runs : BeginRestore(p, q)
  BY <1>1, <1>10 DEF BeginRestore
<1> QED
  BY <1>1, <1>5, <1>6, <1>7, <1>8, <1>9, <1>10 DEF Step

\* A step of p is seen by the others as a write of a route, or not at all.
LEMMA OthersSee ==
  ASSUME NInv, NEW p \in Runs,
         \/ Step(p) \/ Crash(p)
         \/ \E s \in Scripts, v \in Releases : Begin(p, s, v)
         \/ \E q \in Runs : BeginRestore(p, q)
  PROVE  \A q \in Runs \ {p} : NamespaceOk(q)'
<1> SUFFICES ASSUME NEW q \in Runs \ {p}
             PROVE  NamespaceOk(q)'
  OBVIOUS
<1>1. job'[q] = job[q] /\ q \in Runs /\ IInv /\ Types
  BY OnlyOwnJob DEF NInv, IInv
<1>2. ASSUME Reached(p)
      PROVE  NamespaceOk(q)'
  BY <1>1, <1>2, OthersKeepNamespace DEF Reached
<1>3. ASSUME UNCHANGED <<live, disturbed>>, origin'[q] = origin[q]
      PROVE  NamespaceOk(q)'
  BY <1>1, <1>3, OthersKeepNamespace
<1>4. ASSUME NEW answer, Put(p, answer)
      PROVE  NamespaceOk(q)'
  <2>1. PICK r \in Writes(p) :
          Write(p, r, job[p].release, answer) \/ WriteAltered(p, r, answer)
    BY <1>4 DEF Put
  <2>2. UNCHANGED origin /\ job[p] # None /\ job[p].at = "install"
    BY <1>4 DEF Put, At
  <2>3. job[p] \in Job /\ job[p].release # None
    BY <1>1, <2>2, Running
  <2>4. r \in Routes /\ job[p].release \in Contents
    BY <2>3 DEF Writes, Job, Contents
  <2> QED
    BY <1>1, <1>2, <2>1, <2>2, <2>4, Writing, WritingAltered
<1>5. ASSUME NEW answer, Retire(p, answer)
      PROVE  NamespaceOk(q)'
  <2>1. PICK r \in job[p].todo : Write(p, r, None, answer)
    BY <1>5 DEF Retire
  <2>2. UNCHANGED origin /\ job[p] # None
    BY <1>5 DEF Retire, At
  <2>3. r \in Routes /\ None \in Contents
    BY <1>1, <2>2, Running DEF Job, Contents
  <2> QED
    BY <1>1, <1>2, <2>1, <2>2, <2>3, Writing
<1>6. ASSUME NEW answer, UndoRoute(p, answer)
      PROVE  NamespaceOk(q)'
  <2>1. PICK r \in NextUndone(p) : Write(p, r, job[p].saved[r], answer)
    BY <1>6 DEF UndoRoute
  <2>2. UNCHANGED origin /\ job[p] # None
    BY <1>6 DEF UndoRoute, At
  <2>3. job[p] \in Job /\ JobFits(job[p]) /\ r \in job[p].todo
    BY <1>1, <2>2, Running DEF NextUndone
  <2>4. r \in Routes /\ r \in DOMAIN job[p].saved /\ job[p].saved \in Snapshot
    BY <2>3 DEF Job, JobFits
  <2>5. job[p].saved[r] \in Contents
    BY <2>4, Entries
  <2> QED
    BY <1>1, <1>2, <2>1, <2>2, <2>4, <2>5, Writing
<1>7. CASE \/ SnapshotRoute(p) \/ SnapshotFails(p) \/ Save(p) \/ Leave(p) \/ Written(p)
          \/ Undone(p) \/ Crash(p)
          \/ \E answer \in Answers :
               ReadBack(p, answer) \/ Probe(p, answer) \/ CheckRestored(p, answer)
  <2>1. UNCHANGED <<live, disturbed, origin>>
    BY <1>7 DEF SnapshotRoute, SnapshotFails, Save, Leave, Written, Undone, Crash,
       ReadBack, Probe, CheckRestored
  <2> QED
    BY <1>3, <2>1
<1>8. CASE \E s \in Scripts, v \in Releases : Begin(p, s, v)
  <2>1. UNCHANGED <<live, disturbed>> /\ origin'[q] = origin[q]
    BY <1>1, <1>8 DEF Begin, Types
  <2> QED
    BY <1>3, <2>1
<1>9. CASE \E x \in Runs : BeginRestore(p, x)
  <2>1. UNCHANGED <<live, disturbed>> /\ origin'[q] = origin[q]
    BY <1>1, <1>9 DEF BeginRestore, Types
  <2> QED
    BY <1>3, <2>1
<1> QED
  BY <1>4, <1>5, <1>6, <1>7, <1>8, <1>9 DEF Step

\* A run that begins, or restores, does not supersede anything yet.
LEMMA BeginKeepsNamespace ==
  ASSUME NInv, NEW p \in Runs,
         \/ \E s \in Scripts, v \in Releases : Begin(p, s, v)
         \/ \E q \in Runs : BeginRestore(p, q)
  PROVE  NamespaceOk(p)'
<1>1. Types
  BY DEF NInv, IInv
<1>2. CASE \E s \in Scripts, v \in Releases : Begin(p, s, v)
  <2>1. job'[p].at = "snapshot"
    BY <1>1, <1>2 DEF Begin, Become, Types
  <2> QED
    BY <2>1, ForwardKeepsNamespace
<1>3. CASE \E q \in Runs : BeginRestore(p, q)
  <2>1. job'[p].release = None
    BY <1>1, <1>3 DEF BeginRestore, Become, Types
  <2> QED
    BY <2>1 DEF NamespaceOk, Supersedes
<1> QED
  BY <1>2, <1>3

\* Every step keeps one set of routes or the other.
LEMMA NextNInv ==
  ASSUME RetiredSortFirst, NInv, [Next]_vars
  PROVE  NInv'
<1>1. IInv'
  BY NextIInv DEF NInv
<1>2. CASE UNCHANGED vars
  BY <1>1, <1>2 DEF vars, NInv, NamespaceOk, Supersedes, RetiredAreBack
<1>3. ASSUME NEW p \in Runs,
             \/ Step(p) \/ Crash(p)
             \/ \E s \in Scripts, v \in Releases : Begin(p, s, v)
             \/ \E q \in Runs : BeginRestore(p, q)
      PROVE  NInv'
  <2>1. \A q \in Runs \ {p} : NamespaceOk(q)'
    BY <1>3, OthersSee
  <2>2. NamespaceOk(p)'
    BY <1>3, QuietKeepsNamespace, PutKeepsNamespace, RetireKeepsNamespace,
       UndoKeepsNamespace, BeginKeepsNamespace DEF Step
  <2> QED
    BY <1>1, <2>1, <2>2 DEF NInv
<1>4. CASE ApplyLate
  <2>1. PICK v \in late :
          /\ live' = [live EXCEPT ![v[1]] = v[2]]
          /\ disturbed' = [q \in Runs |->
               IF job[q] = None THEN disturbed[q] ELSE disturbed[q] \cup {v[1]}]
          /\ UNCHANGED <<job, origin>>
    BY <1>4 DEF ApplyLate
  <2>2. \A q \in Runs : NamespaceOk(q)'
    <3> SUFFICES ASSUME NEW q \in Runs
                 PROVE  NamespaceOk(q)'
      OBVIOUS
    <3>1. Types
      BY DEF NInv, IInv
    <3>2. job[q] # None =>
            /\ disturbed'[q] = disturbed[q] \cup {v[1]}
            /\ \A r \in Routes \ disturbed'[q] : live'[r] = live[r]
      BY <2>1, <3>1 DEF Types
    <3> QED
      BY <2>1, <3>2, OthersKeepNamespace
  <2> QED
    BY <1>1, <2>2 DEF NInv
<1> QED
  BY <1>2, <1>3, <1>4 DEF Next

\* Superseded routes make way for the new ones, and the other way round, without a
\* moment at which neither set is complete, where the superseded ones sort first.
THEOREM NamespaceStaysCovered ==
  ASSUME RetiredSortFirst
  PROVE  Spec => []NamespaceCovered
<1>1. Init => NInv
  BY InitIInv DEF NInv, NamespaceOk, Supersedes, Init
<1>2. NInv /\ [Next]_vars => NInv'
  BY NextNInv
<1>3. NInv => NamespaceCovered
  <2> SUFFICES ASSUME NInv, NEW p \in Runs, Supersedes(p)
               PROVE  \/ \A r \in Retired : live[r] # None
                      \/ \A r \in Installed : live[r] # None
    BY DEF NamespaceCovered, Supersedes, Bears, Script, Restoring
  <2> QED
    BY AlwaysCovered DEF Bears
<1> QED
  BY <1>1, <1>2, <1>3, PTL DEF Spec
=============================================================================
