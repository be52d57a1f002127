------------------------------ MODULE Rollout ------------------------------
(***************************************************************************)
(* The scripts an operator runs on the host to replace a service and to    *)
(* put the replaced one back: rollout_r4a_runtime.py (UDP, then APISIX),   *)
(* rollout_authorization_retrofit.py (UDP), caddy/deploy.sh, the repair of *)
(* the managed-file routes and the installer of the policy token.          *)
(*                                                                         *)
(* A script is a table of commands.  A command succeeds, or fails because  *)
(* what it asks for is impossible, or fails by a fault of the host, before *)
(* or after it took effect.  The table says where a failure leads: to the  *)
(* next command, to the script that undoes the work, or to the end.  The   *)
(* script may die between two commands and the host may restart.           *)
(*                                                                         *)
(* A container is "old", the one in service when the change was prepared,  *)
(* or "new", its replacement.  It bears the name of the service (live),    *)
(* the name kept for a rollback (aside) or, for Caddy, that of the         *)
(* candidate (next).  One operator acts at a time.                         *)
(***************************************************************************)
EXTENDS Integers, Sequences

CONSTANTS
  Plans,                   \* the changes considered, each on a host of its own
  MaxFaults, MaxCrashes,   \* bounds of the model
  None

Services == {"udp", "apisix", "caddy"}
Containers == {"old", "new"}

ASSUME PlansAssumption == Plans \subseteq {"r4a", "retrofit", "caddy", "repair"}
ASSUME NoneAssumption ==
  /\ None \notin Services \cup Containers
  /\ None \notin {"staged", "restored", "already", "failed", "blocked",
                  "repaired", "undone", "installed"}

VARIABLES
  plan,      \* the change this host undergoes
  candidate, \* its files: none, a snapshot of the originals, or ready
  box,       \* what Docker holds for each service
  staged,    \* the services whose rollout file exists
  routes, record,     \* the managed-file routes, and the file that records them
  timer, token,       \* the renewal is enabled; the runtime directory has a token
  job,       \* the script that is running, or that ran last
  faults, crashes

vars == <<plan, candidate, box, staged, routes, record, timer, token, job, faults, crashes>>
change == <<plan, candidate>>
host == <<box, routes, record, timer, token>>

-----------------------------------------------------------------------------
(* The scripts. *)

Row(cmd, when, fail) == [cmd |-> cmd, when |-> when, fail |-> fail]

To(script) == <<script, 1>>
End == <<"end", 1>>

R4aApply ==
  LET Try(cmd, when) == Row(cmd, when, To("r4aUndo"))
  IN  << Try("noRestart", {}), Try("stop", {}), Try("setAside", {}),
         Try("create", {}), Try("connect", {"apisix"}), Try("start", {}),
         Try("isNew", {}), Try("ready", {"udp"}) >>

R4aUndoUnordered ==
  LET Must(cmd, when) == Row(cmd, when, End)
  IN  << Row("look", {}, <<"r4aUndo", 2>>), Must("bringBack", {}),
         Must("noRestart", {"clears"}), Must("stop", {"clears", "up"}),
         Must("remove", {"clears"}),
         Must("isOld", {}), Must("start", {"down"}), Must("restart", {}),
         Must("isUp", {}), Must("ready", {"udp"}) >>

R4aUndoNoPolicy ==
  LET Must(cmd, when) == Row(cmd, when, End)
  IN  << Row("look", {}, <<"r4aUndo", 5>>),
         Must("noRestart", {"clears"}), Must("stop", {"clears", "up"}),
         Must("remove", {"clears"}),
         Row("lookAside", {}, <<"r4aUndo", 7>>), Must("bringBack", {"brings"}),
         Must("isOld", {}), Must("start", {"down"}),
         Must("isUp", {}), Must("ready", {"udp"}) >>

R4aUndo ==
  LET Must(cmd, when) == Row(cmd, when, End)
  IN  << Row("look", {}, <<"r4aUndo", 5>>),
         Must("noRestart", {"clears"}), Must("stop", {"clears", "up"}),
         Must("remove", {"clears"}),
         Row("lookAside", {}, <<"r4aUndo", 7>>), Must("bringBack", {"brings"}),
         Must("isOld", {}), Must("start", {"down"}), Must("restart", {}),
         Must("isUp", {}), Must("ready", {"udp"}) >>

RetrofitApply ==
  LET Try(cmd) == Row(cmd, {}, To("retrofitUndo"))
  IN  << Try("noRestart"), Try("stop"), Try("setAside"), Try("create"), Try("start"),
         Try("ready"), Try("isNew") >>

\* Whatever fails while the name is cleared, the backup is renamed next.
RetrofitUndo ==
  LET Try(cmd, when) == Row(cmd, when, <<"retrofitUndo", 5>>)
      Must(cmd) == Row(cmd, {}, End)
  IN  << Try("lookAny", {}), Try("noRestart", {}), Try("stop", {"up"}),
         Try("remove", {}), Must("bringBack"), Must("restart"), Must("start"),
         Must("ready") >>

RetrofitBack ==
  LET Must(cmd, when) == Row(cmd, when, End)
  IN  << Must("lookNew", {}), Must("noRestart", {}), Must("stop", {"up"}),
         Must("remove", {}), Must("isAside", {}), Must("bringBack", {}),
         Must("restart", {}), Must("start", {}), Must("ready", {}) >>

CaddyApply ==
  LET Trap(cmd, when) == Row(cmd, when, To("caddyTrap"))
      Undo(cmd) == Row(cmd, {}, To("caddyUndo"))
  IN  << Row("dropNext", {}, <<"caddyApply", 2>>), Row("createNext", {}, End),
         Trap("connectNext", {}), Row("lookAny", {}, <<"caddyApply", 7>>),
         Trap("stop", {"clears"}), Trap("setAside", {"clears"}), Trap("promote", {}),
         Undo("start"), Undo("ready"), Undo("ready") >>

CaddyTrap == << Row("dropNext", {}, End) >>

CaddyUndo ==
  << Row("forceRemove", {}, <<"caddyUndo", 2>>), Row("lookAside", {"clears"}, End),
     Row("bringBack", {"brings"}, End), Row("start", {"brings"}, End) >>

\* A copy that cannot be written leaves the name of the pending file unbound:
\* the handler fails before it restores anything.
Repair ==
  LET Must(cmd) == Row(cmd, {}, End)
      Try(cmd) == Row(cmd, {}, To("repairUndo"))
  IN  << Must("readRoutes"), Must("install"), Must("read"), Must("keepCopy"),
         Try("writePending"), Try("replace") >>

RepairUndo == << Row("unlink", {}, End), Row("restoreRoutes", {}, End) >>

InstallToken ==
  LET Must(cmd) == Row(cmd, {}, End)
  IN  << Must("files"), Must("enable"), Must("renew"), Must("isToken") >>

Scripts ==
  [r4aApply      |-> R4aApply,      r4aUndo      |-> R4aUndo,
   retrofitApply |-> RetrofitApply, retrofitUndo |-> RetrofitUndo,
   retrofitBack  |-> RetrofitBack,  caddyApply   |-> CaddyApply,
   caddyTrap     |-> CaddyTrap,     caddyUndo    |-> CaddyUndo,
   repair        |-> Repair,        repairUndo   |-> RepairUndo,
   installToken  |-> InstallToken]

\* What a script says once its last command has succeeded.
Verdict ==
  [r4aApply      |-> "staged",   r4aUndo      |-> "restored",
   retrofitApply |-> "staged",   retrofitUndo |-> "failed",
   retrofitBack  |-> "restored", caddyApply   |-> "staged",
   caddyTrap     |-> "failed",   caddyUndo    |-> "failed",
   repair        |-> "repaired", repairUndo   |-> "undone",
   installToken  |-> "installed"]

-----------------------------------------------------------------------------
(* Running a script. *)

Here == box[job.service]
Now == Scripts[job.script][job.at]

Holds(condition) ==
  CASE condition = "clears" -> job.clears
    [] condition = "brings" -> job.brings
    [] condition = "up"     -> Here.live \in Here.up
    [] condition = "down"   -> Here.live \notin Here.up
    [] OTHER                -> job.service = condition

Doing(cmd) == /\ job.running /\ Now.cmd = cmd
              /\ \A condition \in Now.when : Holds(condition)

\* Something bears the rollback name of the service, and does after this step.
Kept(s) == s # None => box[s].aside # None
KeptNow(s) == s # None => box'[s].aside # None

Onward(j) ==
  IF j.at < Len(Scripts[j.script]) THEN [j EXCEPT !.at = @ + 1]
  ELSE [j EXCEPT !.running = FALSE, !.verdict = Verdict[j.script]]

Failing(byFault) ==
  LET to == Now.fail
  IN  IF to = End THEN [job EXCEPT !.running = FALSE, !.verdict = "blocked",
                                   !.clean = @ /\ ~byFault]
      ELSE IF to[1] = job.script THEN [job EXCEPT !.at = to[2], !.clean = @ /\ ~byFault]
      ELSE [job EXCEPT !.script = to[1], !.at = 1, !.clean = TRUE,
                       !.kept = KeptNow(job.service) /\ ~@]

Idle == [script |-> "end", service |-> None, at |-> 1, running |-> FALSE,
         clears |-> FALSE, brings |-> FALSE, clean |-> TRUE, kept |-> FALSE,
         verdict |-> None]

Begins(script, s) ==
  /\ ~job.running
  /\ job' = [Idle EXCEPT !.script = script, !.service = s, !.running = TRUE,
                         !.kept = Kept(s)]
  /\ UNCHANGED <<change, host, faults, crashes>>

Fault(effect) ==
  /\ faults < MaxFaults /\ faults' = faults + 1
  /\ effect
  /\ job' = Failing(TRUE)

\* One command: possible says whether the host can do it, effect what it does,
\* j what the script has learnt once it is done.
Attempt(cmd, possible, effect, j) ==
  /\ Doing(cmd)
  /\ \/ possible /\ effect /\ job' = Onward(j) /\ UNCHANGED faults
     \/ ~possible /\ UNCHANGED <<host, faults>> /\ job' = Failing(FALSE)
     \/ Fault(UNCHANGED host)
     \/ possible /\ Fault(effect)
  /\ UNCHANGED <<change, staged, crashes>>

Skip ==
  /\ job.running /\ \E condition \in Now.when : ~Holds(condition)
  /\ job' = Onward(job)
  /\ UNCHANGED <<change, host, staged, faults, crashes>>

-----------------------------------------------------------------------------
(* What Docker does for a command. *)

Becomes(b) ==
  /\ box' = [box EXCEPT ![job.service] = b]
  /\ UNCHANGED <<routes, record, timer, token>>

Docker(cmd, possible, b) == Attempt(cmd, possible, Becomes(b), job)
Check(cmd, found, j) == Attempt(cmd, found, UNCHANGED host, j)

Named == Here.live # None

NoRestart == Docker("noRestart", Named, [Here EXCEPT !.auto = @ \ {Here.live}])
Restart == Docker("restart", Named, [Here EXCEPT !.auto = @ \cup {Here.live}])
Stop == Docker("stop", Named, [Here EXCEPT !.up = @ \ {Here.live}])

\* The new UDP container mounts the runtime directory of the token.
Mountable(container) == job.service = "udp" /\ container = "new" => token

Start ==
  Docker("start", Named /\ Mountable(Here.live), [Here EXCEPT !.up = @ \cup {Here.live}])

SetAside ==
  Docker("setAside", Named /\ Here.aside = None,
         [Here EXCEPT !.aside = Here.live, !.live = None])
BringBack ==
  Docker("bringBack", ~Named /\ Here.aside # None,
         [Here EXCEPT !.live = Here.aside, !.aside = None])

Create ==
  Docker("create", ~Named /\ Mountable("new"),
         [Here EXCEPT !.live = "new", !.auto = @ \cup {"new"}])
Connect == Docker("connect", Named, Here)

Remove ==
  Docker("remove", Named /\ Here.live \notin Here.up,
         [Here EXCEPT !.live = None, !.auto = @ \ {Here.live}])
ForceRemove ==
  Docker("forceRemove", Named,
         [Here EXCEPT !.live = None, !.up = @ \ {Here.live}, !.auto = @ \ {Here.live}])

DropNext ==
  Docker("dropNext", Here.next # None, [Here EXCEPT !.next = None, !.auto = @ \ {"new"}])
CreateNext ==
  Docker("createNext", Here.next = None,
         [Here EXCEPT !.next = "new", !.auto = @ \cup {"new"}])
ConnectNext == Docker("connectNext", Here.next # None, Here)
Promote ==
  Docker("promote", Here.next # None /\ ~Named,
         [Here EXCEPT !.live = Here.next, !.next = None])

LookAny(cmd, clears) == Check(cmd, Named, [job EXCEPT !.clears = clears])

\* A read that fails is taken for a name that is absent.
LookR4aAny == LookAny("look", TRUE)
LookR4a == LookAny("look", Here.live # "old")

Look == LookAny("lookAny", TRUE)
LookAside ==
  Check("lookAside", Here.aside # None, [job EXCEPT !.clears = FALSE, !.brings = TRUE])

\* The rollback of the retrofit stops at once where the original bears the name.
LookNew ==
  \/ Doing("lookNew") /\ Here.live = "old"
     /\ job' = [job EXCEPT !.running = FALSE, !.verdict = "already"]
     /\ UNCHANGED <<change, host, staged, faults, crashes>>
  \/ Doing("lookNew") /\ Here.live # "old" /\ Check("lookNew", Named, job)

IsOld == Check("isOld", Here.live = "old", job)
IsAside == Check("isAside", Here.aside = "old", job)
IsUp == Check("isUp", Named /\ Here.live \in Here.up, job)
IsNew == Check("isNew", Here.live = "new" /\ Here.live \in Here.up, job)
Ready == Check("ready", Named /\ Here.live \in Here.up, job)

DockerCommand ==
  \/ NoRestart \/ Restart \/ Stop \/ Start \/ SetAside \/ BringBack \/ Create \/ Connect
  \/ Remove \/ ForceRemove \/ DropNext \/ CreateNext \/ ConnectNext \/ Promote
  \/ LookR4a \/ Look \/ LookAside \/ LookNew
  \/ IsOld \/ IsAside \/ IsUp \/ IsNew \/ Ready

-----------------------------------------------------------------------------
(* Routes, the file that records them, and the policy token. *)

RouteChange(r) == routes' = r /\ UNCHANGED <<box, record, timer, token>>

ReadRoutes == Check("readRoutes", routes = "old", job)

\* The installer puts the routes back when one of its writes or checks fails;
\* where that fails too, some routes are new.
InstallRoutes(cmd, r) ==
  \/ Attempt(cmd, TRUE, RouteChange(r), job)
  \/ /\ Doing(cmd) /\ Fault(RouteChange("some"))
     /\ UNCHANGED <<change, staged, crashes>>
Install == InstallRoutes("install", "new")
RestoreRoutes == InstallRoutes("restoreRoutes", "old")

ReadFiles == Check("read", TRUE, job)
KeepCopy == Check("keepCopy", TRUE, job)
WritePending == Check("writePending", TRUE, job)
Unlink == Check("unlink", TRUE, job)

ReplaceThenSync ==
  /\ Doing("replace")
  /\ record' = "new" /\ UNCHANGED <<box, routes, timer, token, change, staged, crashes>>
  /\ \/ job' = Onward(job) /\ UNCHANGED faults
     \/ Fault(TRUE)

\* os.replace either happens or raises.
Replace ==
  /\ Doing("replace")
  /\ \/ /\ record' = "new" /\ job' = Onward(job)
        /\ UNCHANGED <<box, routes, timer, token, faults>>
     \/ Fault(UNCHANGED host)
  /\ UNCHANGED <<change, staged, crashes>>

InstallFiles == Check("files", TRUE, job)
Enable ==
  Attempt("enable", TRUE, timer' = TRUE /\ UNCHANGED <<box, routes, record, token>>, job)

Refreshed == token' = TRUE /\ UNCHANGED <<box, routes, record, timer>>
Renew == Attempt("renew", TRUE, Refreshed, job)
IsToken == Check("isToken", token, job)

\* The timer runs the refresher, which leaves the token in place where it fails.
TimedRenewal ==
  /\ timer /\ ~token /\ Refreshed
  /\ UNCHANGED <<change, staged, job, faults, crashes>>

FileCommand ==
  \/ ReadRoutes \/ Install \/ RestoreRoutes \/ ReadFiles \/ KeepCopy \/ WritePending
  \/ Unlink \/ Replace \/ InstallFiles \/ Enable \/ Renew \/ IsToken

-----------------------------------------------------------------------------
(* What the operator starts, and what befalls the host. *)

InService(s, container) == box[s].live = container /\ container \in box[s].up

\* Preparing a change reads the containers and writes files beside.
Prepare(what) ==
  /\ ~job.running /\ candidate' = what
  /\ UNCHANGED <<plan, host, staged, job, faults, crashes>>

Snapshot == plan = "r4a" /\ candidate = "none" /\ Prepare("snapshot")

\* The candidate's files are made from the snapshot.
Complete == plan = "r4a" /\ candidate = "snapshot" /\ Prepare("ready")

PrepareRetrofit ==
  /\ plan = "retrofit" /\ candidate = "none"
  /\ InService("udp", "old") /\ token
  /\ Prepare("ready")

\* The files and the token's metadata; their contents and the launch options
\* of the original are abstracted.
CandidateFits == candidate = "ready" /\ token
OriginalRuns(s) ==
  /\ InService(s, "old")
  /\ s = "apisix" => InService("udp", "new")
RetrofitFits == candidate = "ready" /\ InService("udp", "old")

\* The rollout file is written before the first command and never removed.
BeginR4a(s) ==
  /\ plan = "r4a" /\ s \in {"udp", "apisix"}
  /\ CandidateFits /\ OriginalRuns(s)
  /\ s \notin staged /\ box[s].aside = None
  /\ staged' = staged \cup {s}
  /\ Begins("r4aApply", s)

RollBackR4aAnyOrder(s) ==
  /\ plan = "r4a" /\ s \in staged
  /\ Begins("r4aUndo", s) /\ UNCHANGED staged

\* UDP goes back only once APISIX is its original again.
RollBackR4a(s) ==
  /\ plan = "r4a" /\ s \in staged
  /\ s = "udp" /\ "apisix" \in staged => box["apisix"].live = "old"
  /\ Begins("r4aUndo", s) /\ UNCHANGED staged

BeginRetrofit ==
  /\ plan = "retrofit"
  /\ RetrofitFits
  /\ "udp" \notin staged /\ box["udp"].aside = None
  /\ staged' = staged \cup {"udp"}
  /\ Begins("retrofitApply", "udp")

RollBackRetrofit ==
  /\ plan = "retrofit" /\ "udp" \in staged
  /\ Begins("retrofitBack", "udp") /\ UNCHANGED staged

\* One replacement of the original is followed; a later deployment is another.
BeginCaddy ==
  /\ plan = "caddy" /\ box["caddy"].live # "new"
  /\ Begins("caddyApply", "caddy") /\ UNCHANGED staged

BeginRepair ==
  /\ plan = "repair"
  /\ Begins("repair", None) /\ UNCHANGED staged

BeginToken ==
  /\ plan \in {"r4a", "retrofit"} /\ ~token
  /\ Begins("installToken", None) /\ UNCHANGED staged

Crash == crashes < MaxCrashes /\ crashes' = crashes + 1
Died == [job EXCEPT !.running = FALSE, !.verdict = None]

ScriptDies ==
  /\ job.running /\ Crash /\ job' = Died
  /\ UNCHANGED <<change, host, staged, faults>>

\* A trapped INT or TERM drops the candidate, and the shell goes on.
Interrupted ==
  /\ job.running /\ job.script = "caddyApply" /\ job.at \in 3..7 /\ Crash
  /\ box' = [box EXCEPT !["caddy"].next = None, !["caddy"].auto = @ \ {Here.next}]
  /\ UNCHANGED <<change, routes, record, timer, token, staged, job, faults>>

\* What was up and has a restart policy comes up again; /run starts empty, and
\* the new UDP may be started before its directory is back.
Reboot ==
  /\ Crash /\ job' = Died
  /\ token' = FALSE
  /\ \E late \in SUBSET {"new"} :
       box' = [s \in Services |->
                 [box[s] EXCEPT !.up = (@ \cap box[s].auto)
                                         \ (IF s = "udp" THEN late ELSE {})]]
  /\ UNCHANGED <<change, routes, record, timer, staged, faults>>

Operator ==
  \/ \E s \in Services : BeginR4a(s) \/ RollBackR4a(s)
  \/ Snapshot \/ Complete \/ PrepareRetrofit
  \/ BeginRetrofit \/ RollBackRetrofit \/ BeginCaddy \/ BeginRepair \/ BeginToken

-----------------------------------------------------------------------------
Init ==
  /\ plan \in Plans /\ candidate = "none"
  /\ box = [s \in Services |->
              [live |-> "old", aside |-> None, next |-> None,
               up |-> {"old"}, auto |-> {"old"}]]
  /\ staged = {} /\ routes = "old" /\ record = "old"
  /\ timer = FALSE /\ token = FALSE
  /\ job = Idle /\ faults = 0 /\ crashes = 0

Next ==
  \/ DockerCommand \/ FileCommand \/ Skip
  \/ Operator \/ TimedRenewal
  \/ ScriptDies \/ Interrupted \/ Reboot

Spec == Init /\ [][Next]_vars

-----------------------------------------------------------------------------
(* What the scripts are for. *)

Verdicts ==
  {"staged", "restored", "already", "failed", "blocked", "repaired", "undone", "installed", None}

Boxes == [live : Containers \cup {None}, aside : Containers \cup {None}, next : {"new", None},
          up : SUBSET Containers, auto : SUBSET Containers]
Jobs == [script : DOMAIN Scripts \cup {"end"}, service : Services \cup {None}, at : Nat,
         running : BOOLEAN, clears : BOOLEAN, brings : BOOLEAN, clean : BOOLEAN,
         kept : BOOLEAN, verdict : Verdicts]

\* Types.
TypeOK ==
  /\ plan \in Plans /\ staged \subseteq {"udp", "apisix"}
  /\ candidate \in {"none", "snapshot", "ready"}
  /\ box \in [Services -> Boxes] /\ job \in Jobs
  /\ routes \in {"old", "some", "new"} /\ record \in Containers
  /\ timer \in BOOLEAN /\ token \in BOOLEAN
  /\ faults \in Nat /\ crashes \in Nat

Survives(s) == "old" \in {box[s].live, box[s].aside}

\* Whatever fails or dies, and however often the operator rolls back, the
\* container that was in service still exists (rollout_r4a_runtime.py: "retaining
\* the original containers for rollback"; caddy/deploy.sh preserves it likewise).
OriginalSurvives == plan # "retrofit" => \A s \in Services : Survives(s)

\* The same of the retrofit, whose undo clears the name without looking at whom
\* it removes.
RetrofitOriginalSurvives == plan = "retrofit" => Survives("udp")

Restored(s) == InService(s, "old") /\ "old" \in box[s].auto

\* What the last script said is so until the host changes under it: a staged
\* service runs its replacement with the original kept, a restored one runs the
\* original, which will also survive a restart of the host, a repaired or undone
\* change left routes and record alike, an installed token is there.
SaidIsTrue ==
  CASE job.verdict = "staged" ->
         InService(job.service, "new") /\ box[job.service].aside = "old"
    [] job.verdict = "restored"  -> Restored(job.service)
    [] job.verdict = "repaired"  -> routes = "new" /\ record = "new"
    [] job.verdict = "undone"    -> routes = "old" /\ record = "old"
    [] job.verdict = "installed" -> timer /\ token
    [] OTHER -> TRUE

\* An undo during which nothing else fails brings the original back into
\* service, whatever failed before it and wherever a crash left the work.  (The
\* undo of the retrofit and of Caddy only where the same run had set it aside.)
CleanUndoRestores ==
  ~job.running /\ job.verdict # None /\ job.clean
    /\ \/ job.script = "r4aUndo"
       \/ job.script \in {"retrofitUndo", "caddyUndo"} /\ job.kept
    => InService(job.service, "old")

\* APISIX never runs its candidate in front of a UDP that is not the new one.
ServicesInOrder ==
  plan = "r4a" /\ box["apisix"].live = "new" => box["udp"].live = "new"

\* The file that records the routes is never ahead of the gateway: it names the
\* new ones only while all of them are installed.
RecordFollowsRoutes == record = "new" => routes = "new"
=============================================================================
