--------------------------- MODULE RolloutProofs ---------------------------
(***************************************************************************)
(* Theorems about Rollout, for any number of faults and crashes: the       *)
(* originals survive every change but the retrofit, whose undo may destroy *)
(* one; the release goes in order; the record is never ahead of the        *)
(* routes.  First the tables are read row by row, then what a command can  *)
(* do to its script, to Docker and to the files, then the invariant.       *)
(* The second half follows each script from row to row: what it says at    *)
(* its end is so, and an undo that meets no fault restores the original.   *)
(***************************************************************************)
EXTENDS Rollout, TLAPS

(***************************************************************************)
(* What the tables say.                                                    *)
(***************************************************************************)

ScriptsOf(p) ==
  CASE p = "r4a"      -> {"r4aApply", "r4aUndo", "installToken"}
    [] p = "retrofit" -> {"retrofitApply", "retrofitUndo", "retrofitBack", "installToken"}
    [] p = "caddy"    -> {"caddyApply", "caddyTrap", "caddyUndo"}
    [] p = "repair"   -> {"repair", "repairUndo"}

Targets ==
  [r4aApply      |-> {<<"r4aUndo", 1>>},
   r4aUndo       |-> {End, <<"r4aUndo", 5>>, <<"r4aUndo", 7>>},
   retrofitApply |-> {<<"retrofitUndo", 1>>},
   retrofitUndo  |-> {End, <<"retrofitUndo", 5>>},
   retrofitBack  |-> {End},
   caddyApply    |-> {End, <<"caddyApply", 2>>, <<"caddyApply", 7>>, <<"caddyTrap", 1>>,
                      <<"caddyUndo", 1>>},
   caddyTrap     |-> {End},
   caddyUndo     |-> {End, <<"caddyUndo", 2>>},
   repair        |-> {End, <<"repairUndo", 1>>},
   repairUndo    |-> {End},
   installToken  |-> {End}]

Lengths ==
  [r4aApply      |-> 8, r4aUndo      |-> 11, retrofitApply |-> 7, retrofitUndo |-> 8,
   retrofitBack  |-> 9, caddyApply   |-> 10, caddyTrap     |-> 1, caddyUndo    |-> 4,
   repair        |-> 6, repairUndo   |-> 2,  installToken  |-> 4]

Commands ==
  [r4aApply      |-> {"noRestart", "stop", "setAside", "create", "connect", "start",
                      "isNew", "ready"},
   r4aUndo       |-> {"look", "noRestart", "stop", "remove", "lookAside", "bringBack",
                      "isOld", "start", "restart", "isUp", "ready"},
   retrofitApply |-> {"noRestart", "stop", "setAside", "create", "start", "ready", "isNew"},
   retrofitUndo  |-> {"lookAny", "noRestart", "stop", "remove", "bringBack", "restart",
                      "start", "ready"},
   retrofitBack  |-> {"lookNew", "noRestart", "stop", "remove", "isAside", "bringBack",
                      "restart", "start", "ready"},
   caddyApply    |-> {"dropNext", "createNext", "connectNext", "lookAny", "stop",
                      "setAside", "promote", "start", "ready"},
   caddyTrap     |-> {"dropNext"},
   caddyUndo     |-> {"forceRemove", "lookAside", "bringBack", "start"},
   repair        |-> {"readRoutes", "install", "read", "keepCopy", "writePending",
                      "replace"},
   repairUndo    |-> {"unlink", "restoreRoutes"},
   installToken  |-> {"files", "enable", "renew", "isToken"}]

FileCommands ==
  {"readRoutes", "install", "restoreRoutes", "read", "keepCopy", "writePending", "unlink",
   "replace", "files", "enable", "renew", "isToken"}

\* The number of rows of each script.
LEMMA TableLengths ==
  \A n \in DOMAIN Scripts : Len(Scripts[n]) = Lengths[n]
<1>1. Len(R4aApply) = 8
  BY DEF R4aApply
<1>2. Len(R4aUndo) = 11
  BY DEF R4aUndo
<1>3. Len(RetrofitApply) = 7
  BY DEF RetrofitApply
<1>4. Len(RetrofitUndo) = 8
  BY DEF RetrofitUndo
<1>5. Len(RetrofitBack) = 9
  BY DEF RetrofitBack
<1>6. Len(CaddyApply) = 10
  BY DEF CaddyApply
<1>7. Len(CaddyTrap) = 1 /\ Len(CaddyUndo) = 4
  BY DEF CaddyTrap, CaddyUndo
<1>8. Len(Repair) = 6 /\ Len(RepairUndo) = 2 /\ Len(InstallToken) = 4
  BY DEF Repair, RepairUndo, InstallToken
<1>9. SUFFICES ASSUME NEW n \in DOMAIN Scripts PROVE Len(Scripts[n]) = Lengths[n]
  OBVIOUS
<1>a. CASE n = "r4aApply"
  BY <1>1, <1>a DEF Scripts, Lengths
<1>b. CASE n = "r4aUndo"
  BY <1>2, <1>b DEF Scripts, Lengths
<1>c. CASE n = "retrofitApply"
  BY <1>3, <1>c DEF Scripts, Lengths
<1>d. CASE n = "retrofitUndo"
  BY <1>4, <1>d DEF Scripts, Lengths
<1>e. CASE n = "retrofitBack"
  BY <1>5, <1>e DEF Scripts, Lengths
<1>f. CASE n = "caddyApply"
  BY <1>6, <1>f DEF Scripts, Lengths
<1>g. CASE n = "caddyTrap"
  BY <1>7, <1>g DEF Scripts, Lengths
<1>h. CASE n = "caddyUndo"
  BY <1>7, <1>h DEF Scripts, Lengths
<1>i. CASE n = "repair"
  BY <1>8, <1>i DEF Scripts, Lengths
<1>j. CASE n = "repairUndo"
  BY <1>8, <1>j DEF Scripts, Lengths
<1>k. CASE n = "installToken"
  BY <1>8, <1>k DEF Scripts, Lengths
<1> QED
  BY <1>a, <1>b, <1>c, <1>d, <1>e, <1>f, <1>g, <1>h, <1>i, <1>j, <1>k DEF Scripts

\* Where a failure of each script may lead.
LEMMA TableTargets ==
  \A n \in DOMAIN Scripts : \A k \in 1..Lengths[n] : Scripts[n][k].fail \in Targets[n]
<1>1. \A k \in 1..8 : R4aApply[k].fail = <<"r4aUndo", 1>>
  BY DEF R4aApply, Row, To
<1>2. \A k \in 1..11 : R4aUndo[k].fail \in {End, <<"r4aUndo", 5>>, <<"r4aUndo", 7>>}
  BY DEF R4aUndo, Row
<1>3. \A k \in 1..7 : RetrofitApply[k].fail = <<"retrofitUndo", 1>>
  BY DEF RetrofitApply, Row, To
<1>4. \A k \in 1..8 : RetrofitUndo[k].fail \in {End, <<"retrofitUndo", 5>>}
  BY DEF RetrofitUndo, Row
<1>5. \A k \in 1..9 : RetrofitBack[k].fail = End
  BY DEF RetrofitBack, Row
<1>6. \A k \in 1..10 : CaddyApply[k].fail \in {End, <<"caddyApply", 2>>, <<"caddyApply", 7>>,
                                               <<"caddyTrap", 1>>, <<"caddyUndo", 1>>}
  BY DEF CaddyApply, Row, To
<1>7. CaddyTrap[1].fail = End
  BY DEF CaddyTrap, Row
<1>8. \A k \in 1..4 : CaddyUndo[k].fail \in {End, <<"caddyUndo", 2>>}
  BY DEF CaddyUndo, Row
<1>9. \A k \in 1..6 : Repair[k].fail \in {End, <<"repairUndo", 1>>}
  BY DEF Repair, Row, To
<1>10. \A k \in 1..2 : RepairUndo[k].fail = End
  BY DEF RepairUndo, Row
<1>11. \A k \in 1..4 : InstallToken[k].fail = End
  BY DEF InstallToken, Row
<1>12. \A k \in 1..1 : CaddyTrap[k].fail = End
  BY <1>7
<1>13. SUFFICES ASSUME NEW n \in DOMAIN Scripts, NEW k \in 1..Lengths[n]
                PROVE  Scripts[n][k].fail \in Targets[n]
  OBVIOUS
<1>a. CASE n = "r4aApply"
  BY <1>1, <1>a DEF Scripts, Lengths, Targets
<1>b. CASE n = "r4aUndo"
  BY <1>2, <1>b DEF Scripts, Lengths, Targets
<1>c. CASE n = "retrofitApply"
  BY <1>3, <1>c DEF Scripts, Lengths, Targets
<1>d. CASE n = "retrofitUndo"
  BY <1>4, <1>d DEF Scripts, Lengths, Targets
<1>e. CASE n = "retrofitBack"
  BY <1>5, <1>e DEF Scripts, Lengths, Targets
<1>f. CASE n = "caddyApply"
  BY <1>6, <1>f DEF Scripts, Lengths, Targets
<1>g. CASE n = "caddyTrap"
  BY <1>12, <1>g DEF Scripts, Lengths, Targets
<1>h. CASE n = "caddyUndo"
  BY <1>8, <1>h DEF Scripts, Lengths, Targets
<1>i. CASE n = "repair"
  BY <1>9, <1>i DEF Scripts, Lengths, Targets
<1>j. CASE n = "repairUndo"
  BY <1>10, <1>j DEF Scripts, Lengths, Targets
<1>k. CASE n = "installToken"
  BY <1>11, <1>k DEF Scripts, Lengths, Targets
<1> QED
  BY <1>a, <1>b, <1>c, <1>d, <1>e, <1>f, <1>g, <1>h, <1>i, <1>j, <1>k DEF Scripts

\* Which commands each script runs.
LEMMA TableCommands ==
  \A n \in DOMAIN Scripts : \A k \in 1..Lengths[n] : Scripts[n][k].cmd \in Commands[n]
<1>1. \A k \in 1..8 : R4aApply[k].cmd \in Commands.r4aApply
  BY DEF R4aApply, Row, Commands
<1>2. \A k \in 1..11 : R4aUndo[k].cmd \in Commands.r4aUndo
  BY DEF R4aUndo, Row, Commands
<1>3. \A k \in 1..7 : RetrofitApply[k].cmd \in Commands.retrofitApply
  BY DEF RetrofitApply, Row, Commands
<1>4. \A k \in 1..8 : RetrofitUndo[k].cmd \in Commands.retrofitUndo
  BY DEF RetrofitUndo, Row, Commands
<1>5. \A k \in 1..9 : RetrofitBack[k].cmd \in Commands.retrofitBack
  BY DEF RetrofitBack, Row, Commands
<1>6. \A k \in 1..10 : CaddyApply[k].cmd \in Commands.caddyApply
  BY DEF CaddyApply, Row, Commands
<1>7. \A k \in 1..1 : CaddyTrap[k].cmd \in Commands.caddyTrap
  BY DEF CaddyTrap, Row, Commands
<1>8. \A k \in 1..4 : CaddyUndo[k].cmd \in Commands.caddyUndo
  BY DEF CaddyUndo, Row, Commands
<1>9. \A k \in 1..6 : Repair[k].cmd \in Commands.repair
  BY DEF Repair, Row, Commands
<1>10. \A k \in 1..2 : RepairUndo[k].cmd \in Commands.repairUndo
  BY DEF RepairUndo, Row, Commands
<1>11. \A k \in 1..4 : InstallToken[k].cmd \in Commands.installToken
  BY DEF InstallToken, Row, Commands
<1>13. SUFFICES ASSUME NEW n \in DOMAIN Scripts, NEW k \in 1..Lengths[n]
                PROVE  Scripts[n][k].cmd \in Commands[n]
  OBVIOUS
<1>a. CASE n = "r4aApply"
  BY <1>1, <1>a DEF Scripts, Lengths
<1>b. CASE n = "r4aUndo"
  BY <1>2, <1>b DEF Scripts, Lengths
<1>c. CASE n = "retrofitApply"
  BY <1>3, <1>c DEF Scripts, Lengths
<1>d. CASE n = "retrofitUndo"
  BY <1>4, <1>d DEF Scripts, Lengths
<1>e. CASE n = "retrofitBack"
  BY <1>5, <1>e DEF Scripts, Lengths
<1>f. CASE n = "caddyApply"
  BY <1>6, <1>f DEF Scripts, Lengths
<1>g. CASE n = "caddyTrap"
  BY <1>7, <1>g DEF Scripts, Lengths
<1>h. CASE n = "caddyUndo"
  BY <1>8, <1>h DEF Scripts, Lengths
<1>i. CASE n = "repair"
  BY <1>9, <1>i DEF Scripts, Lengths
<1>j. CASE n = "repairUndo"
  BY <1>10, <1>j DEF Scripts, Lengths
<1>k. CASE n = "installToken"
  BY <1>11, <1>k DEF Scripts, Lengths
<1> QED
  BY <1>a, <1>b, <1>c, <1>d, <1>e, <1>f, <1>g, <1>h, <1>i, <1>j, <1>k DEF Scripts

\* The rows on which what is removed, promoted and recorded depends.
LEMMA TableRows ==
  /\ \A k \in 1..11 : R4aUndo[k].cmd = "remove" => k = 4
  /\ \A k \in 1..11 : R4aUndo[k].cmd = "bringBack" => k = 6
  /\ R4aUndo[2].cmd = "noRestart" /\ R4aUndo[3].cmd = "stop"
  /\ R4aUndo[1].cmd = "look" /\ R4aUndo[1].when = {} /\ R4aUndo[4].when = {"clears"}
  /\ CaddyApply[7].cmd = "promote" /\ CaddyApply[7].when = {}
  /\ \A k \in 8..10 : CaddyApply[k].cmd \in {"start", "ready"}
  /\ \A k \in 1..7 : CaddyApply[k].fail # <<"caddyUndo", 1>>
  /\ \A k \in 2..4 : CaddyUndo[k].cmd # "forceRemove"
  /\ \A k \in 1..6 : Repair[k].cmd = <<"readRoutes", "install", "read", "keepCopy",
                                        "writePending", "replace">>[k]
  /\ \A k \in 1..6 : Repair[k].when = {}
  /\ \A k \in 1..4 : Repair[k].fail = End
<1>1. \A k \in 1..11 : R4aUndo[k].cmd = "remove" => k = 4
  BY DEF R4aUndo, Row
<1>2. \A k \in 1..11 : R4aUndo[k].cmd = "bringBack" => k = 6
  BY DEF R4aUndo, Row
<1>3. /\ R4aUndo[2].cmd = "noRestart" /\ R4aUndo[3].cmd = "stop"
      /\ R4aUndo[1].cmd = "look" /\ R4aUndo[1].when = {} /\ R4aUndo[4].when = {"clears"}
  BY DEF R4aUndo, Row
<1>4. CaddyApply[7].cmd = "promote" /\ CaddyApply[7].when = {}
  BY DEF CaddyApply, Row
<1>5. \A k \in 8..10 : CaddyApply[k].cmd \in {"start", "ready"}
  BY DEF CaddyApply, Row
<1>6. \A k \in 1..7 : CaddyApply[k].fail # <<"caddyUndo", 1>>
  BY DEF CaddyApply, Row, To, End
<1>7. \A k \in 2..4 : CaddyUndo[k].cmd # "forceRemove"
  BY DEF CaddyUndo, Row
<1>8. \A k \in 1..6 : Repair[k].cmd = <<"readRoutes", "install", "read", "keepCopy",
                                        "writePending", "replace">>[k]
  BY DEF Repair, Row
<1>9. \A k \in 1..6 : Repair[k].when = {}
  BY DEF Repair, Row
<1>10. \A k \in 1..4 : Repair[k].fail = End
  BY DEF Repair, Row
<1> QED
  BY <1>1, <1>2, <1>3, <1>4, <1>5, <1>6, <1>7, <1>8, <1>9, <1>10

(***************************************************************************)
(* Where a script goes.                                                    *)
(***************************************************************************)

\* A script that runs is one of its plan's, at one of its rows, on its service.
JobFits ==
  job.running =>
    /\ job.script \in ScriptsOf(plan)
    /\ job.at \in 1..Lengths[job.script]
    /\ plan = "r4a" /\ job.script # "installToken" => job.service \in {"udp", "apisix"}
    /\ plan = "caddy" => job.service = "caddy"

\* The scripts of a plan are scripts.
LEMMA PlansHaveScripts ==
  \A p \in Plans : ScriptsOf(p) \subseteq DOMAIN Scripts
BY PlansAssumption DEF ScriptsOf, Scripts

\* A failure stays within the scripts of the plan, and on a row of one.
LEMMA TargetsFit ==
  \A p \in Plans : \A n \in ScriptsOf(p) : \A t \in Targets[n] :
    t # End => /\ t[1] \in ScriptsOf(p) /\ t[2] \in 1..Lengths[t[1]]
               /\ t[1] = n \/ t[2] = 1
               /\ t[1] # "installToken"
<1> SUFFICES ASSUME NEW p \in Plans, NEW n \in ScriptsOf(p), NEW t \in Targets[n], t # End
             PROVE  /\ t[1] \in ScriptsOf(p) /\ t[2] \in 1..Lengths[t[1]]
                    /\ t[1] = n \/ t[2] = 1
                    /\ t[1] # "installToken"
  OBVIOUS
<1>1. CASE p = "r4a"
  BY <1>1 DEF ScriptsOf, Targets, Lengths
<1>2. CASE p = "retrofit"
  BY <1>2 DEF ScriptsOf, Targets, Lengths
<1>3. CASE p = "caddy"
  BY <1>3 DEF ScriptsOf, Targets, Lengths
<1>4. CASE p = "repair"
  BY <1>4 DEF ScriptsOf, Targets, Lengths
<1> QED
  BY <1>1, <1>2, <1>3, <1>4, PlansAssumption

\* The job once a look has taught it c and b.
Learnt(c, b) == [job EXCEPT !.clears = c, !.brings = b]

\* A command succeeds, and the script goes on, or it fails.
Succeeds == \E c \in BOOLEAN, b \in BOOLEAN : job' = Onward(Learnt(c, b))
Fails == \E byFault \in BOOLEAN : job' = Failing(byFault)

Goes(script, at) == job'.script = script /\ job'.at = at

\* After a command the script is at its next row, or where the failure leads.
LEMMA JobMoves ==
  ASSUME TypeOK, JobFits, job.running, plan' = plan, Succeeds \/ Fails
  PROVE  /\ job' \in Jobs /\ JobFits'
         /\ job'.running =>
              /\ job'.service = job.service
              /\ Succeeds => Goes(job.script, job.at + 1)
              /\ Fails => Now.fail # End /\ Goes(Now.fail[1], Now.fail[2])
<1>2. job \in Jobs /\ job.script \in DOMAIN Scripts /\ job.script \in ScriptsOf(plan)
  BY PlansHaveScripts DEF TypeOK, JobFits
<1>4. Len(Scripts[job.script]) = Lengths[job.script]
  BY <1>2, TableLengths
<1>5. Lengths[job.script] \in Nat /\ job.at \in 1..Lengths[job.script]
  BY <1>2 DEF Lengths, Scripts, JobFits
<1>6. ASSUME Succeeds
      PROVE  /\ job' \in Jobs /\ JobFits'
             /\ job'.running => job'.service = job.service /\ Goes(job.script, job.at + 1)
  <2> PICK c \in BOOLEAN, b \in BOOLEAN : job' = Onward(Learnt(c, b))
    BY <1>6 DEF Succeeds
  <2> DEFINE j == Learnt(c, b)
  <2>0. j \in Jobs /\ j.script = job.script /\ j.at = job.at /\ j.service = job.service
        /\ j.running
    BY <1>2 DEF Jobs, Learnt
  <2> HIDE DEF j
  <2>1. CASE job.at < Lengths[job.script]
    <3>1. job' = [j EXCEPT !.at = @ + 1]
      BY <2>0, <2>1, <1>4 DEF Onward, j
    <3>2. /\ job' \in Jobs /\ job'.script = job.script /\ job'.at = job.at + 1
          /\ job'.service = job.service /\ job'.running
      BY <3>1, <2>0, <1>5 DEF Jobs
    <3> QED
      BY <3>2, <2>1, <1>5, <1>6 DEF JobFits, Goes
  <2>2. CASE ~(job.at < Lengths[job.script])
    <3>1. job' = [j EXCEPT !.running = FALSE, !.verdict = Verdict[j.script]]
      BY <2>0, <2>2, <1>4 DEF Onward, j
    <3>2. Verdict[j.script] \in Verdicts
      BY <1>2, <2>0 DEF Verdict, Verdicts, Scripts
    <3>3. job' \in Jobs /\ ~job'.running
      BY <3>1, <3>2, <2>0 DEF Jobs
    <3> QED
      BY <3>3 DEF JobFits
  <2> QED
    BY <2>1, <2>2
<1>7. ASSUME Fails
      PROVE  /\ job' \in Jobs /\ JobFits'
             /\ job'.running => /\ job'.service = job.service /\ Now.fail # End
                               /\ Goes(Now.fail[1], Now.fail[2])
  <2>1. PICK byFault \in BOOLEAN : job' = Failing(byFault)
    BY <1>7 DEF Fails
  <2>2. Now.fail \in Targets[job.script]
    BY <1>2, <1>5, TableTargets DEF Now
  <2>3. CASE Now.fail = End
    <3>1. job' = [job EXCEPT !.running = FALSE, !.verdict = "blocked",
                             !.clean = @ /\ ~byFault]
      BY <2>1, <2>3 DEF Failing
    <3>2. job' \in Jobs /\ ~job'.running
      BY <3>1, <1>2 DEF Jobs, Verdicts
    <3> QED
      BY <3>2 DEF JobFits
  <2>4. CASE Now.fail # End
    <3>1. /\ Now.fail[1] \in ScriptsOf(plan) /\ Now.fail[2] \in 1..Lengths[Now.fail[1]]
          /\ Now.fail[1] = job.script \/ Now.fail[2] = 1
          /\ Now.fail[1] # "installToken"
      BY <2>2, <2>4, <1>2, TargetsFit DEF TypeOK
    <3>2. Now.fail[1] \in DOMAIN Scripts /\ Lengths[Now.fail[1]] \in Nat
      BY <3>1, PlansHaveScripts DEF TypeOK, Lengths, Scripts
    <3>3. CASE Now.fail[1] = job.script
      <4>1. job' = [job EXCEPT !.at = Now.fail[2], !.clean = @ /\ ~byFault]
        BY <2>1, <2>4, <3>3 DEF Failing
      <4>0. Now.fail[2] \in Nat
        BY <3>1, <3>2
      <4>2. /\ job' \in Jobs /\ Goes(job.script, Now.fail[2])
            /\ job'.service = job.service
        BY <4>0, <4>1, <1>2 DEF Jobs, Goes
      <4> QED
        BY <4>2, <3>1, <3>3, <2>4, <1>7 DEF JobFits, Goes
    <3>4. CASE Now.fail[1] # job.script
      <4>0. (KeptNow(job.service) /\ ~job.kept) \in BOOLEAN
        OBVIOUS
      <4>1. job' = [job EXCEPT !.script = Now.fail[1], !.at = 1, !.clean = TRUE,
                               !.kept = KeptNow(job.service) /\ ~@]
        BY <2>1, <2>4, <3>4 DEF Failing
      <4>2. /\ job' \in Jobs /\ job'.script = Now.fail[1] /\ job'.at = Now.fail[2]
            /\ job'.service = job.service
        BY <4>0, <4>1, <3>1, <3>2, <3>4, <1>2 DEF Jobs
      <4>3. plan = "r4a" => job.script # "installToken"
        BY <2>2, <2>4 DEF Targets
      <4> QED
        BY <4>2, <4>3, <3>1, <2>4, <1>7 DEF JobFits, Goes
    <3> QED
      BY <3>3, <3>4
  <2> QED
    BY <2>3, <2>4
<1> QED
  BY <1>6, <1>7

(***************************************************************************)
(* What a command of Docker changes.                                       *)
(***************************************************************************)

\* The rollback of the retrofit finds the original in service.
Stops == job' = [job EXCEPT !.running = FALSE, !.verdict = "already"]

\* A command of Docker belongs to a running script and moves it.
LEMMA DockerMoves ==
  ASSUME TypeOK, DockerCommand
  PROVE  /\ job.running /\ (Succeeds \/ Fails \/ Stops)
         /\ UNCHANGED <<plan, candidate, staged, crashes, routes, record, timer, token>>
         /\ faults' \in Nat
         /\ Now.cmd \notin FileCommands
         /\ \A condition \in Now.when : Holds(condition)
         /\ Now.cmd = "look" => LookR4a
         /\ Now.cmd \in {"noRestart", "stop"} => Fails \/ job' = Onward(job)
<1>0. /\ job = Learnt(job.clears, job.brings)
      /\ job.clears \in BOOLEAN /\ job.brings \in BOOLEAN /\ faults \in Nat
  BY DEF TypeOK, Jobs, Learnt
<1>a. job' = Onward(job) => Succeeds
  <2>1. ASSUME job' = Onward(job) PROVE job' = Onward(Learnt(job.clears, job.brings))
    BY <1>0, <2>1
  <2> QED
    BY <1>0, <2>1 DEF Succeeds
<1>b. \A c \in BOOLEAN, b \in BOOLEAN : job' = Onward(Learnt(c, b)) => Succeeds
  BY DEF Succeeds
<1>c. (job' = Failing(TRUE) => Fails) /\ (job' = Failing(FALSE) => Fails)
  BY DEF Fails
<1>d. faults + 1 \in Nat
  BY <1>0
<1> USE DEF Doing, Fault, change, host, FileCommands
<1>1. CASE NoRestart
  BY <1>0, <1>a, <1>c, <1>d, <1>1 DEF NoRestart, Docker, Becomes, Attempt
<1>2. CASE Restart
  BY <1>0, <1>a, <1>c, <1>d, <1>2 DEF Restart, Docker, Becomes, Attempt
<1>3. CASE Stop
  BY <1>0, <1>a, <1>c, <1>d, <1>3 DEF Stop, Docker, Becomes, Attempt
<1>4. CASE Start
  BY <1>0, <1>a, <1>c, <1>d, <1>4 DEF Start, Docker, Becomes, Attempt
<1>5. CASE SetAside
  BY <1>0, <1>a, <1>c, <1>d, <1>5 DEF SetAside, Docker, Becomes, Attempt
<1>6. CASE BringBack
  BY <1>0, <1>a, <1>c, <1>d, <1>6 DEF BringBack, Docker, Becomes, Attempt
<1>7. CASE Create
  BY <1>0, <1>a, <1>c, <1>d, <1>7 DEF Create, Docker, Becomes, Attempt
<1>8. CASE Connect
  BY <1>0, <1>a, <1>c, <1>d, <1>8 DEF Connect, Docker, Becomes, Attempt
<1>9. CASE Remove
  BY <1>0, <1>a, <1>c, <1>d, <1>9 DEF Remove, Docker, Becomes, Attempt
<1>10. CASE ForceRemove
  BY <1>0, <1>a, <1>c, <1>d, <1>10 DEF ForceRemove, Docker, Becomes, Attempt
<1>11. CASE DropNext
  BY <1>0, <1>a, <1>c, <1>d, <1>11 DEF DropNext, Docker, Becomes, Attempt
<1>12. CASE CreateNext
  BY <1>0, <1>a, <1>c, <1>d, <1>12 DEF CreateNext, Docker, Becomes, Attempt
<1>13. CASE ConnectNext
  BY <1>0, <1>a, <1>c, <1>d, <1>13 DEF ConnectNext, Docker, Becomes, Attempt
<1>14. CASE Promote
  BY <1>0, <1>a, <1>c, <1>d, <1>14 DEF Promote, Docker, Becomes, Attempt
<1>15. CASE LookR4a
  <2>1. [job EXCEPT !.clears = Here.live # "old"] = Learnt(Here.live # "old", job.brings)
    BY <1>0 DEF Learnt, TypeOK, Jobs
  <2>2. (Here.live # "old") \in BOOLEAN
    OBVIOUS
  <2> QED
    BY <1>15, <1>0, <1>b, <1>c, <1>d, <2>1, <2>2 DEF LookR4a, LookAny, Check, Attempt
<1>16. CASE Look
  <2>1. [job EXCEPT !.clears = TRUE] = Learnt(TRUE, job.brings)
    BY <1>0 DEF Learnt, TypeOK, Jobs
  <2>2. (TRUE) \in BOOLEAN
    OBVIOUS
  <2> QED
    BY <1>16, <1>0, <1>b, <1>c, <1>d, <2>1, <2>2 DEF Look, LookAny, Check, Attempt
<1>17. CASE LookAside
  <2>1. [job EXCEPT !.clears = FALSE, !.brings = TRUE] = Learnt(FALSE, TRUE)
    BY DEF Learnt
  <2> QED
    BY <1>17, <1>0, <1>b, <1>c, <1>d, <2>1 DEF LookAside, Check, Attempt
<1>18. CASE IsOld
  BY <1>0, <1>a, <1>c, <1>d, <1>18 DEF IsOld, Check, Attempt
<1>19. CASE IsAside
  BY <1>0, <1>a, <1>c, <1>d, <1>19 DEF IsAside, Check, Attempt
<1>20. CASE IsUp
  BY <1>0, <1>a, <1>c, <1>d, <1>20 DEF IsUp, Check, Attempt
<1>21. CASE IsNew
  BY <1>0, <1>a, <1>c, <1>d, <1>21 DEF IsNew, Check, Attempt
<1>22. CASE Ready
  BY <1>0, <1>a, <1>c, <1>d, <1>22 DEF Ready, Check, Attempt
<1>23. CASE LookNew
  BY <1>0, <1>a, <1>c, <1>d, <1>23 DEF Stops, LookNew, Check, Attempt
<1> QED
  BY <1>1, <1>2, <1>3, <1>4, <1>5, <1>6, <1>7, <1>8, <1>9, <1>10, <1>11, <1>12, <1>13, <1>14,
     <1>15, <1>16, <1>17, <1>18, <1>19, <1>20, <1>21, <1>22, <1>23
     DEF DockerCommand

\* How a command of Docker may change who bears the names of a service: not at
\* all, or one of the commands that rename, create or remove did.
Renamed(b, c) ==
  \/ c.live = b.live /\ c.aside = b.aside
  \/ Now.cmd = "setAside" /\ b.aside = None /\ c.live = None /\ c.aside = b.live
  \/ Now.cmd = "bringBack" /\ b.live = None /\ c.live = b.aside /\ c.aside = None
  \/ Now.cmd = "create" /\ b.live = None /\ c.live = "new" /\ c.aside = b.aside
  \/ Now.cmd \in {"remove", "forceRemove"} /\ c.live = None /\ c.aside = b.aside
  \/ Now.cmd = "promote" /\ b.live = None /\ c.live = "new" /\ c.aside = b.aside

\* A promotion that does not fail leaves the candidate in service.
Promoted(b, c) == Now.cmd = "promote" => Fails \/ c.live = "new"

\* A command of Docker changes the containers of the script's service only.
LEMMA DockerBoxes ==
  ASSUME TypeOK, DockerCommand
  PROVE  /\ box' \in [Services -> Boxes]
         /\ \A s \in Services : s # job.service => box'[s] = box[s]
         /\ job.service \in Services =>
              Renamed(box[job.service], box'[job.service])
                /\ Promoted(box[job.service], box'[job.service])
<1> DEFINE b == box[job.service]
<1> DEFINE c == box'[job.service]
<1> DEFINE Goal == /\ box' \in [Services -> Boxes]
                   /\ \A s \in Services : s # job.service => box'[s] = box[s]
                   /\ job.service \in Services => Renamed(b, c) /\ Promoted(b, c)
<1>0. /\ box \in [Services -> Boxes] /\ None \notin Services \cup Containers
      /\ job.service \in Services => b \in Boxes
  BY NoneAssumption DEF TypeOK
<1>a. box' = box /\ Now.cmd # "promote" => Goal
  BY <1>0 DEF Renamed, Promoted
<1>b. box' = box /\ Fails => Goal
  BY <1>0 DEF Renamed, Promoted
<1>c. job' \in {Failing(TRUE), Failing(FALSE)} => Fails
  BY DEF Fails
<1>d. ASSUME NEW d \in Boxes, box' = [box EXCEPT ![job.service] = d], Renamed(b, d),
             Promoted(b, d)
      PROVE  Goal
  BY <1>0, <1>d DEF Renamed, Promoted
<1>1. CASE NoRestart
  <2> DEFINE d == [b EXCEPT !.auto = @ \ {Here.live}]
  <2>1. /\ Now.cmd = "noRestart"
        /\ \/ box' = box /\ Fails
           \/ box' = [box EXCEPT ![job.service] = d]
    BY <1>1, <1>c DEF NoRestart, Docker, Becomes, Attempt, Doing, Fault, Named, Here, host
  <2>2. job.service \in Services => d \in Boxes /\ Renamed(b, d) /\ Promoted(b, d)
    BY <1>0, <2>1 DEF Boxes, Containers, Renamed, Promoted, Here
  <2> QED
    BY <1>0, <1>b, <1>d, <2>1, <2>2
<1>2. CASE Restart
  <2> DEFINE d == [b EXCEPT !.auto = @ \cup {Here.live}]
  <2>1. /\ Now.cmd = "restart"
        /\ \/ box' = box /\ Fails
           \/ box' = [box EXCEPT ![job.service] = d] /\ b.live # None
    BY <1>2, <1>c DEF Restart, Docker, Becomes, Attempt, Doing, Fault, Named, Here, host
  <2>2. job.service \in Services /\ b.live # None => d \in Boxes /\ Renamed(b, d) /\ Promoted(b, d)
    BY <1>0, <2>1 DEF Boxes, Containers, Renamed, Promoted, Here
  <2> QED
    BY <1>0, <1>b, <1>d, <2>1, <2>2
<1>3. CASE Stop
  <2> DEFINE d == [b EXCEPT !.up = @ \ {Here.live}]
  <2>1. /\ Now.cmd = "stop"
        /\ \/ box' = box /\ Fails
           \/ box' = [box EXCEPT ![job.service] = d]
    BY <1>3, <1>c DEF Stop, Docker, Becomes, Attempt, Doing, Fault, Named, Here, host
  <2>2. job.service \in Services => d \in Boxes /\ Renamed(b, d) /\ Promoted(b, d)
    BY <1>0, <2>1 DEF Boxes, Containers, Renamed, Promoted, Here
  <2> QED
    BY <1>0, <1>b, <1>d, <2>1, <2>2
<1>4. CASE Start
  <2> DEFINE d == [b EXCEPT !.up = @ \cup {Here.live}]
  <2>1. /\ Now.cmd = "start"
        /\ \/ box' = box /\ Fails
           \/ box' = [box EXCEPT ![job.service] = d] /\ b.live # None
    BY <1>4, <1>c DEF Start, Docker, Becomes, Attempt, Doing, Fault, Named, Here, host
  <2>2. job.service \in Services /\ b.live # None => d \in Boxes /\ Renamed(b, d) /\ Promoted(b, d)
    BY <1>0, <2>1 DEF Boxes, Containers, Renamed, Promoted, Here
  <2> QED
    BY <1>0, <1>b, <1>d, <2>1, <2>2
<1>5. CASE SetAside
  <2> DEFINE d == [b EXCEPT !.aside = Here.live, !.live = None]
  <2>1. /\ Now.cmd = "setAside"
        /\ \/ box' = box /\ Fails
           \/ box' = [box EXCEPT ![job.service] = d] /\ b.live # None /\ b.aside = None
    BY <1>5, <1>c DEF SetAside, Docker, Becomes, Attempt, Doing, Fault, Named, Here, host
  <2>2. job.service \in Services /\ b.live # None /\ b.aside = None
          => d \in Boxes /\ Renamed(b, d) /\ Promoted(b, d)
    BY <1>0, <2>1 DEF Boxes, Containers, Renamed, Promoted, Here
  <2> QED
    BY <1>0, <1>b, <1>d, <2>1, <2>2
<1>6. CASE BringBack
  <2> DEFINE d == [b EXCEPT !.live = Here.aside, !.aside = None]
  <2>1. /\ Now.cmd = "bringBack"
        /\ \/ box' = box /\ Fails
           \/ box' = [box EXCEPT ![job.service] = d] /\ b.live = None
    BY <1>6, <1>c DEF BringBack, Docker, Becomes, Attempt, Doing, Fault, Named, Here, host
  <2>2. job.service \in Services /\ b.live = None => d \in Boxes /\ Renamed(b, d) /\ Promoted(b, d)
    BY <1>0, <2>1 DEF Boxes, Containers, Renamed, Promoted, Here
  <2> QED
    BY <1>0, <1>b, <1>d, <2>1, <2>2
<1>7. CASE Create
  <2> DEFINE d == [b EXCEPT !.live = "new", !.auto = @ \cup {"new"}]
  <2>1. /\ Now.cmd = "create"
        /\ \/ box' = box /\ Fails
           \/ box' = [box EXCEPT ![job.service] = d] /\ b.live = None
    BY <1>7, <1>c DEF Create, Docker, Becomes, Attempt, Doing, Fault, Named, Here, host
  <2>2. job.service \in Services /\ b.live = None => d \in Boxes /\ Renamed(b, d) /\ Promoted(b, d)
    BY <1>0, <2>1 DEF Boxes, Containers, Renamed, Promoted, Here
  <2> QED
    BY <1>0, <1>b, <1>d, <2>1, <2>2
<1>8. CASE Connect
  <2> DEFINE d == b
  <2>1. /\ Now.cmd = "connect"
        /\ \/ box' = box /\ Fails
           \/ box' = [box EXCEPT ![job.service] = d]
    BY <1>8, <1>c DEF Connect, Docker, Becomes, Attempt, Doing, Fault, Named, Here, host
  <2>2. job.service \in Services => d \in Boxes /\ Renamed(b, d) /\ Promoted(b, d)
    BY <1>0, <2>1 DEF Boxes, Containers, Renamed, Promoted, Here
  <2> QED
    BY <1>0, <1>b, <1>d, <2>1, <2>2
<1>9. CASE Remove
  <2> DEFINE d == [b EXCEPT !.live = None, !.auto = @ \ {Here.live}]
  <2>1. /\ Now.cmd = "remove"
        /\ \/ box' = box /\ Fails
           \/ box' = [box EXCEPT ![job.service] = d]
    BY <1>9, <1>c DEF Remove, Docker, Becomes, Attempt, Doing, Fault, Named, Here, host
  <2>2. job.service \in Services => d \in Boxes /\ Renamed(b, d) /\ Promoted(b, d)
    BY <1>0, <2>1 DEF Boxes, Containers, Renamed, Promoted, Here
  <2> QED
    BY <1>0, <1>b, <1>d, <2>1, <2>2
<1>10. CASE ForceRemove
  <2> DEFINE d == [b EXCEPT !.live = None, !.up = @ \ {Here.live}, !.auto = @ \ {Here.live}]
  <2>1. /\ Now.cmd = "forceRemove"
        /\ \/ box' = box /\ Fails
           \/ box' = [box EXCEPT ![job.service] = d]
    BY <1>10, <1>c DEF ForceRemove, Docker, Becomes, Attempt, Doing, Fault, Named, Here, host
  <2>2. job.service \in Services => d \in Boxes /\ Renamed(b, d) /\ Promoted(b, d)
    BY <1>0, <2>1 DEF Boxes, Containers, Renamed, Promoted, Here
  <2> QED
    BY <1>0, <1>b, <1>d, <2>1, <2>2
<1>11. CASE DropNext
  <2> DEFINE d == [b EXCEPT !.next = None, !.auto = @ \ {"new"}]
  <2>1. /\ Now.cmd = "dropNext"
        /\ \/ box' = box /\ Fails
           \/ box' = [box EXCEPT ![job.service] = d]
    BY <1>11, <1>c DEF DropNext, Docker, Becomes, Attempt, Doing, Fault, Named, Here, host
  <2>2. job.service \in Services => d \in Boxes /\ Renamed(b, d) /\ Promoted(b, d)
    BY <1>0, <2>1 DEF Boxes, Containers, Renamed, Promoted, Here
  <2> QED
    BY <1>0, <1>b, <1>d, <2>1, <2>2
<1>12. CASE CreateNext
  <2> DEFINE d == [b EXCEPT !.next = "new", !.auto = @ \cup {"new"}]
  <2>1. /\ Now.cmd = "createNext"
        /\ \/ box' = box /\ Fails
           \/ box' = [box EXCEPT ![job.service] = d]
    BY <1>12, <1>c DEF CreateNext, Docker, Becomes, Attempt, Doing, Fault, Named, Here, host
  <2>2. job.service \in Services => d \in Boxes /\ Renamed(b, d) /\ Promoted(b, d)
    BY <1>0, <2>1 DEF Boxes, Containers, Renamed, Promoted, Here
  <2> QED
    BY <1>0, <1>b, <1>d, <2>1, <2>2
<1>13. CASE ConnectNext
  <2> DEFINE d == b
  <2>1. /\ Now.cmd = "connectNext"
        /\ \/ box' = box /\ Fails
           \/ box' = [box EXCEPT ![job.service] = d]
    BY <1>13, <1>c DEF ConnectNext, Docker, Becomes, Attempt, Doing, Fault, Named, Here, host
  <2>2. job.service \in Services => d \in Boxes /\ Renamed(b, d) /\ Promoted(b, d)
    BY <1>0, <2>1 DEF Boxes, Containers, Renamed, Promoted, Here
  <2> QED
    BY <1>0, <1>b, <1>d, <2>1, <2>2
<1>14. CASE Promote
  <2> DEFINE d == [b EXCEPT !.live = Here.next, !.next = None]
  <2>1. /\ Now.cmd = "promote"
        /\ \/ box' = box /\ Fails
           \/ box' = [box EXCEPT ![job.service] = d] /\ b.next # None /\ b.live = None
    BY <1>14, <1>c DEF Promote, Docker, Becomes, Attempt, Doing, Fault, Named, Here, host
  <2>2. job.service \in Services /\ b.next # None /\ b.live = None
          => d \in Boxes /\ Renamed(b, d) /\ Promoted(b, d)
    BY <1>0, <2>1 DEF Boxes, Containers, Renamed, Promoted, Here
  <2> QED
    BY <1>0, <1>b, <1>d, <2>1, <2>2
<1>15. CASE LookR4a
  BY <1>15, <1>a DEF LookR4a, LookAny, Check, Attempt, Doing, Fault, host
<1>16. CASE Look
  BY <1>16, <1>a DEF Look, LookAny, Check, Attempt, Doing, Fault, host
<1>17. CASE LookAside
  BY <1>17, <1>a DEF LookAside, Check, Attempt, Doing, Fault, host
<1>18. CASE IsOld
  BY <1>18, <1>a DEF IsOld, Check, Attempt, Doing, Fault, host
<1>19. CASE IsAside
  BY <1>19, <1>a DEF IsAside, Check, Attempt, Doing, Fault, host
<1>20. CASE IsUp
  BY <1>20, <1>a DEF IsUp, Check, Attempt, Doing, Fault, host
<1>21. CASE IsNew
  BY <1>21, <1>a DEF IsNew, Check, Attempt, Doing, Fault, host
<1>22. CASE Ready
  BY <1>22, <1>a DEF Ready, Check, Attempt, Doing, Fault, host
<1>23. CASE LookNew
  BY <1>23, <1>a DEF LookNew, Check, Attempt, Doing, Fault, host
<1> QED
  BY <1>1, <1>2, <1>3, <1>4, <1>5, <1>6, <1>7, <1>8, <1>9, <1>10, <1>11, <1>12, <1>13, <1>14,
     <1>15, <1>16, <1>17, <1>18, <1>19, <1>20, <1>21, <1>22, <1>23
     DEF DockerCommand

(***************************************************************************)
(* What the other commands change.                                         *)
(***************************************************************************)

\* A command on routes, files or the token moves its script, too; it installs
\* routes and records them only where the table says so.
LEMMA FileMoves ==
  ASSUME TypeOK, FileCommand
  PROVE  /\ job.running /\ (Succeeds \/ Fails)
         /\ UNCHANGED <<plan, candidate, box, staged, crashes>>
         /\ faults' \in Nat /\ Now.cmd \in FileCommands
         /\ routes' \in {"old", "some", "new"} /\ record' \in Containers
         /\ routes' = routes \/ Now.cmd \in {"install", "restoreRoutes"}
         /\ Now.cmd = "readRoutes" => (Fails \/ routes = "old")
         /\ Now.cmd = "install" => Fails \/ routes' = "new"
         /\ record' = record \/ (Now.cmd = "replace" /\ Succeeds /\ record' = "new")
         /\ Now.cmd = "replace" => Fails \/ record' = "new"
<1>z. /\ job = Learnt(job.clears, job.brings)
      /\ job.clears \in BOOLEAN /\ job.brings \in BOOLEAN
  BY DEF TypeOK, Jobs, Learnt
<1>0. /\ faults \in Nat /\ faults + 1 \in Nat
      /\ routes \in {"old", "some", "new"} /\ record \in Containers
  BY DEF TypeOK
<1>a. job' = Onward(job) => Succeeds
  <2>1. ASSUME job' = Onward(job) PROVE job' = Onward(Learnt(job.clears, job.brings))
    BY <1>z, <2>1
  <2> QED
    BY <1>z, <2>1 DEF Succeeds
<1>b. (job' = Failing(TRUE) => Fails) /\ (job' = Failing(FALSE) => Fails)
  BY DEF Fails
<1> USE <1>0, <1>a, <1>b DEF Doing, Fault, change, host, Check, Attempt, FileCommands
<1>1. CASE ReadRoutes
  BY <1>1 DEF ReadRoutes
<1>2. CASE ReadFiles
  BY <1>2 DEF ReadFiles
<1>3. CASE KeepCopy
  BY <1>3 DEF KeepCopy
<1>4. CASE WritePending
  BY <1>4 DEF WritePending
<1>5. CASE Unlink
  BY <1>5 DEF Unlink
<1>6. CASE InstallFiles
  BY <1>6 DEF InstallFiles
<1>7. CASE IsToken
  BY <1>7 DEF IsToken
<1>8. CASE Install
  BY <1>8 DEF Install, InstallRoutes, RouteChange
<1>9. CASE RestoreRoutes
  BY <1>9 DEF RestoreRoutes, InstallRoutes, RouteChange
<1>10. CASE Replace
  BY <1>10 DEF Replace, Containers
<1>11. CASE Enable
  BY <1>11 DEF Enable
<1>12. CASE Renew
  BY <1>12 DEF Renew, Refreshed
<1> QED
  BY <1>1, <1>2, <1>3, <1>4, <1>5, <1>6, <1>7, <1>8, <1>9, <1>10, <1>11, <1>12 DEF FileCommand

\* A row whose condition does not hold is passed over.
LEMMA SkipMoves ==
  ASSUME TypeOK, Skip
  PROVE  /\ job.running /\ Succeeds /\ job' = Onward(job) /\ Now.when # {}
         /\ UNCHANGED <<plan, candidate, box, staged, routes, record, timer, token, faults,
                        crashes>>
<1>1. /\ job = Learnt(job.clears, job.brings)
      /\ job.clears \in BOOLEAN /\ job.brings \in BOOLEAN
  BY DEF TypeOK, Jobs, Learnt
<1>2. job' = Onward(job) /\ job.running /\ Now.when # {}
  BY DEF Skip
<1>3. job' = Onward(Learnt(job.clears, job.brings))
  BY <1>1, <1>2
<1> QED
  BY <1>1, <1>2, <1>3 DEF Skip, Succeeds, change, host

\* What an operator begins, or prepares, leaves the host alone.
LEMMA OperatorMoves ==
  ASSUME TypeOK, Operator
  PROVE  /\ ~job.running /\ job' \in Jobs /\ JobFits'
         /\ UNCHANGED <<plan, box, routes, record, timer, token, faults, crashes>>
         /\ staged' \subseteq {"udp", "apisix"} /\ candidate' \in {"none", "snapshot", "ready"}
         /\ job'.running =>
              /\ job'.at = 1 /\ ~job'.clears
              /\ job'.script \in {"r4aApply", "r4aUndo", "retrofitApply", "retrofitBack",
                                 "caddyApply", "repair", "installToken"}
<1>1. ASSUME NEW n \in {"r4aApply", "r4aUndo", "retrofitApply", "retrofitBack",
                        "caddyApply", "repair", "installToken"},
             NEW s \in Services \cup {None}, Begins(n, s),
             n \in ScriptsOf(plan),
             plan = "r4a" /\ n # "installToken" => s \in {"udp", "apisix"},
             plan = "caddy" => s = "caddy"
      PROVE  /\ ~job.running /\ job' \in Jobs /\ JobFits'
             /\ UNCHANGED <<plan, candidate, box, routes, record, timer, token, faults,
                            crashes>>
             /\ job'.at = 1 /\ ~job'.clears /\ job'.script = n /\ job'.service = s
  <2>1. Kept(s) \in BOOLEAN
    BY DEF Kept
  <2>2. job' = [Idle EXCEPT !.script = n, !.service = s, !.running = TRUE, !.kept = Kept(s)]
        /\ ~job.running
    BY <1>1 DEF Begins
  <2>3. /\ job' \in Jobs /\ job'.at = 1 /\ ~job'.clears /\ job'.script = n
        /\ job'.service = s
    BY <2>1, <2>2 DEF Idle, Jobs, Scripts, Verdicts
  <2>4. plan' = plan
    BY <1>1 DEF Begins, change
  <2>5. job'.at \in 1..Lengths[n]
    BY <2>3 DEF Lengths
  <2>6. JobFits'
    BY <2>3, <2>4, <2>5, <1>1 DEF JobFits
  <2> QED
    BY <1>1, <2>2, <2>3, <2>6 DEF Begins, change, host
<1>2. ASSUME NEW what \in {"none", "snapshot", "ready"}, Prepare(what)
      PROVE  /\ ~job.running /\ job' = job /\ candidate' = what
             /\ UNCHANGED <<plan, box, staged, routes, record, timer, token, faults, crashes>>
  BY <1>2 DEF Prepare, host
<1>3. /\ staged \subseteq {"udp", "apisix"} /\ candidate \in {"none", "snapshot", "ready"}
      /\ job \in Jobs
  BY DEF TypeOK
<1>4. CASE Snapshot \/ Complete \/ PrepareRetrofit
  <2>1. Prepare("snapshot") \/ Prepare("ready")
    BY <1>4 DEF Snapshot, Complete, PrepareRetrofit
  <2> QED
    BY <1>2, <1>3, <2>1 DEF JobFits
<1>5. CASE \E s \in Services : BeginR4a(s)
  BY <1>1, <1>3, <1>5 DEF BeginR4a, ScriptsOf, Services
<1>6. CASE \E s \in Services : RollBackR4a(s)
  <2>1. PICK s \in Services : RollBackR4a(s)
    BY <1>6
  <2>2. s \in {"udp", "apisix"} /\ plan = "r4a" /\ Begins("r4aUndo", s) /\ staged' = staged
    BY <1>3, <2>1 DEF RollBackR4a
  <2>3. "r4aUndo" \in ScriptsOf(plan) /\ s \in Services \cup {None}
    BY <2>2 DEF ScriptsOf, Services
  <2> QED
    BY <1>1, <1>3, <2>2, <2>3
<1>7. CASE BeginRetrofit
  BY <1>1, <1>3, <1>7 DEF BeginRetrofit, ScriptsOf, Services
<1>8. CASE RollBackRetrofit
  BY <1>1, <1>3, <1>8 DEF RollBackRetrofit, ScriptsOf, Services
<1>9. CASE BeginCaddy
  BY <1>1, <1>3, <1>9 DEF BeginCaddy, ScriptsOf, Services
<1>10. CASE BeginRepair
  BY <1>1, <1>3, <1>10 DEF BeginRepair, ScriptsOf, Services
<1>11. CASE BeginToken
  BY <1>1, <1>3, <1>11 DEF BeginToken, ScriptsOf, Services
<1> QED
  BY <1>4, <1>5, <1>6, <1>7, <1>8, <1>9, <1>10, <1>11 DEF Operator

(***************************************************************************)
(* The inductive invariant.                                                *)
(***************************************************************************)

\* Where the undo of a release may still remove what bears the name, and where
\* Caddy's is about to, the original does not bear it.
SafeToRemove ==
  job.running =>
    /\ job.script = "r4aUndo" /\ job.at \in 2..4 /\ job.clears
         => box[job.service].live # "old"
    /\ job.script = "caddyApply" /\ job.at \in 8..10 => box[job.service].live # "old"
    /\ job.script = "caddyUndo" /\ job.at = 1 => box[job.service].live # "old"

\* The candidate of APISIX is in service only once its rollout file exists and
\* UDP is new; no script works on UDP meanwhile.
Ordered ==
  plan = "r4a" =>
    /\ box["apisix"].live = "new" => "apisix" \in staged /\ box["udp"].live = "new"
    /\ job.running /\ job.script # "installToken" =>
         /\ job.service = "udp" => box["apisix"].live # "new"
         /\ job.service = "apisix" /\ job.script = "r4aApply"
              => "apisix" \in staged /\ box["udp"].live = "new"

\* The repair has found the old routes, then installed the new ones, and its undo
\* starts before anything is recorded.
Recorded ==
  /\ record = "new" => routes = "new"
  /\ job.running /\ job.script = "repair" =>
       /\ job.at \in 2..6 => record = "old"
       /\ job.at \in 3..6 => routes = "new"
  /\ job.running /\ job.script = "repairUndo" => record = "old"

IInv == TypeOK /\ JobFits /\ SafeToRemove /\ OriginalSurvives /\ Ordered /\ Recorded

Command == DockerCommand \/ FileCommand \/ Skip
Event == TimedRenewal \/ ScriptDies \/ Interrupted \/ Reboot

\* A command moves its script and leaves plan, staged files and dead hosts alone.
LEMMA CommandMoves ==
  ASSUME TypeOK, JobFits, Command
  PROVE  /\ job.running /\ job.script \in DOMAIN Scripts /\ job.script \in ScriptsOf(plan)
         /\ Now.cmd \in Commands[job.script] /\ Now.fail \in Targets[job.script]
         /\ plan' = plan /\ candidate' = candidate /\ staged' = staged /\ crashes' = crashes
         /\ faults' \in Nat /\ job' \in Jobs /\ JobFits'
         /\ Succeeds \/ Fails \/ ~job'.running
         /\ job'.running =>
              /\ job'.service = job.service
              /\ Succeeds => Goes(job.script, job.at + 1)
              /\ Fails => Now.fail # End /\ Goes(Now.fail[1], Now.fail[2])
<1>1. /\ job.running /\ (Succeeds \/ Fails \/ Stops)
      /\ plan' = plan /\ candidate' = candidate /\ staged' = staged /\ crashes' = crashes
      /\ faults' \in Nat
  <2>1. CASE DockerCommand
    BY <2>1, DockerMoves
  <2>2. CASE FileCommand
    BY <2>2, FileMoves
  <2>3. CASE Skip
    <3>1. staged' = staged
      BY <2>3 DEF Skip
    <3> QED
      BY <2>3, <3>1, SkipMoves DEF TypeOK
  <2> QED
    BY <2>1, <2>2, <2>3 DEF Command
<1>2. job.script \in ScriptsOf(plan) /\ job.at \in 1..Lengths[job.script]
  BY <1>1 DEF JobFits
<1>3. job.script \in DOMAIN Scripts
  BY <1>2, PlansHaveScripts DEF TypeOK
<1>4. Now.cmd \in Commands[job.script] /\ Now.fail \in Targets[job.script]
  BY <1>2, <1>3, TableCommands, TableTargets DEF Now
<1>5. CASE Succeeds \/ Fails
  BY <1>1, <1>2, <1>3, <1>4, <1>5, JobMoves
<1>6. CASE Stops
  <2>1. job' \in Jobs /\ ~job'.running
    BY <1>6 DEF Stops, TypeOK, Jobs, Verdicts
  <2>2. (Succeeds \/ Fails) \/ ~(Succeeds \/ Fails)
    OBVIOUS
  <2> QED
    BY <1>1, <1>2, <1>3, <1>4, <1>5, <2>1 DEF JobFits
<1> QED
  BY <1>1, <1>5, <1>6

\* What befalls the host changes no name that bears a service or its backup.
LEMMA EventMoves ==
  ASSUME TypeOK, Event
  PROVE  /\ plan' = plan /\ candidate' = candidate /\ staged' = staged
         /\ routes' = routes /\ record' = record
         /\ faults' \in Nat /\ crashes' \in Nat
         /\ job' \in Jobs /\ (job' = job \/ ~job'.running)
         /\ box' \in [Services -> Boxes]
         /\ \A s \in Services : box'[s].live = box[s].live /\ box'[s].aside = box[s].aside
<1>0. /\ box \in [Services -> Boxes] /\ job \in Jobs /\ faults \in Nat /\ crashes \in Nat
      /\ crashes + 1 \in Nat
  BY DEF TypeOK
<1>1. Died \in Jobs /\ ~Died.running
  BY <1>0 DEF Died, Jobs, Verdicts
<1>2. CASE TimedRenewal
  BY <1>0, <1>2 DEF TimedRenewal, Refreshed, change
<1>3. CASE ScriptDies
  BY <1>0, <1>1, <1>3 DEF ScriptDies, Crash, change, host
<1>4. CASE Interrupted
  <2>1. box' = [box EXCEPT !["caddy"].next = None, !["caddy"].auto = @ \ {Here.next}]
    BY <1>4 DEF Interrupted
  <2>2. /\ box' \in [Services -> Boxes]
        /\ \A s \in Services : box'[s].live = box[s].live /\ box'[s].aside = box[s].aside
    BY <1>0, <2>1 DEF Services, Boxes
  <2> QED
    BY <1>0, <1>4, <2>2 DEF Interrupted, Crash, change
<1>5. CASE Reboot
  <2>1. PICK late \in SUBSET {"new"} :
          box' = [s \in Services |->
                    [box[s] EXCEPT !.up = (@ \cap box[s].auto)
                                            \ (IF s = "udp" THEN late ELSE {})]]
    BY <1>5 DEF Reboot
  <2>2. ASSUME NEW s \in Services
        PROVE  /\ box'[s] \in Boxes
               /\ box'[s].live = box[s].live /\ box'[s].aside = box[s].aside
    BY <1>0, <2>1 DEF Boxes
  <2>3. box' \in [Services -> Boxes]
    BY <2>1, <2>2
  <2> QED
    BY <1>0, <1>1, <1>5, <2>2, <2>3 DEF Reboot, Crash, change
<1> QED
  BY <1>2, <1>3, <1>4, <1>5 DEF Event

\* Every step keeps the types and the script on its rows.
LEMMA TypeStep ==
  ASSUME TypeOK, JobFits, [Next]_vars
  PROVE  TypeOK' /\ JobFits'
<1>0. /\ timer \in BOOLEAN /\ token \in BOOLEAN /\ box \in [Services -> Boxes] /\ plan \in Plans
      /\ staged \subseteq {"udp", "apisix"} /\ candidate \in {"none", "snapshot", "ready"}
      /\ crashes \in Nat /\ faults \in Nat
      /\ routes \in {"old", "some", "new"} /\ record \in Containers
  BY DEF TypeOK
<1>1. timer' \in BOOLEAN /\ token' \in BOOLEAN
  <2>1. CASE DockerCommand
    BY <1>0, <2>1, DockerMoves
  <2>2. CASE FileCommand
    <3>1. timer' \in {timer, TRUE} /\ token' \in {token, TRUE}
      BY <2>2 DEF FileCommand, ReadRoutes, Install, RestoreRoutes, ReadFiles, KeepCopy,
                  WritePending, Unlink, Replace, InstallFiles, Enable, Renew, IsToken,
                  InstallRoutes, RouteChange, Refreshed, Check, Attempt, Fault, host
    <3> QED
      BY <1>0, <3>1
  <2>3. CASE Skip
    BY <1>0, <2>3, SkipMoves
  <2>4. CASE Operator
    BY <1>0, <2>4, OperatorMoves
  <2>5. CASE Event
    BY <1>0, <2>5 DEF Event, TimedRenewal, ScriptDies, Interrupted, Reboot, Refreshed, host
  <2>6. CASE UNCHANGED vars
    BY <1>0, <2>6 DEF vars
  <2> QED
    BY <2>1, <2>2, <2>3, <2>4, <2>5, <2>6 DEF Next, Event
<1>2. CASE Command
  <2>1. /\ box' \in [Services -> Boxes] /\ routes' \in {"old", "some", "new"}
        /\ record' \in Containers
    <3>1. CASE DockerCommand
      BY <1>0, <3>1, DockerMoves, DockerBoxes
    <3>2. CASE FileCommand
      BY <1>0, <3>2, FileMoves
    <3>3. CASE Skip
      BY <1>0, <3>3, SkipMoves
    <3> QED
      BY <1>2, <3>1, <3>2, <3>3 DEF Command
  <2> QED
    BY <1>0, <1>1, <1>2, <2>1, CommandMoves DEF TypeOK
<1>3. CASE Operator
  BY <1>0, <1>1, <1>3, OperatorMoves DEF TypeOK
<1>4. CASE Event
  <2>1. TypeOK'
    BY <1>0, <1>1, <1>4, EventMoves DEF TypeOK
  <2>2. JobFits'
    BY <1>4, EventMoves DEF JobFits
  <2> QED
    BY <2>1, <2>2
<1>5. CASE UNCHANGED vars
  BY <1>5 DEF vars, TypeOK, JobFits
<1> QED
  BY <1>2, <1>3, <1>4, <1>5 DEF Next, Command, Event

\* A script that works on containers works on one that exists.
LEMMA ServiceKnown ==
  ASSUME TypeOK, JobFits, job.running, job.script \notin {"repair", "repairUndo", "installToken"},
         plan # "retrofit"
  PROVE  job.service \in Services
BY PlansAssumption DEF TypeOK, JobFits, ScriptsOf, Services

\* The rows around a removal leave the name as the first row saw it.
LEMMA SafeToRemoveStep ==
  ASSUME IInv, [Next]_vars, plan # "retrofit"
  PROVE  SafeToRemove'
<1>0. TypeOK /\ JobFits /\ SafeToRemove
  BY DEF IInv
<1>1. CASE Operator
  BY <1>0, <1>1, OperatorMoves DEF SafeToRemove
<1>2. CASE Event
  <2> SUFFICES ASSUME job'.running PROVE SafeToRemove'
    BY DEF SafeToRemove
  <2>1. job' = job
    BY <1>0, <1>2, EventMoves
  <2>2. job.script \notin {"repair", "repairUndo", "installToken"}
          => box'[job.service].live = box[job.service].live
    BY <1>0, <1>2, <2>1, ServiceKnown, EventMoves
  <2> QED
    BY <1>0, <2>1, <2>2 DEF SafeToRemove
<1>3. CASE UNCHANGED vars
  BY <1>0, <1>3 DEF SafeToRemove, vars
<1>4. CASE Command
  <2> SUFFICES ASSUME job'.running PROVE SafeToRemove'
    BY DEF SafeToRemove
  <2>1. /\ job.running /\ job.script \in DOMAIN Scripts /\ job.script \in ScriptsOf(plan)
        /\ Now.fail \in Targets[job.script]
        /\ job' \in Jobs /\ job'.service = job.service
        /\ (Succeeds /\ Goes(job.script, job.at + 1))
             \/ (Fails /\ Now.fail # End /\ Goes(Now.fail[1], Now.fail[2]))
        /\ Fails => Now.fail # End /\ Goes(Now.fail[1], Now.fail[2])
    BY <1>0, <1>4, CommandMoves
  <2>2. job.at \in 1..Lengths[job.script] /\ job.at \in Nat
    BY <1>0, <2>1 DEF JobFits, TypeOK, Jobs
  <2>3. job.script \notin {"repair", "repairUndo", "installToken"} => job.service \in Services
    BY <1>0, <2>1, ServiceKnown
  <2>4. ASSUME job'.script = "r4aUndo", job'.at \in 2..4, job'.clears
        PROVE  box'[job.service].live # "old"
    <3>1. job.script = "r4aUndo" /\ job.at \in 1..3 /\ job'.at = job.at + 1
      BY <2>1, <2>2, <2>4 DEF Goes, Targets, Scripts, End
    <3>2. ~Fails
      BY <2>1, <2>4, <3>1 DEF Goes, Targets, End
    <3>3. Now = R4aUndo[job.at]
      BY <3>1 DEF Now, Scripts
    <3>4. CASE job.at = 1
      <4>1. Now.cmd = "look" /\ Now.when = {}
        BY <3>3, <3>4, TableRows
      <4>2. DockerCommand
        BY <1>0, <1>4, <4>1, SkipMoves, FileMoves DEF Command, FileCommands
      <4>3. LookR4a
        BY <1>0, <4>1, <4>2, DockerMoves
      <4>4. box' = box /\ job' = Onward([job EXCEPT !.clears = Here.live # "old"])
        BY <3>2, <4>3 DEF LookR4a, LookAny, Check, Attempt, Fault, Fails, host
      <4>5. job'.clears = (Here.live # "old")
        BY <1>0, <4>4 DEF Onward, TypeOK, Jobs
      <4> QED
        BY <2>4, <4>4, <4>5 DEF Here
    <3>5. CASE job.at \in 2..3
      <4>1. Now.cmd \in {"noRestart", "stop"}
        BY <3>3, <3>5, TableRows
      <4>2. job' = Onward(job) /\ ~FileCommand
        BY <1>0, <1>4, <3>2, <4>1, DockerMoves, SkipMoves, FileMoves DEF Command, FileCommands
      <4>3. job'.clears = job.clears
        BY <1>0, <4>2 DEF Onward, TypeOK, Jobs
      <4>4. box[job.service].live # "old"
        BY <1>0, <2>1, <2>4, <3>1, <3>5, <4>3 DEF SafeToRemove
      <4>5. box'[job.service].live = box[job.service].live
        BY <1>0, <1>4, <2>3, <3>1, <4>1, <4>2, DockerBoxes, SkipMoves
           DEF Command, Renamed
      <4> QED
        BY <4>4, <4>5
    <3> QED
      BY <3>1, <3>4, <3>5
  <2>5. ASSUME job.script = "caddyApply", job.at \in 8..10
        PROVE  box'[job.service].live # "old"
    <3>1. Now.cmd \in {"start", "ready"}
      BY <2>5, TableRows DEF Now, Scripts
    <3>2. box'[job.service].live = box[job.service].live
      BY <1>0, <1>4, <2>3, <2>5, <3>1, DockerBoxes, FileMoves, SkipMoves
         DEF Command, Renamed
    <3> QED
      BY <1>0, <2>1, <2>5, <3>2 DEF SafeToRemove
  <2>6. ASSUME job'.script = "caddyApply", job'.at \in 8..10
        PROVE  box'[job.service].live # "old"
    <3>1. job.script = "caddyApply" /\ job.at \in 7..9
      BY <2>1, <2>2, <2>6 DEF Goes, Targets, Scripts, End
    <3>2. ~Fails
      BY <2>1, <2>6, <3>1 DEF Goes, Targets, End
    <3>3. CASE job.at = 7
      <4>1. Now.cmd = "promote" /\ Now.when = {}
        BY <3>1, <3>3, TableRows DEF Now, Scripts
      <4>2. DockerCommand
        BY <1>0, <1>4, <4>1, SkipMoves, FileMoves DEF Command, FileCommands
      <4> QED
        BY <1>0, <2>3, <3>1, <3>2, <4>1, <4>2, DockerBoxes DEF Promoted
    <3> QED
      BY <2>5, <3>1, <3>3
  <2>7. ASSUME job'.script = "caddyUndo", job'.at = 1
        PROVE  box'[job.service].live # "old"
    <3>1. job.script = "caddyApply" /\ Now.fail = <<"caddyUndo", 1>>
      BY <2>1, <2>2, <2>7 DEF Goes, Targets, Scripts, End
    <3>2. job.at \in 8..10
      BY <2>2, <3>1, TableRows DEF Now, Scripts, Lengths
    <3> QED
      BY <2>5, <3>1, <3>2
  <2> QED
    BY <2>1, <2>4, <2>6, <2>7 DEF SafeToRemove
<1> QED
  BY <1>1, <1>2, <1>3, <1>4 DEF Next, Command, Event

\* What a command removes is not the original.
LEMMA SurvivesStep ==
  ASSUME IInv, [Next]_vars
  PROVE  OriginalSurvives'
<1>0. TypeOK /\ JobFits /\ SafeToRemove /\ OriginalSurvives
  BY DEF IInv
<1>1. CASE Operator
  BY <1>0, <1>1, OperatorMoves DEF OriginalSurvives, Survives
<1>2. CASE Event
  BY <1>0, <1>2, EventMoves DEF OriginalSurvives, Survives
<1>3. CASE UNCHANGED vars
  BY <1>0, <1>3 DEF OriginalSurvives, Survives, vars
<1>4. CASE FileCommand \/ Skip
  BY <1>0, <1>4, FileMoves, SkipMoves DEF OriginalSurvives, Survives
<1>5. CASE DockerCommand
  <2> SUFFICES ASSUME plan # "retrofit", NEW s \in Services PROVE Survives(s)'
    BY <1>0, <1>5, DockerMoves DEF OriginalSurvives
  <2>1. Survives(s)
    BY <1>0 DEF OriginalSurvives
  <2>2. CASE s # job.service
    BY <1>0, <1>5, <2>1, <2>2, DockerBoxes DEF Survives
  <2>3. CASE s = job.service
    <3>1. /\ job.running /\ job.script \in ScriptsOf(plan) /\ plan \in Plans
          /\ job.at \in 1..Lengths[job.script] /\ Now.cmd \in Commands[job.script]
      BY <1>0, <1>5, CommandMoves DEF Command, JobFits, TypeOK
    <3>2. Now.cmd = "remove" => box[s].live # "old"
      <4> SUFFICES ASSUME Now.cmd = "remove" PROVE box[s].live # "old"
        OBVIOUS
      <4>1. job.script = "r4aUndo"
        BY <3>1, PlansAssumption DEF ScriptsOf, Commands
      <4>2. job.at = 4 /\ Now.when = {"clears"}
        BY <3>1, <4>1, TableRows DEF Now, Scripts, Lengths
      <4>3. job.clears
        BY <1>0, <1>5, <4>2, DockerMoves DEF Holds
      <4> QED
        BY <1>0, <2>3, <3>1, <4>1, <4>2, <4>3 DEF SafeToRemove
    <3>3. Now.cmd = "forceRemove" => box[s].live # "old"
      <4> SUFFICES ASSUME Now.cmd = "forceRemove" PROVE box[s].live # "old"
        OBVIOUS
      <4>1. job.script = "caddyUndo"
        BY <3>1, PlansAssumption DEF ScriptsOf, Commands
      <4>2. job.at = 1
        BY <3>1, <4>1, TableRows DEF Now, Scripts, Lengths
      <4> QED
        BY <1>0, <2>3, <3>1, <4>1, <4>2 DEF SafeToRemove
    <3>4. Renamed(box[s], box'[s])
      BY <1>0, <1>5, <2>3, DockerBoxes
    <3>5. None # "old"
      BY NoneAssumption DEF Containers
    <3> QED
      BY <2>1, <3>2, <3>3, <3>4, <3>5 DEF Survives, Renamed
  <2> QED
    BY <2>2, <2>3
<1> QED
  BY <1>1, <1>2, <1>3, <1>4, <1>5 DEF Next, Event

\* UDP first on the way out and last on the way back.
LEMMA OrderedStep ==
  ASSUME IInv, [Next]_vars
  PROVE  Ordered'
<1>0. TypeOK /\ JobFits /\ OriginalSurvives /\ Ordered
  BY DEF IInv
<1>a. plan' = plan
  BY <1>0, CommandMoves, OperatorMoves, EventMoves DEF Next, Command, Event, vars
<1> SUFFICES ASSUME plan = "r4a" PROVE Ordered'
  BY <1>a DEF Ordered
<1>b. {"udp", "apisix"} \subseteq Services
  BY DEF Services
<1>1. CASE Operator
  <2>1. box' = box /\ ~job.running
    BY <1>0, <1>1, OperatorMoves
  <2>2. CASE \E s \in Services : BeginR4a(s)
    <3>1. PICK s \in Services : BeginR4a(s)
      BY <2>2
    <3>2. staged' = staged \cup {s} /\ job'.service = s /\ OriginalRuns(s)
      BY <1>0, <3>1 DEF BeginR4a, Begins, Idle
    <3>3. CASE s = "udp"
      <4>1. box["udp"].live = "old"
        BY <3>2, <3>3 DEF OriginalRuns, InService
      <4> QED
        BY <1>0, <2>1, <3>2, <3>3, <4>1 DEF Ordered
    <3>4. CASE s # "udp"
      <4>1. s = "apisix"
        BY <3>1, <3>4 DEF BeginR4a
      <4>2. box["udp"].live = "new"
        BY <3>2, <4>1 DEF OriginalRuns, InService
      <4> QED
        BY <1>0, <2>1, <3>2, <4>1, <4>2 DEF Ordered
    <3> QED
      BY <3>3, <3>4
  <2>3. CASE \E s \in Services : RollBackR4a(s)
    <3>1. PICK s \in Services : RollBackR4a(s)
      BY <2>3
    <3>2. /\ staged' = staged /\ job'.service = s /\ job'.script = "r4aUndo"
          /\ s = "udp" => ("apisix" \in staged => box["apisix"].live = "old")
      BY <3>1 DEF RollBackR4a, Begins, Idle
    <3> QED
      BY <1>0, <2>1, <3>2 DEF Ordered
  <2>4. CASE BeginToken
    <3>1. staged' = staged /\ job'.script = "installToken"
      BY <2>4 DEF BeginToken, Begins, Idle
    <3> QED
      BY <1>0, <2>1, <3>1 DEF Ordered
  <2>5. CASE Snapshot \/ Complete \/ PrepareRetrofit
    <3>1. staged' = staged /\ job' = job
      BY <2>5 DEF Snapshot, Complete, PrepareRetrofit, Prepare
    <3> QED
      BY <1>0, <2>1, <3>1 DEF Ordered
  <2> QED
    BY <1>1, <2>2, <2>3, <2>4, <2>5
       DEF Operator, BeginRetrofit, RollBackRetrofit, BeginCaddy, BeginRepair
<1>2. CASE Event
  BY <1>0, <1>b, <1>2, EventMoves DEF Ordered
<1>3. CASE UNCHANGED vars
  BY <1>0, <1>3 DEF Ordered, vars
<1>4. CASE Command
  <2>1. /\ job.running /\ job.script \in ScriptsOf(plan) /\ Now.cmd \in Commands[job.script]
        /\ Now.fail \in Targets[job.script] /\ staged' = staged
        /\ job'.running =>
             /\ job'.service = job.service
             /\ Succeeds => Goes(job.script, job.at + 1)
             /\ Fails => Now.fail # End /\ Goes(Now.fail[1], Now.fail[2])
        /\ Succeeds \/ Fails \/ ~job'.running
    BY <1>0, <1>4, CommandMoves
  <2>2. job.script \in {"r4aApply", "r4aUndo", "installToken"}
    BY <2>1 DEF ScriptsOf
  <2>3. job.script # "installToken" => job.service \in {"udp", "apisix"}
    BY <1>0, <2>1 DEF JobFits
  <2>4. job'.running => \/ job'.script = job.script
                        \/ job.script # "installToken" /\ job'.script = "r4aUndo"
    BY <2>1, <2>2 DEF Goes, Targets, End
  <2>5. ASSUME NEW s \in {"udp", "apisix"}, job.script = "installToken" \/ s # job.service
        PROVE  box'[s].live = box[s].live
    <3>1. CASE s # job.service
      BY <1>0, <1>b, <1>4, <3>1, DockerBoxes, FileMoves, SkipMoves DEF Command
    <3>2. CASE job.script = "installToken" /\ s = job.service
      <4>1. Now.cmd \notin {"setAside", "bringBack", "create", "remove", "forceRemove", "promote"}
        BY <2>1, <3>2 DEF Commands
      <4> QED
        BY <1>0, <1>b, <1>4, <3>2, <4>1, DockerBoxes, FileMoves, SkipMoves
           DEF Command, Renamed
    <3> QED
      BY <2>5, <3>1, <3>2
  <2>6. CASE job.script = "installToken"
    BY <1>0, <2>1, <2>4, <2>5, <2>6 DEF Ordered
  <2>7. CASE job.script # "installToken" /\ job.service = "udp"
    <3>1. box["apisix"].live # "new" /\ box'["apisix"].live = box["apisix"].live
      BY <1>0, <2>1, <2>5, <2>7 DEF Ordered
    <3> QED
      BY <2>1, <2>7, <3>1 DEF Ordered
  <2>8. CASE job.script # "installToken" /\ job.service = "apisix"
    <3>1. box'["udp"].live = box["udp"].live
      BY <2>5, <2>8
    <3>2. ASSUME box'["apisix"].live = "new"
          PROVE  "apisix" \in staged /\ box["udp"].live = "new"
      <4>1. CASE box["apisix"].live = "new"
        BY <1>0, <4>1 DEF Ordered
      <4>2. CASE box["apisix"].live # "new"
        <5>1. DockerCommand /\ Renamed(box["apisix"], box'["apisix"])
          BY <1>0, <1>4, <1>b, <2>8, <3>2, <4>2, DockerBoxes, FileMoves, SkipMoves DEF Command
        <5>2. box["apisix"].live = None => box["apisix"].aside = "old"
          BY <1>0, <1>b, NoneAssumption DEF OriginalSurvives, Survives, Containers
        <5>3. None # "new"
          BY NoneAssumption DEF Containers
        <5>4. Now.cmd \in {"create", "promote"}
          BY <3>2, <4>2, <5>1, <5>2, <5>3 DEF Renamed
        <5>5. job.script = "r4aApply"
          BY <2>1, <2>2, <5>4 DEF Commands
        <5> QED
          BY <1>0, <2>1, <2>8, <5>5 DEF Ordered
      <4> QED
        BY <4>1, <4>2
    <3>3. ASSUME job'.running, job'.script = "r4aApply"
          PROVE  "apisix" \in staged /\ box["udp"].live = "new"
      <4>1. job.script = "r4aApply"
        BY <2>4, <3>3
      <4> QED
        BY <1>0, <2>1, <2>8, <4>1 DEF Ordered
    <3> QED
      BY <2>1, <2>8, <3>1, <3>2, <3>3 DEF Ordered
  <2> QED
    BY <2>3, <2>6, <2>7, <2>8
<1> QED
  BY <1>1, <1>2, <1>3, <1>4 DEF Next, Command, Event

\* Routes are recorded after they are installed, and only then.
LEMMA RecordedStep ==
  ASSUME IInv, [Next]_vars
  PROVE  Recorded'
<1>0. TypeOK /\ JobFits /\ Recorded /\ record \in Containers
  BY DEF IInv, TypeOK
<1>1. CASE Operator
  BY <1>0, <1>1, OperatorMoves DEF Recorded
<1>2. CASE Event
  BY <1>0, <1>2, EventMoves DEF Recorded
<1>3. CASE UNCHANGED vars
  BY <1>0, <1>3 DEF Recorded, vars
<1>4. CASE Command
  <2>1. /\ job.running /\ job.script \in DOMAIN Scripts /\ Now.cmd \in Commands[job.script]
        /\ Now.fail \in Targets[job.script]
        /\ job'.running =>
             /\ Succeeds => Goes(job.script, job.at + 1)
             /\ Fails => Now.fail # End /\ Goes(Now.fail[1], Now.fail[2])
        /\ Succeeds \/ Fails \/ ~job'.running
    BY <1>0, <1>4, CommandMoves
  <2>2. job.at \in 1..Lengths[job.script]
    BY <1>0, <2>1 DEF JobFits
  <2>3. job.script = "repair" =>
          /\ job.at \in 1..6 /\ Now.when = {}
          /\ Now.cmd = <<"readRoutes", "install", "read", "keepCopy",
                         "writePending", "replace">>[job.at]
          /\ job.at \in 1..4 => Now.fail = End
    BY <2>2, TableRows DEF Now, Scripts, Lengths
  <2>4. CASE DockerCommand \/ Skip
    <3>1. routes' = routes /\ record' = record
      BY <1>0, <2>4, DockerMoves, SkipMoves
    <3>2. job.script # "repair"
      <4> SUFFICES ASSUME job.script = "repair" PROVE FALSE
        OBVIOUS
      <4>1. Now.when = {} /\ Now.cmd \in FileCommands
        BY <2>1, <2>3 DEF Commands, FileCommands
      <4> QED
        BY <1>0, <2>4, <4>1, DockerMoves, SkipMoves
    <3>3. job'.running => /\ job'.script # "repair"
                          /\ job'.script = "repairUndo" => job.script = "repairUndo"
      BY <2>1, <3>2 DEF Goes, Targets, Scripts, End
    <3> QED
      BY <1>0, <2>1, <3>1, <3>3 DEF Recorded
  <2>5. CASE FileCommand
    <3>0. /\ routes' = routes \/ Now.cmd \in {"install", "restoreRoutes"}
          /\ Now.cmd = "readRoutes" => (Fails \/ routes = "old")
          /\ Now.cmd = "install" => Fails \/ routes' = "new"
          /\ record' = record \/ (Now.cmd = "replace" /\ Succeeds /\ record' = "new")
          /\ Now.cmd = "replace" => Fails \/ record' = "new"
      BY <1>0, <2>5, FileMoves
    <3>1. CASE job.script \notin {"repair", "repairUndo"}
      <4>1. Now.cmd \notin {"install", "restoreRoutes", "replace"}
        BY <2>1, <3>1 DEF Commands, Scripts
      <4>2. job'.running => job'.script \notin {"repair", "repairUndo"}
        BY <2>1, <3>1 DEF Goes, Targets, Scripts, End
      <4> QED
        BY <1>0, <3>0, <4>1, <4>2 DEF Recorded
    <3>2. CASE job.script = "repairUndo"
      <4>1. Now.cmd \in {"unlink", "restoreRoutes"} /\ Now.fail = End
        BY <2>1, <3>2 DEF Commands, Targets
      <4>2. record = "old" /\ record' = "old"
        BY <1>0, <2>1, <3>0, <3>2, <4>1 DEF Recorded
      <4>3. job'.running => job'.script = "repairUndo"
        BY <2>1, <3>2, <4>1 DEF Goes
      <4> QED
        BY <4>2, <4>3 DEF Recorded
    <3>3. CASE job.script = "repair"
      <4>1. ASSUME job'.running
            PROVE  \/ ~Fails /\ job'.script = "repair" /\ job'.at = job.at + 1
                   \/ ~Succeeds /\ job'.script = "repairUndo" /\ job.at \in 5..6
        BY <2>1, <2>3, <3>3, <4>1 DEF Goes, Targets, End
      <4>2. CASE job.at = 1
        <5>1. Now.cmd = "readRoutes"
          BY <2>3, <3>3, <4>2
        <5>2. routes' = routes /\ record' = record /\ (Fails \/ routes = "old")
          BY <3>0, <5>1
        <5> QED
          BY <1>0, <4>1, <4>2, <5>2 DEF Recorded, Containers
      <4>3. CASE job.at = 2
        <5>1. Now.cmd = "install" /\ record = "old"
          BY <1>0, <2>1, <2>3, <3>3, <4>3 DEF Recorded
        <5>2. record' = "old" /\ (Fails \/ routes' = "new")
          BY <3>0, <5>1
        <5> QED
          BY <4>1, <4>3, <5>2 DEF Recorded
      <4>4. CASE job.at \in 3..5
        <5>1. /\ Now.cmd \in {"read", "keepCopy", "writePending"}
              /\ record = "old" /\ routes = "new"
          BY <1>0, <2>1, <2>3, <3>3, <4>4 DEF Recorded
        <5>2. record' = "old" /\ routes' = "new"
          BY <3>0, <5>1
        <5> QED
          BY <4>1, <5>2 DEF Recorded
      <4>5. CASE job.at = 6
        <5>1. Now.cmd = "replace" /\ record = "old" /\ routes = "new"
          BY <1>0, <2>1, <2>3, <3>3, <4>5 DEF Recorded
        <5>2. routes' = "new" /\ (record' = "old" \/ Succeeds)
          BY <3>0, <5>1
        <5>3. job'.running => job'.script = "repairUndo" /\ ~Succeeds
          <6>1. ASSUME job'.running, job'.script = "repair" PROVE FALSE
            BY <1>0, <2>1, <4>1, <4>5, <6>1, CommandMoves, <1>4 DEF JobFits, Lengths
          <6> QED
            BY <4>1, <6>1
        <5> QED
          BY <5>2, <5>3 DEF Recorded
      <4> QED
        BY <2>3, <3>3, <4>2, <4>3, <4>4, <4>5
    <3> QED
      BY <3>1, <3>2, <3>3
  <2> QED
    BY <1>4, <2>4, <2>5 DEF Command
<1> QED
  BY <1>1, <1>2, <1>3, <1>4 DEF Next, Command, Event

(***************************************************************************)
(* The theorems.                                                           *)
(***************************************************************************)

\* A host starts with its originals in service and nothing recorded.
LEMMA InitIInv ==
  Init => IInv
<1> SUFFICES ASSUME Init PROVE IInv
  OBVIOUS
<1>1. box \in [Services -> Boxes]
  BY DEF Init, Boxes, Containers
<1>2. Idle \in Jobs /\ ~Idle.running
  BY DEF Idle, Jobs, Verdicts
<1>3. TypeOK
  BY <1>1, <1>2 DEF Init, TypeOK, Containers
<1>4. \A s \in Services : box[s].live = "old"
  BY DEF Init
<1>5. "apisix" \in Services
  BY DEF Services
<1> QED
  BY <1>2, <1>3, <1>4, <1>5
     DEF Init, IInv, JobFits, SafeToRemove, OriginalSurvives, Survives, Ordered, Recorded

\* The release, Caddy and the repair keep the invariant; of the retrofit only what
\* is not about removals is claimed.
LEMMA NextIInv ==
  IInv /\ [Next]_vars => IInv'
<1> SUFFICES ASSUME IInv, [Next]_vars PROVE IInv'
  OBVIOUS
<1>1. TypeOK' /\ JobFits'
  BY TypeStep DEF IInv
<1>2. OriginalSurvives' /\ Ordered' /\ Recorded'
  BY SurvivesStep, OrderedStep, RecordedStep
<1>3. SafeToRemove'
  <2>1. CASE plan = "retrofit"
    <3>1. plan' = plan
      BY CommandMoves, OperatorMoves, EventMoves DEF IInv, Next, Command, Event, vars
    <3> QED
      BY <1>1, <2>1, <3>1 DEF SafeToRemove, JobFits, ScriptsOf
  <2> QED
    BY <2>1, SafeToRemoveStep
<1> QED
  BY <1>1, <1>2, <1>3 DEF IInv

\* The invariant holds throughout.
THEOREM Invariance == Spec => []IInv
BY InitIInv, NextIInv, PTL DEF Spec

\* Every command of every script, the retrofit's included, keeps the types.
THEOREM TypeCorrect == Spec => []TypeOK
<1>1. IInv => TypeOK
  BY DEF IInv
<1> QED
  BY Invariance, <1>1, PTL

\* The container in service when the change was prepared is never destroyed by the
\* release of rollout_r4a_runtime.py or by caddy/deploy.sh, in any number of
\* attempts, rollbacks, failures of the host, deaths of the script and restarts.
THEOREM NoOriginalIsLost == Spec => []OriginalSurvives
<1>1. IInv => OriginalSurvives
  BY DEF IInv
<1> QED
  BY Invariance, <1>1, PTL

\* APISIX's candidate never runs before the old UDP, whichever command fails.
THEOREM ReleaseIsOrdered == Spec => []ServicesInOrder
<1>1. IInv => ServicesInOrder
  BY DEF IInv, Ordered, ServicesInOrder
<1> QED
  BY Invariance, <1>1, PTL

\* The file of the managed-file routes never names routes that are not installed.
THEOREM RecordIsNotAhead == Spec => []RecordFollowsRoutes
<1>1. IInv => RecordFollowsRoutes
  BY DEF IInv, Recorded, RecordFollowsRoutes
<1> QED
  BY Invariance, <1>1, PTL

(***************************************************************************)
(* What one command does to its script and to the service it works on.     *)
(***************************************************************************)

\* The service is left with these names, and these containers up and to come up.
Left(c, live, aside, up, auto) ==
  c.live = live /\ c.aside = aside /\ c.up = up /\ c.auto = auto
Same(b, c) == Left(c, b.live, b.aside, b.up, b.auto)

\* The present command has been done, from b to c.
Done(b, c) ==
  /\ Now.cmd = "noRestart" => b.live # None /\ Left(c, b.live, b.aside, b.up, b.auto \ {b.live})
  /\ Now.cmd = "restart" =>
       b.live # None /\ Left(c, b.live, b.aside, b.up, b.auto \cup {b.live})
  /\ Now.cmd = "stop" => b.live # None /\ Left(c, b.live, b.aside, b.up \ {b.live}, b.auto)
  /\ Now.cmd = "start" => b.live # None /\ Left(c, b.live, b.aside, b.up \cup {b.live}, b.auto)
  /\ Now.cmd = "setAside" =>
       b.live # None /\ b.aside = None /\ Left(c, None, b.live, b.up, b.auto)
  /\ Now.cmd = "bringBack" =>
       b.live = None /\ b.aside # None /\ Left(c, b.aside, None, b.up, b.auto)
  /\ Now.cmd = "create" =>
       b.live = None /\ Left(c, "new", b.aside, b.up, b.auto \cup {"new"})
  /\ Now.cmd = "remove" =>
       /\ b.live # None /\ b.live \notin b.up
       /\ Left(c, None, b.aside, b.up, b.auto \ {b.live})
  /\ Now.cmd = "forceRemove" =>
       b.live # None /\ Left(c, None, b.aside, b.up \ {b.live}, b.auto \ {b.live})
  /\ Now.cmd \in {"dropNext", "createNext"} =>
       c.live = b.live /\ c.aside = b.aside /\ c.up = b.up
  /\ Now.cmd \in {"connect", "connectNext", "look", "lookAny", "lookAside", "lookNew", "isOld",
                  "isAside", "isUp", "isNew", "ready"} => Same(b, c)
  /\ Now.cmd = "promote" => b.live = None /\ Left(c, "new", b.aside, b.up, b.auto)
  /\ Now.cmd \in {"look", "lookAny"} => b.live # None
  /\ Now.cmd = "lookAside" => b.aside # None
  /\ Now.cmd = "isOld" => b.live = "old"
  /\ Now.cmd = "isAside" => b.aside = "old"
  /\ Now.cmd = "isNew" => b.live = "new" /\ b.live \in b.up
  /\ Now.cmd \in {"isUp", "ready"} => b.live # None /\ b.live \in b.up

\* The present command cannot be done in b: why, where an undo depends on it.
Impossible(b) ==
  /\ Now.cmd \in {"noRestart", "restart", "stop", "look", "lookAny", "forceRemove"}
       => b.live = None
  /\ Now.cmd = "start" => b.live # "old"
  /\ Now.cmd = "bringBack" => b.live # None \/ b.aside = None
  /\ Now.cmd = "remove" => b.live = None \/ b.live \in b.up
  /\ Now.cmd = "lookAside" => b.aside = None
  /\ Now.cmd = "isOld" => b.live # "old"
  /\ Now.cmd \in {"isUp", "ready"} => b.live = None \/ b.live \notin b.up

\* The script goes on to its next row, or ends after its last.
Advances(clears, brings) ==
  /\ job'.script = job.script /\ job'.service = job.service
  /\ job'.kept = job.kept /\ job'.clean = job.clean
  /\ job'.clears = clears /\ job'.brings = brings
  /\ job.at < Lengths[job.script] =>
       job'.running /\ job'.at = job.at + 1 /\ job'.verdict = job.verdict
  /\ ~(job.at < Lengths[job.script]) => ~job'.running /\ job'.verdict = Verdict[job.script]

\* The script ends, goes on at another row, or its undo starts.
Falls(byFault) ==
  /\ job'.service = job.service /\ job'.clears = job.clears /\ job'.brings = job.brings
  /\ Now.fail = End =>
       /\ job'.script = job.script /\ ~job'.running /\ job'.verdict = "blocked"
       /\ job'.kept = job.kept /\ (job'.clean <=> job.clean /\ ~byFault)
  /\ Now.fail # End /\ Now.fail[1] = job.script =>
       /\ job'.script = job.script /\ job'.at = Now.fail[2] /\ job'.running
       /\ job'.verdict = job.verdict
       /\ job'.kept = job.kept /\ (job'.clean <=> job.clean /\ ~byFault)
  /\ Now.fail # End /\ Now.fail[1] # job.script =>
       /\ job'.script = Now.fail[1] /\ job'.at = 1 /\ job'.running /\ job'.verdict = job.verdict
       /\ job'.clean /\ (job'.kept <=> KeptNow(job.service) /\ ~job.kept)

\* The fields of a job that goes on.
LEMMA OnwardFields ==
  ASSUME TypeOK, JobFits, job.running, NEW c \in BOOLEAN, NEW b \in BOOLEAN,
         job' = Onward(Learnt(c, b))
  PROVE  Advances(c, b)
<1>1. job \in Jobs /\ job.script \in DOMAIN Scripts
  BY PlansHaveScripts DEF TypeOK, JobFits
<1>2. Len(Scripts[job.script]) = Lengths[job.script]
  BY <1>1, TableLengths
<1> DEFINE j == Learnt(c, b)
<1>3. /\ j \in Jobs /\ j.script = job.script /\ j.at = job.at /\ j.service = job.service
      /\ j.running /\ j.clears = c /\ j.brings = b /\ j.clean = job.clean /\ j.kept = job.kept
      /\ j.verdict = job.verdict
  BY <1>1 DEF Jobs, Learnt
<1>4. /\ job.at < Lengths[job.script] => job' = [j EXCEPT !.at = @ + 1]
      /\ ~(job.at < Lengths[job.script])
           => job' = [j EXCEPT !.running = FALSE, !.verdict = Verdict[j.script]]
  BY <1>2, <1>3 DEF Onward
<1> HIDE DEF j
<1>5. CASE job.at < Lengths[job.script]
  BY <1>3, <1>4, <1>5 DEF Jobs, Advances
<1>6. CASE ~(job.at < Lengths[job.script])
  BY <1>3, <1>4, <1>6 DEF Jobs, Advances
<1> QED
  BY <1>5, <1>6

\* The fields of a job that fails.
LEMMA FailingFields ==
  ASSUME TypeOK, JobFits, job.running, NEW byFault \in BOOLEAN, job' = Failing(byFault)
  PROVE  Falls(byFault)
<1>1. job \in Jobs
  BY DEF TypeOK
<1>2. CASE Now.fail = End
  <2>1. job' = [job EXCEPT !.running = FALSE, !.verdict = "blocked", !.clean = @ /\ ~byFault]
    BY <1>2 DEF Failing
  <2> QED
    BY <1>1, <1>2, <2>1 DEF Jobs, Falls
<1>3. CASE Now.fail # End /\ Now.fail[1] = job.script
  <2>1. job' = [job EXCEPT !.at = Now.fail[2], !.clean = @ /\ ~byFault]
    BY <1>3 DEF Failing
  <2> QED
    BY <1>1, <1>3, <2>1 DEF Jobs, Falls
<1>4. CASE Now.fail # End /\ Now.fail[1] # job.script
  <2>1. PICK kept \in BOOLEAN : kept = (KeptNow(job.service) /\ ~job.kept)
    OBVIOUS
  <2>2. job' = [job EXCEPT !.script = Now.fail[1], !.at = 1, !.clean = TRUE, !.kept = kept]
    BY <1>4, <2>1 DEF Failing
  <2>3. /\ job'.script = Now.fail[1] /\ job'.at = 1 /\ job'.clean /\ job'.kept = kept
        /\ job'.service = job.service /\ job'.running /\ job'.verdict = job.verdict
        /\ job'.clears = job.clears /\ job'.brings = job.brings
    BY <1>1, <2>2 DEF Jobs
  <2> QED
    BY <1>4, <2>1, <2>3 DEF Falls
<1> QED
  BY <1>2, <1>3, <1>4

\* What the looks teach a script about b.
Sees(b, clears, brings) ==
  /\ Now.cmd = "look" => (clears <=> b.live # "old") /\ brings = job.brings
  /\ Now.cmd = "lookAny" => clears /\ brings = job.brings
  /\ Now.cmd = "lookAside" => ~clears /\ brings
  /\ Now.cmd \notin {"look", "lookAny", "lookAside"} =>
       clears = job.clears /\ brings = job.brings

\* The ways a command of Docker ends: done; impossible; by a fault, before or
\* after it took effect; or finding that there is nothing to do.
Ends(b, c) ==
  \/ Done(b, c) /\ \E clears \in BOOLEAN, brings \in BOOLEAN :
       Sees(b, clears, brings) /\ job' = Onward(Learnt(clears, brings))
  \/ Impossible(b) /\ Same(b, c) /\ job' = Failing(FALSE)
  \/ (Same(b, c) \/ Done(b, c)) /\ job' = Failing(TRUE)
  \/ Now.cmd = "lookNew" /\ Same(b, c) /\ Stops

\* Every command of Docker ends in one of these ways.
LEMMA DockerEnds ==
  ASSUME TypeOK, JobFits, DockerCommand, job.service \in Services
  PROVE  Ends(box[job.service], box'[job.service])
<1> DEFINE b == box[job.service]
<1> DEFINE c == box'[job.service]
<1>0. /\ box \in [Services -> Boxes] /\ b \in Boxes /\ None \notin Containers
      /\ "new" \in Containers /\ "old" \in Containers /\ "new" # "old"
  BY NoneAssumption DEF TypeOK, Containers
<1>a. box' = box => Same(b, c)
  BY DEF Same, Left
<1>b. \A d \in Boxes : box' = [box EXCEPT ![job.service] = d] => c = d
  BY <1>0
<1>c. job.clears \in BOOLEAN /\ job.brings \in BOOLEAN
  BY DEF TypeOK, Jobs
<1>d. ASSUME Now.cmd \notin {"look", "lookAny", "lookAside"}, Done(b, c), job' = Onward(job)
      PROVE  Ends(b, c)
  <2>1. job = Learnt(job.clears, job.brings)
    BY DEF TypeOK, Jobs, Learnt
  <2>2. job' = Onward(Learnt(job.clears, job.brings))
    BY <1>d, <2>1
  <2> QED
    BY <1>c, <1>d, <2>2 DEF Ends, Sees
<1>1. CASE NoRestart
  <2> DEFINE d == [b EXCEPT !.auto = @ \ {b.live}]
  <2> DEFINE put == box' = [box EXCEPT ![job.service] = d]
  <2>1. /\ Now.cmd = "noRestart"
        /\ \/ b.live # None /\ put /\ job' = Onward(job)
           \/ ~(b.live # None) /\ box' = box /\ job' = Failing(FALSE)
           \/ box' = box /\ job' = Failing(TRUE)
           \/ b.live # None /\ put /\ job' = Failing(TRUE)
    BY <1>1 DEF NoRestart, Docker, Becomes, Attempt, Doing, Fault, Named, Here, host
  <2>2.
          d \in Boxes /\ Left(d, b.live, b.aside, b.up, b.auto \ {b.live})
    BY <1>0 DEF Boxes, Left, Same
  <2> HIDE DEF d
  <2>3. b.live # None /\ put => Done(b, c)
    BY <1>b, <2>1, <2>2 DEF Done, Left, Same
  <2>4. ~(b.live # None) => Impossible(b)
    BY <1>0, <2>1 DEF Impossible
  <2> QED
    BY <1>a, <1>d, <2>1, <2>3, <2>4 DEF Ends
<1>2. CASE Restart
  <2> DEFINE d == [b EXCEPT !.auto = @ \cup {b.live}]
  <2> DEFINE put == box' = [box EXCEPT ![job.service] = d]
  <2>1. /\ Now.cmd = "restart"
        /\ \/ b.live # None /\ put /\ job' = Onward(job)
           \/ ~(b.live # None) /\ box' = box /\ job' = Failing(FALSE)
           \/ box' = box /\ job' = Failing(TRUE)
           \/ b.live # None /\ put /\ job' = Failing(TRUE)
    BY <1>2 DEF Restart, Docker, Becomes, Attempt, Doing, Fault, Named, Here, host
  <2>2. b.live # None =>
          d \in Boxes /\ Left(d, b.live, b.aside, b.up, b.auto \cup {b.live})
    BY <1>0 DEF Boxes, Left, Same
  <2> HIDE DEF d
  <2>3. b.live # None /\ put => Done(b, c)
    BY <1>b, <2>1, <2>2 DEF Done, Left, Same
  <2>4. ~(b.live # None) => Impossible(b)
    BY <1>0, <2>1 DEF Impossible
  <2> QED
    BY <1>a, <1>d, <2>1, <2>3, <2>4 DEF Ends
<1>3. CASE Stop
  <2> DEFINE d == [b EXCEPT !.up = @ \ {b.live}]
  <2> DEFINE put == box' = [box EXCEPT ![job.service] = d]
  <2>1. /\ Now.cmd = "stop"
        /\ \/ b.live # None /\ put /\ job' = Onward(job)
           \/ ~(b.live # None) /\ box' = box /\ job' = Failing(FALSE)
           \/ box' = box /\ job' = Failing(TRUE)
           \/ b.live # None /\ put /\ job' = Failing(TRUE)
    BY <1>3 DEF Stop, Docker, Becomes, Attempt, Doing, Fault, Named, Here, host
  <2>2.
          d \in Boxes /\ Left(d, b.live, b.aside, b.up \ {b.live}, b.auto)
    BY <1>0 DEF Boxes, Left, Same
  <2> HIDE DEF d
  <2>3. b.live # None /\ put => Done(b, c)
    BY <1>b, <2>1, <2>2 DEF Done, Left, Same
  <2>4. ~(b.live # None) => Impossible(b)
    BY <1>0, <2>1 DEF Impossible
  <2> QED
    BY <1>a, <1>d, <2>1, <2>3, <2>4 DEF Ends
<1>4. CASE Start
  <2> DEFINE d == [b EXCEPT !.up = @ \cup {b.live}]
  <2> DEFINE put == box' = [box EXCEPT ![job.service] = d]
  <2>1. /\ Now.cmd = "start"
        /\ \/ b.live # None /\ Mountable(b.live) /\ put /\ job' = Onward(job)
           \/ ~(b.live # None /\ Mountable(b.live)) /\ box' = box /\ job' = Failing(FALSE)
           \/ box' = box /\ job' = Failing(TRUE)
           \/ b.live # None /\ Mountable(b.live) /\ put /\ job' = Failing(TRUE)
    BY <1>4 DEF Start, Docker, Becomes, Attempt, Doing, Fault, Named, Here, host
  <2>2. b.live # None /\ Mountable(b.live) =>
          d \in Boxes /\ Left(d, b.live, b.aside, b.up \cup {b.live}, b.auto)
    BY <1>0 DEF Boxes, Left, Same
  <2> HIDE DEF d
  <2>3. b.live # None /\ Mountable(b.live) /\ put => Done(b, c)
    BY <1>b, <2>1, <2>2 DEF Done, Left, Same
  <2>4. ~(b.live # None /\ Mountable(b.live)) => Impossible(b)
    BY <1>0, <2>1 DEF Impossible, Mountable
  <2> QED
    BY <1>a, <1>d, <2>1, <2>3, <2>4 DEF Ends
<1>5. CASE SetAside
  <2> DEFINE d == [b EXCEPT !.aside = b.live, !.live = None]
  <2> DEFINE put == box' = [box EXCEPT ![job.service] = d]
  <2>1. /\ Now.cmd = "setAside"
        /\ \/ b.live # None /\ b.aside = None /\ put /\ job' = Onward(job)
           \/ ~(b.live # None /\ b.aside = None) /\ box' = box /\ job' = Failing(FALSE)
           \/ box' = box /\ job' = Failing(TRUE)
           \/ b.live # None /\ b.aside = None /\ put /\ job' = Failing(TRUE)
    BY <1>5 DEF SetAside, Docker, Becomes, Attempt, Doing, Fault, Named, Here, host
  <2>2. b.live # None /\ b.aside = None =>
          d \in Boxes /\ Left(d, None, b.live, b.up, b.auto)
    BY <1>0 DEF Boxes, Left, Same
  <2> HIDE DEF d
  <2>3. b.live # None /\ b.aside = None /\ put => Done(b, c)
    BY <1>b, <2>1, <2>2 DEF Done, Left, Same
  <2>4. ~(b.live # None /\ b.aside = None) => Impossible(b)
    BY <1>0, <2>1 DEF Impossible
  <2> QED
    BY <1>a, <1>d, <2>1, <2>3, <2>4 DEF Ends
<1>6. CASE BringBack
  <2> DEFINE d == [b EXCEPT !.live = b.aside, !.aside = None]
  <2> DEFINE put == box' = [box EXCEPT ![job.service] = d]
  <2>1. /\ Now.cmd = "bringBack"
        /\ \/ b.live = None /\ b.aside # None /\ put /\ job' = Onward(job)
           \/ ~(b.live = None /\ b.aside # None) /\ box' = box /\ job' = Failing(FALSE)
           \/ box' = box /\ job' = Failing(TRUE)
           \/ b.live = None /\ b.aside # None /\ put /\ job' = Failing(TRUE)
    BY <1>6 DEF BringBack, Docker, Becomes, Attempt, Doing, Fault, Named, Here, host
  <2>2. b.live = None /\ b.aside # None =>
          d \in Boxes /\ Left(d, b.aside, None, b.up, b.auto)
    BY <1>0 DEF Boxes, Left, Same
  <2> HIDE DEF d
  <2>3. b.live = None /\ b.aside # None /\ put => Done(b, c)
    BY <1>b, <2>1, <2>2 DEF Done, Left, Same
  <2>4. ~(b.live = None /\ b.aside # None) => Impossible(b)
    BY <1>0, <2>1 DEF Impossible
  <2> QED
    BY <1>a, <1>d, <2>1, <2>3, <2>4 DEF Ends
<1>7. CASE Create
  <2> DEFINE d == [b EXCEPT !.live = "new", !.auto = @ \cup {"new"}]
  <2> DEFINE put == box' = [box EXCEPT ![job.service] = d]
  <2>1. /\ Now.cmd = "create"
        /\ \/ b.live = None /\ Mountable("new") /\ put /\ job' = Onward(job)
           \/ ~(b.live = None /\ Mountable("new")) /\ box' = box /\ job' = Failing(FALSE)
           \/ box' = box /\ job' = Failing(TRUE)
           \/ b.live = None /\ Mountable("new") /\ put /\ job' = Failing(TRUE)
    BY <1>7 DEF Create, Docker, Becomes, Attempt, Doing, Fault, Named, Here, host
  <2>2.
          d \in Boxes /\ Left(d, "new", b.aside, b.up, b.auto \cup {"new"})
    BY <1>0 DEF Boxes, Left, Same
  <2> HIDE DEF d
  <2>3. b.live = None /\ Mountable("new") /\ put => Done(b, c)
    BY <1>b, <2>1, <2>2 DEF Done, Left, Same
  <2>4. ~(b.live = None /\ Mountable("new")) => Impossible(b)
    BY <1>0, <2>1 DEF Impossible, Mountable
  <2> QED
    BY <1>a, <1>d, <2>1, <2>3, <2>4 DEF Ends
<1>8. CASE Connect
  <2> DEFINE d == b
  <2> DEFINE put == box' = [box EXCEPT ![job.service] = d]
  <2>1. /\ Now.cmd = "connect"
        /\ \/ b.live # None /\ put /\ job' = Onward(job)
           \/ ~(b.live # None) /\ box' = box /\ job' = Failing(FALSE)
           \/ box' = box /\ job' = Failing(TRUE)
           \/ b.live # None /\ put /\ job' = Failing(TRUE)
    BY <1>8 DEF Connect, Docker, Becomes, Attempt, Doing, Fault, Named, Here, host
  <2>2.
          d \in Boxes /\ Same(b, d)
    BY <1>0 DEF Boxes, Left, Same
  <2> HIDE DEF d
  <2>3. b.live # None /\ put => Done(b, c)
    BY <1>b, <2>1, <2>2 DEF Done, Left, Same
  <2>4. ~(b.live # None) => Impossible(b)
    BY <1>0, <2>1 DEF Impossible
  <2> QED
    BY <1>a, <1>d, <2>1, <2>3, <2>4 DEF Ends
<1>9. CASE Remove
  <2> DEFINE d == [b EXCEPT !.live = None, !.auto = @ \ {b.live}]
  <2> DEFINE put == box' = [box EXCEPT ![job.service] = d]
  <2>1. /\ Now.cmd = "remove"
        /\ \/ b.live # None /\ b.live \notin b.up /\ put /\ job' = Onward(job)
           \/ ~(b.live # None /\ b.live \notin b.up) /\ box' = box /\ job' = Failing(FALSE)
           \/ box' = box /\ job' = Failing(TRUE)
           \/ b.live # None /\ b.live \notin b.up /\ put /\ job' = Failing(TRUE)
    BY <1>9 DEF Remove, Docker, Becomes, Attempt, Doing, Fault, Named, Here, host
  <2>2.
          d \in Boxes /\ Left(d, None, b.aside, b.up, b.auto \ {b.live})
    BY <1>0 DEF Boxes, Left, Same
  <2> HIDE DEF d
  <2>3. b.live # None /\ b.live \notin b.up /\ put => Done(b, c)
    BY <1>b, <2>1, <2>2 DEF Done, Left, Same
  <2>4. ~(b.live # None /\ b.live \notin b.up) => Impossible(b)
    BY <1>0, <2>1 DEF Impossible
  <2> QED
    BY <1>a, <1>d, <2>1, <2>3, <2>4 DEF Ends
<1>10. CASE ForceRemove
  <2> DEFINE d == [b EXCEPT !.live = None, !.up = @ \ {b.live}, !.auto = @ \ {b.live}]
  <2> DEFINE put == box' = [box EXCEPT ![job.service] = d]
  <2>1. /\ Now.cmd = "forceRemove"
        /\ \/ b.live # None /\ put /\ job' = Onward(job)
           \/ ~(b.live # None) /\ box' = box /\ job' = Failing(FALSE)
           \/ box' = box /\ job' = Failing(TRUE)
           \/ b.live # None /\ put /\ job' = Failing(TRUE)
    BY <1>10 DEF ForceRemove, Docker, Becomes, Attempt, Doing, Fault, Named, Here, host
  <2>2.
          d \in Boxes /\ Left(d, None, b.aside, b.up \ {b.live}, b.auto \ {b.live})
    BY <1>0 DEF Boxes, Left, Same
  <2> HIDE DEF d
  <2>3. b.live # None /\ put => Done(b, c)
    BY <1>b, <2>1, <2>2 DEF Done, Left, Same
  <2>4. ~(b.live # None) => Impossible(b)
    BY <1>0, <2>1 DEF Impossible
  <2> QED
    BY <1>a, <1>d, <2>1, <2>3, <2>4 DEF Ends
<1>11. CASE DropNext
  <2> DEFINE d == [b EXCEPT !.next = None, !.auto = @ \ {"new"}]
  <2> DEFINE put == box' = [box EXCEPT ![job.service] = d]
  <2>1. /\ Now.cmd = "dropNext"
        /\ \/ b.next # None /\ put /\ job' = Onward(job)
           \/ ~(b.next # None) /\ box' = box /\ job' = Failing(FALSE)
           \/ box' = box /\ job' = Failing(TRUE)
           \/ b.next # None /\ put /\ job' = Failing(TRUE)
    BY <1>11 DEF DropNext, Docker, Becomes, Attempt, Doing, Fault, Named, Here, host
  <2>2.
          d \in Boxes /\ d.live = b.live /\ d.aside = b.aside /\ d.up = b.up
    BY <1>0 DEF Boxes, Left, Same
  <2> HIDE DEF d
  <2>3. b.next # None /\ put => Done(b, c)
    BY <1>b, <2>1, <2>2 DEF Done, Left, Same
  <2>4. ~(b.next # None) => Impossible(b)
    BY <1>0, <2>1 DEF Impossible
  <2> QED
    BY <1>a, <1>d, <2>1, <2>3, <2>4 DEF Ends
<1>12. CASE CreateNext
  <2> DEFINE d == [b EXCEPT !.next = "new", !.auto = @ \cup {"new"}]
  <2> DEFINE put == box' = [box EXCEPT ![job.service] = d]
  <2>1. /\ Now.cmd = "createNext"
        /\ \/ b.next = None /\ put /\ job' = Onward(job)
           \/ ~(b.next = None) /\ box' = box /\ job' = Failing(FALSE)
           \/ box' = box /\ job' = Failing(TRUE)
           \/ b.next = None /\ put /\ job' = Failing(TRUE)
    BY <1>12 DEF CreateNext, Docker, Becomes, Attempt, Doing, Fault, Named, Here, host
  <2>2.
          d \in Boxes /\ d.live = b.live /\ d.aside = b.aside /\ d.up = b.up
    BY <1>0 DEF Boxes, Left, Same
  <2> HIDE DEF d
  <2>3. b.next = None /\ put => Done(b, c)
    BY <1>b, <2>1, <2>2 DEF Done, Left, Same
  <2>4. ~(b.next = None) => Impossible(b)
    BY <1>0, <2>1 DEF Impossible
  <2> QED
    BY <1>a, <1>d, <2>1, <2>3, <2>4 DEF Ends
<1>13. CASE ConnectNext
  <2> DEFINE d == b
  <2> DEFINE put == box' = [box EXCEPT ![job.service] = d]
  <2>1. /\ Now.cmd = "connectNext"
        /\ \/ b.next # None /\ put /\ job' = Onward(job)
           \/ ~(b.next # None) /\ box' = box /\ job' = Failing(FALSE)
           \/ box' = box /\ job' = Failing(TRUE)
           \/ b.next # None /\ put /\ job' = Failing(TRUE)
    BY <1>13 DEF ConnectNext, Docker, Becomes, Attempt, Doing, Fault, Named, Here, host
  <2>2.
          d \in Boxes /\ Same(b, d)
    BY <1>0 DEF Boxes, Left, Same
  <2> HIDE DEF d
  <2>3. b.next # None /\ put => Done(b, c)
    BY <1>b, <2>1, <2>2 DEF Done, Left, Same
  <2>4. ~(b.next # None) => Impossible(b)
    BY <1>0, <2>1 DEF Impossible
  <2> QED
    BY <1>a, <1>d, <2>1, <2>3, <2>4 DEF Ends
<1>14. CASE Promote
  <2> DEFINE d == [b EXCEPT !.live = b.next, !.next = None]
  <2> DEFINE put == box' = [box EXCEPT ![job.service] = d]
  <2>1. /\ Now.cmd = "promote"
        /\ \/ b.next # None /\ b.live = None /\ put /\ job' = Onward(job)
           \/ ~(b.next # None /\ b.live = None) /\ box' = box /\ job' = Failing(FALSE)
           \/ box' = box /\ job' = Failing(TRUE)
           \/ b.next # None /\ b.live = None /\ put /\ job' = Failing(TRUE)
    BY <1>14 DEF Promote, Docker, Becomes, Attempt, Doing, Fault, Named, Here, host
  <2>2. b.next # None /\ b.live = None =>
          d \in Boxes /\ Left(d, "new", b.aside, b.up, b.auto)
    BY <1>0 DEF Boxes, Left, Same
  <2> HIDE DEF d
  <2>3. b.next # None /\ b.live = None /\ put => Done(b, c)
    BY <1>b, <2>1, <2>2 DEF Done, Left, Same
  <2>4. ~(b.next # None /\ b.live = None) => Impossible(b)
    BY <1>0, <2>1 DEF Impossible
  <2> QED
    BY <1>a, <1>d, <2>1, <2>3, <2>4 DEF Ends
<1>15. CASE IsOld
  <2>1. /\ Now.cmd = "isOld" /\ box' = box
        /\ \/ b.live = "old" /\ job' = Onward(job)
           \/ ~(b.live = "old") /\ job' = Failing(FALSE)
           \/ job' = Failing(TRUE)
    BY <1>15 DEF IsOld, Check, Attempt, Doing, Fault, Named, Here, host
  <2>2. b.live = "old" => Done(b, c)
    BY <1>a, <2>1 DEF Done
  <2>3. ~(b.live = "old") => Impossible(b)
    BY <2>1 DEF Impossible
  <2> QED
    BY <1>a, <1>d, <2>1, <2>2, <2>3 DEF Ends
<1>16. CASE IsAside
  <2>1. /\ Now.cmd = "isAside" /\ box' = box
        /\ \/ b.aside = "old" /\ job' = Onward(job)
           \/ ~(b.aside = "old") /\ job' = Failing(FALSE)
           \/ job' = Failing(TRUE)
    BY <1>16 DEF IsAside, Check, Attempt, Doing, Fault, Named, Here, host
  <2>2. b.aside = "old" => Done(b, c)
    BY <1>a, <2>1 DEF Done
  <2>3. ~(b.aside = "old") => Impossible(b)
    BY <2>1 DEF Impossible
  <2> QED
    BY <1>a, <1>d, <2>1, <2>2, <2>3 DEF Ends
<1>17. CASE IsUp
  <2>1. /\ Now.cmd = "isUp" /\ box' = box
        /\ \/ b.live # None /\ b.live \in b.up /\ job' = Onward(job)
           \/ ~(b.live # None /\ b.live \in b.up) /\ job' = Failing(FALSE)
           \/ job' = Failing(TRUE)
    BY <1>17 DEF IsUp, Check, Attempt, Doing, Fault, Named, Here, host
  <2>2. b.live # None /\ b.live \in b.up => Done(b, c)
    BY <1>a, <2>1 DEF Done
  <2>3. ~(b.live # None /\ b.live \in b.up) => Impossible(b)
    BY <2>1 DEF Impossible
  <2> QED
    BY <1>a, <1>d, <2>1, <2>2, <2>3 DEF Ends
<1>18. CASE IsNew
  <2>1. /\ Now.cmd = "isNew" /\ box' = box
        /\ \/ b.live = "new" /\ b.live \in b.up /\ job' = Onward(job)
           \/ ~(b.live = "new" /\ b.live \in b.up) /\ job' = Failing(FALSE)
           \/ job' = Failing(TRUE)
    BY <1>18 DEF IsNew, Check, Attempt, Doing, Fault, Named, Here, host
  <2>2. b.live = "new" /\ b.live \in b.up => Done(b, c)
    BY <1>a, <2>1 DEF Done
  <2>3. ~(b.live = "new" /\ b.live \in b.up) => Impossible(b)
    BY <2>1 DEF Impossible
  <2> QED
    BY <1>a, <1>d, <2>1, <2>2, <2>3 DEF Ends
<1>19. CASE Ready
  <2>1. /\ Now.cmd = "ready" /\ box' = box
        /\ \/ b.live # None /\ b.live \in b.up /\ job' = Onward(job)
           \/ ~(b.live # None /\ b.live \in b.up) /\ job' = Failing(FALSE)
           \/ job' = Failing(TRUE)
    BY <1>19 DEF Ready, Check, Attempt, Doing, Fault, Named, Here, host
  <2>2. b.live # None /\ b.live \in b.up => Done(b, c)
    BY <1>a, <2>1 DEF Done
  <2>3. ~(b.live # None /\ b.live \in b.up) => Impossible(b)
    BY <2>1 DEF Impossible
  <2> QED
    BY <1>a, <1>d, <2>1, <2>2, <2>3 DEF Ends
<1>20. CASE LookR4a
  <2>1. PICK clears \in BOOLEAN, brings \in BOOLEAN :
          clears = (b.live # "old") /\ brings = job.brings
    BY <1>c
  <2>2. [job EXCEPT !.clears = b.live # "old"] = Learnt(clears, brings)
    BY <2>1 DEF Learnt, TypeOK, Jobs
  <2>3. /\ Now.cmd = "look" /\ box' = box
        /\ \/ b.live # None /\ job' = Onward(Learnt(clears, brings))
           \/ ~(b.live # None) /\ job' = Failing(FALSE)
           \/ job' = Failing(TRUE)
    BY <1>20, <2>2 DEF LookR4a, LookAny, Check, Attempt, Doing, Fault, Named, Here, host
  <2>4. Sees(b, clears, brings)
    BY <2>1, <2>3 DEF Sees
  <2>5. b.live # None => Done(b, c)
    BY <1>a, <2>3 DEF Done
  <2>6. ~(b.live # None) => Impossible(b)
    BY <2>3 DEF Impossible
  <2> QED
    BY <1>a, <2>3, <2>4, <2>5, <2>6 DEF Ends
<1>21. CASE Look
  <2>1. PICK clears \in BOOLEAN, brings \in BOOLEAN : clears = TRUE /\ brings = job.brings
    BY <1>c
  <2>2. [job EXCEPT !.clears = TRUE] = Learnt(clears, brings)
    BY <2>1 DEF Learnt, TypeOK, Jobs
  <2>3. /\ Now.cmd = "lookAny" /\ box' = box
        /\ \/ b.live # None /\ job' = Onward(Learnt(clears, brings))
           \/ ~(b.live # None) /\ job' = Failing(FALSE)
           \/ job' = Failing(TRUE)
    BY <1>21, <2>2 DEF Look, LookAny, Check, Attempt, Doing, Fault, Named, Here, host
  <2>4. Sees(b, clears, brings)
    BY <2>1, <2>3 DEF Sees
  <2>5. b.live # None => Done(b, c)
    BY <1>a, <2>3 DEF Done
  <2>6. ~(b.live # None) => Impossible(b)
    BY <2>3 DEF Impossible
  <2> QED
    BY <1>a, <2>3, <2>4, <2>5, <2>6 DEF Ends
<1>22. CASE LookAside
  <2>1. PICK clears \in BOOLEAN, brings \in BOOLEAN : clears = FALSE /\ brings = TRUE
    BY <1>c
  <2>2. [job EXCEPT !.clears = FALSE, !.brings = TRUE] = Learnt(clears, brings)
    BY <2>1 DEF Learnt, TypeOK, Jobs
  <2>3. /\ Now.cmd = "lookAside" /\ box' = box
        /\ \/ b.aside # None /\ job' = Onward(Learnt(clears, brings))
           \/ ~(b.aside # None) /\ job' = Failing(FALSE)
           \/ job' = Failing(TRUE)
    BY <1>22, <2>2 DEF LookAside, Check, Attempt, Doing, Fault, Named, Here, host
  <2>4. Sees(b, clears, brings)
    BY <2>1, <2>3 DEF Sees
  <2>5. b.aside # None => Done(b, c)
    BY <1>a, <2>3 DEF Done
  <2>6. ~(b.aside # None) => Impossible(b)
    BY <2>3 DEF Impossible
  <2> QED
    BY <1>a, <2>3, <2>4, <2>5, <2>6 DEF Ends
<1>23. CASE LookNew
  <2>1. /\ Now.cmd = "lookNew" /\ box' = box
        /\ \/ Stops
           \/ job' = Onward(job)
           \/ job' = Failing(FALSE)
           \/ job' = Failing(TRUE)
    BY <1>23 DEF LookNew, Stops, Check, Attempt, Doing, Fault, Named, Here, host
  <2>2. Done(b, c) /\ Impossible(b)
    BY <1>a, <2>1 DEF Done, Impossible
  <2> QED
    BY <1>a, <1>d, <2>1, <2>2 DEF Ends
<1> QED
  BY <1>1, <1>2, <1>3, <1>4, <1>5, <1>6, <1>7, <1>8, <1>9, <1>10, <1>11, <1>12, <1>13,
     <1>14, <1>15, <1>16, <1>17, <1>18, <1>19, <1>20, <1>21, <1>22, <1>23
     DEF DockerCommand

(***************************************************************************)
(* How far each script has come.                                           *)
(***************************************************************************)

ContainerScripts ==
  {"r4aApply", "r4aUndo", "retrofitApply", "retrofitUndo", "retrofitBack", "caddyApply",
   "caddyTrap", "caddyUndo"}

\* What a script j has brought about, by its row, in the service b it works on.
R4aApplying(j, b) ==
  /\ j.at <= 3 => b.live = "old"
  /\ j.at >= 4 => b.aside = "old"
  /\ j.at >= 8 => b.live = "new" /\ "new" \in b.up
R4aUndoing(j, b) ==
  /\ j.at \in 2..4 => b.live # None /\ (j.clears <=> b.live # "old")
  /\ j.at = 4 /\ j.clears => b.live \notin b.up
  /\ j.at = 5 /\ j.clean => b.live \in {None, "old"}
  /\ j.at = 6 => j.brings /\ b.aside = "old" /\ (j.clean => b.live = None)
  /\ j.at = 7 /\ j.clean => b.live = "old"
  /\ j.at >= 8 => b.live = "old"
  /\ j.at >= 9 => "old" \in b.up
  /\ j.at >= 10 => "old" \in b.auto
RetrofitApplying(j, b) ==
  /\ j.at <= 3 => b.live = "old"
  /\ j.at >= 4 => b.aside = "old"
RetrofitUndoing(j, b) ==
  j.kept /\ j.clean =>
    /\ j.at <= 5 => b.aside = "old"
    /\ j.at \in 2..4 => b.live # None
    /\ j.at = 4 => b.live \notin b.up
    /\ j.at = 5 => b.live = None
    /\ j.at >= 6 => b.live = "old"
    /\ j.at >= 8 => "old" \in b.up
RetrofitBacking(j, b) ==
  /\ j.at = 6 => b.aside = "old"
  /\ j.at >= 7 => b.live = "old"
  /\ j.at >= 8 => "old" \in b.auto
  /\ j.at >= 9 => "old" \in b.up
CaddyApplying(j, b) ==
  /\ j.at <= 6 => (j.kept <=> b.aside # None) /\ b.live # "new"
  /\ j.at >= 7 /\ b.aside # None /\ ~j.kept => j.clears
  /\ j.at >= 8 => b.live = "new"
  /\ j.at >= 9 => "new" \in b.up
CaddyUndoing(j, b) ==
  j.kept /\ j.clean =>
    /\ j.at <= 3 => b.aside = "old"
    /\ j.at \in 2..3 => b.live = None
    /\ j.at <= 2 => j.clears
    /\ j.at >= 3 => j.brings
    /\ j.at = 4 => b.live = "old"

Stage(j, b) ==
  /\ j.script = "r4aApply"      => R4aApplying(j, b)
  /\ j.script = "r4aUndo"       => R4aUndoing(j, b)
  /\ j.script = "retrofitApply" => RetrofitApplying(j, b)
  /\ j.script = "retrofitUndo"  => RetrofitUndoing(j, b)
  /\ j.script = "retrofitBack"  => RetrofitBacking(j, b)
  /\ j.script = "caddyApply"    => CaddyApplying(j, b)
  /\ j.script = "caddyUndo"     => CaddyUndoing(j, b)

\* What a script that has ended says of its service.
Outcome(j, b) ==
  /\ j.verdict = "staged" => b.live = "new" /\ "new" \in b.up /\ b.aside = "old"
  /\ j.verdict = "restored" => b.live = "old" /\ "old" \in b.up /\ "old" \in b.auto
  /\ /\ j.verdict # None /\ j.clean
     /\ \/ j.script = "r4aUndo"
        \/ j.script \in {"retrofitUndo", "caddyUndo"} /\ j.kept
     => b.live = "old" /\ "old" \in b.up

Progress(j, b) ==
  IF j.running THEN j.verdict = None /\ Stage(j, b) ELSE Outcome(j, b)

\* The rollback name is for the original only, which bears one name at a time.
Placed ==
  \A s \in Services :
    box[s].aside \in {None, "old"} /\ (box[s].live = "old" => box[s].aside = None)

\* Scripts on containers have a service, and are as far with it as their row says.
Underway ==
  /\ job.script \in ContainerScripts =>
       job.service \in Services /\ Progress(job, box[job.service])
  /\ job.script \notin ContainerScripts => job.verdict \notin {"staged", "restored"}

\* The others: the renewal is enabled before the token is renewed, and what they
\* say at their end is so.
Filed ==
  /\ job.running => job.verdict = None
  /\ job.running /\ job.script = "installToken" /\ job.at >= 3 => timer
  /\ job.verdict = "repaired" => routes = "new" /\ record = "new"
  /\ job.verdict = "undone" => routes = "old" /\ record = "old"
  /\ job.verdict = "installed" => timer /\ token

\* What the invariant says of the service b of a script j on containers.
InOrder(b) == b.aside \in {None, "old"} /\ (b.live = "old" => b.aside = None)
Holding(j, b) == InOrder(b) /\ Progress(j, b)

\* A step of a script, seen at its service: a row passed over, or a command that
\* ends in one of its ways.
Passes(b, c) ==
  /\ \E condition \in Now.when : ~Holds(condition)
  /\ Same(b, c) /\ Advances(job.clears, job.brings)
Steps(b, c) ==
  \/ Passes(b, c)
  \/ /\ \A condition \in Now.when : Holds(condition)
     /\ \/ Done(b, c) /\ \E clears \in BOOLEAN, brings \in BOOLEAN :
             Sees(b, clears, brings) /\ Advances(clears, brings)
        \/ Impossible(b) /\ Same(b, c) /\ Falls(FALSE)
        \/ (Same(b, c) \/ Done(b, c)) /\ Falls(TRUE)
        \/ Now.cmd = "lookNew" /\ Same(b, c) /\ Stops

\* A script on containers takes such steps only.
LEMMA ScriptSteps ==
  ASSUME TypeOK, JobFits, Command, job.script \in ContainerScripts, job.service \in Services
  PROVE  Steps(box[job.service], box'[job.service])
<1>0. job.running /\ Now.cmd \in Commands[job.script]
  BY CommandMoves
<1>1. CASE DockerCommand
  <2>1. Ends(box[job.service], box'[job.service])
    BY <1>1, DockerEnds
  <2>2. \A condition \in Now.when : Holds(condition)
    BY <1>1, DockerMoves
  <2>3. /\ job' = Failing(FALSE) => Falls(FALSE)
        /\ job' = Failing(TRUE) => Falls(TRUE)
        /\ \A clears \in BOOLEAN, brings \in BOOLEAN :
             job' = Onward(Learnt(clears, brings)) => Advances(clears, brings)
    BY <1>0, OnwardFields, FailingFields
  <2> QED
    BY <2>1, <2>2, <2>3 DEF Steps, Ends
<1>2. CASE FileCommand
  <2>1. Now.cmd \in FileCommands
    BY <1>2, FileMoves
  <2>2. Now.cmd \notin FileCommands
    BY <1>0 DEF Commands, FileCommands, ContainerScripts
  <2> QED
    BY <2>1, <2>2
<1>3. CASE Skip
  <2>1. box' = box /\ \E condition \in Now.when : ~Holds(condition)
    BY <1>3, SkipMoves DEF Skip
  <2>2. /\ job' = Onward(job) /\ job = Learnt(job.clears, job.brings)
        /\ job.clears \in BOOLEAN /\ job.brings \in BOOLEAN
    BY <1>3, SkipMoves DEF TypeOK, Jobs, Learnt
  <2>3. Advances(job.clears, job.brings)
    <3>1. job' = Onward(Learnt(job.clears, job.brings))
      BY <2>2
    <3> QED
      BY <1>0, <2>2, <3>1, OnwardFields
  <2> QED
    BY <2>1, <2>3 DEF Steps, Passes, Same, Left
<1> QED
  BY <1>1, <1>2, <1>3 DEF Command

(***************************************************************************)
(* Each script, row by row.                                                *)
(***************************************************************************)

\* What is known of a script on containers that is about to take a step.
Working(script) ==
  /\ TypeOK /\ JobFits /\ job.running /\ job.script = script
  /\ job.service \in Services /\ Holding(job, Here)

\* The names stay in order: only the original is set aside.
LEMMA NamesStep ==
  ASSUME NEW script \in ContainerScripts, Working(script), NEW c, Steps(Here, c),
         Now.cmd = "setAside" /\ Done(Here, c) => Here.live = "old"
  PROVE  InOrder(c)
<1> DEFINE b == Here
<1>0. InOrder(b) /\ (Same(b, c) \/ Done(b, c))
  BY DEF Working, Holding, Steps, Passes
<1>1. None # "old" /\ "new" # "old"
  BY NoneAssumption DEF Containers
<1>2. CASE Same(b, c)
  BY <1>0, <1>2 DEF Same, Left, InOrder
<1>3. CASE Done(b, c)
  <2>1. Now.cmd \in {"noRestart", "restart", "stop", "start", "setAside", "bringBack", "create",
                     "remove", "forceRemove", "dropNext", "createNext", "connect",
                     "connectNext", "look", "lookAny", "lookAside", "lookNew", "isOld",
                     "isAside", "isUp", "isNew", "ready", "promote"}
    <3>1. job.script \in ContainerScripts /\ job.script \in DOMAIN Scripts
      BY DEF Working, ContainerScripts, Scripts
    <3>2. Now.cmd \in Commands[job.script]
      BY <3>1, TableCommands DEF Working, JobFits, Now
    <3> QED
      BY <3>1, <3>2 DEF Commands, ContainerScripts
  <2>2. CASE Now.cmd \in {"setAside", "bringBack", "create", "promote"}
    BY <1>0, <1>1, <1>3, <2>2 DEF Done, Left, InOrder
  <2>3. CASE Now.cmd \in {"noRestart", "restart", "stop", "start", "dropNext", "createNext"}
    BY <1>0, <1>3, <2>3 DEF Done, Left, InOrder
  <2>4. CASE Now.cmd \in {"remove", "forceRemove"}
    BY <1>0, <1>1, <1>3, <2>4 DEF Done, Left, InOrder
  <2>5. CASE Now.cmd \in {"connect", "connectNext", "look", "lookAny", "lookAside", "lookNew",
                          "isOld", "isAside", "isUp", "isNew", "ready"}
    BY <1>0, <1>3, <2>5 DEF Done, Same, Left, InOrder
  <2> QED
    BY <2>1, <2>2, <2>3, <2>4, <2>5
<1> QED
  BY <1>0, <1>2, <1>3

\* The release: the original is set aside at the third row, the replacement is
\* seen to run at the seventh.
LEMMA R4aApplySteps ==
  ASSUME Working("r4aApply"), NEW c, c = box'[job.service], Steps(Here, c)
  PROVE  Holding(job', c)
<1> DEFINE b == Here
<1>1. /\ job.at \in 1..8 /\ Now = R4aApply[job.at] /\ Lengths[job.script] = 8
      /\ job.script = "r4aApply" /\ job.running /\ job.verdict = None
      /\ job.service \in Services
      /\ InOrder(b) /\ R4aApplying(job, b)
  BY DEF Working, JobFits, Lengths, Now, Scripts, Holding, Progress, Stage
<1>2. /\ R4aApply[1] = Row("noRestart", {}, <<"r4aUndo", 1>>)
      /\ R4aApply[2] = Row("stop", {}, <<"r4aUndo", 1>>)
      /\ R4aApply[3] = Row("setAside", {}, <<"r4aUndo", 1>>)
      /\ R4aApply[4] = Row("create", {}, <<"r4aUndo", 1>>)
      /\ R4aApply[5] = Row("connect", {"apisix"}, <<"r4aUndo", 1>>)
      /\ R4aApply[6] = Row("start", {}, <<"r4aUndo", 1>>)
      /\ R4aApply[7] = Row("isNew", {}, <<"r4aUndo", 1>>)
      /\ R4aApply[8] = Row("ready", {"udp"}, <<"r4aUndo", 1>>)
  BY DEF R4aApply, To
<1>3. /\ None \notin Services /\ None # "old" /\ None # "new"
      /\ <<"r4aUndo", 1>> # End
      /\ <<"r4aUndo", 1>>[1] = "r4aUndo" /\ <<"r4aUndo", 1>>[2] = 1
  BY NoneAssumption DEF Containers, End
<1>4. InOrder(c)
  <2>1. Now.cmd = "setAside" /\ Done(b, c) => b.live = "old"
    <3>1. Now.cmd = "setAside" => job.at = 3
      BY <1>1, <1>2 DEF Row
    <3> QED
      BY <1>1, <1>3, <3>1 DEF Done, R4aApplying
  <2> QED
    BY <1>1, <2>1, NamesStep DEF ContainerScripts
<1> SUFFICES Progress(job', c)
  BY <1>4 DEF Holding
<1>5. ASSUME NEW byFault, Falls(byFault)
      PROVE  Progress(job', c)
  <2>1. Now.fail # End /\ Now.fail[1] = "r4aUndo" /\ Now.fail[2] = 1
    BY <1>1, <1>2, <1>3 DEF Row
  <2> QED
    BY <1>1, <1>3, <1>4, <1>5, <2>1 DEF Falls, Progress, Stage, R4aUndoing
<1>6. CASE job.at = 1
  <2>1. /\ Now.cmd = "noRestart" /\ Now.when = {}
        /\ Now.fail # End /\ Now.fail[1] = "r4aUndo" /\ Now.fail[2] = 1
    BY <1>1, <1>2, <1>3, <1>6 DEF Row
  <2>2. ASSUME NEW clears, NEW brings, Done(b, c), Sees(b, clears, brings),
               Advances(clears, brings)
        PROVE  Progress(job', c)
    BY <1>1, <1>3, <1>6, <2>1, <2>2 DEF Done, Same, Left, Sees, Advances, Progress, InOrder,
       Stage, R4aApplying
  <2> QED
    BY <2>1, <2>2, <1>5 DEF Steps, Passes
<1>7. CASE job.at = 2
  <2>1. /\ Now.cmd = "stop" /\ Now.when = {}
        /\ Now.fail # End /\ Now.fail[1] = "r4aUndo" /\ Now.fail[2] = 1
    BY <1>1, <1>2, <1>3, <1>7 DEF Row
  <2>2. ASSUME NEW clears, NEW brings, Done(b, c), Sees(b, clears, brings),
               Advances(clears, brings)
        PROVE  Progress(job', c)
    BY <1>1, <1>3, <1>7, <2>1, <2>2 DEF Done, Same, Left, Sees, Advances, Progress, InOrder,
       Stage, R4aApplying
  <2> QED
    BY <2>1, <2>2, <1>5 DEF Steps, Passes
<1>8. CASE job.at = 3
  <2>1. /\ Now.cmd = "setAside" /\ Now.when = {}
        /\ Now.fail # End /\ Now.fail[1] = "r4aUndo" /\ Now.fail[2] = 1
    BY <1>1, <1>2, <1>3, <1>8 DEF Row
  <2>2. ASSUME NEW clears, NEW brings, Done(b, c), Sees(b, clears, brings),
               Advances(clears, brings)
        PROVE  Progress(job', c)
    BY <1>1, <1>3, <1>8, <2>1, <2>2 DEF Done, Same, Left, Sees, Advances, Progress, InOrder,
       Stage, R4aApplying
  <2> QED
    BY <2>1, <2>2, <1>5 DEF Steps, Passes
<1>9. CASE job.at = 4
  <2>1. /\ Now.cmd = "create" /\ Now.when = {}
        /\ Now.fail # End /\ Now.fail[1] = "r4aUndo" /\ Now.fail[2] = 1
    BY <1>1, <1>2, <1>3, <1>9 DEF Row
  <2>2. ASSUME NEW clears, NEW brings, Done(b, c), Sees(b, clears, brings),
               Advances(clears, brings)
        PROVE  Progress(job', c)
    BY <1>1, <1>3, <1>9, <2>1, <2>2 DEF Done, Same, Left, Sees, Advances, Progress, InOrder,
       Stage, R4aApplying
  <2> QED
    BY <2>1, <2>2, <1>5 DEF Steps, Passes
<1>10. CASE job.at = 5
  <2>1. /\ Now.cmd = "connect" /\ Now.when = {"apisix"}
        /\ Now.fail # End /\ Now.fail[1] = "r4aUndo" /\ Now.fail[2] = 1
    BY <1>1, <1>2, <1>3, <1>10 DEF Row
  <2>2. ASSUME NEW clears, NEW brings, Done(b, c), Sees(b, clears, brings),
               Advances(clears, brings), \A condition \in Now.when : Holds(condition)
        PROVE  Progress(job', c)
    BY <1>1, <1>3, <1>10, <2>1, <2>2 DEF Done, Same, Left, Sees, Advances, Progress,
       InOrder, Stage, R4aApplying
  <2>4. ASSUME Passes(b, c)
        PROVE  Progress(job', c)
    BY <1>1, <1>3, <1>10, <2>1, <2>4 DEF Passes, Same, Left, Advances, Progress, Stage,
       R4aApplying
  <2> QED
    BY <2>1, <2>2, <1>5, <2>4 DEF Steps
<1>11. CASE job.at = 6
  <2>1. /\ Now.cmd = "start" /\ Now.when = {}
        /\ Now.fail # End /\ Now.fail[1] = "r4aUndo" /\ Now.fail[2] = 1
    BY <1>1, <1>2, <1>3, <1>11 DEF Row
  <2>2. ASSUME NEW clears, NEW brings, Done(b, c), Sees(b, clears, brings),
               Advances(clears, brings)
        PROVE  Progress(job', c)
    BY <1>1, <1>3, <1>11, <2>1, <2>2 DEF Done, Same, Left, Sees, Advances, Progress,
       InOrder, Stage, R4aApplying
  <2> QED
    BY <2>1, <2>2, <1>5 DEF Steps, Passes
<1>12. CASE job.at = 7
  <2>1. /\ Now.cmd = "isNew" /\ Now.when = {}
        /\ Now.fail # End /\ Now.fail[1] = "r4aUndo" /\ Now.fail[2] = 1
    BY <1>1, <1>2, <1>3, <1>12 DEF Row
  <2>2. ASSUME NEW clears, NEW brings, Done(b, c), Sees(b, clears, brings),
               Advances(clears, brings)
        PROVE  Progress(job', c)
    BY <1>1, <1>3, <1>12, <2>1, <2>2 DEF Done, Same, Left, Sees, Advances, Progress,
       InOrder, Stage, R4aApplying
  <2> QED
    BY <2>1, <2>2, <1>5 DEF Steps, Passes
<1>13. CASE job.at = 8
  <2>1. /\ Now.cmd = "ready" /\ Now.when = {"udp"}
        /\ Now.fail # End /\ Now.fail[1] = "r4aUndo" /\ Now.fail[2] = 1
    BY <1>1, <1>2, <1>3, <1>13 DEF Row
  <2>2. ASSUME NEW clears, NEW brings, Done(b, c), Sees(b, clears, brings),
               Advances(clears, brings), \A condition \in Now.when : Holds(condition)
        PROVE  Progress(job', c)
    BY <1>1, <1>3, <1>13, <2>1, <2>2 DEF Done, Same, Left, Sees, Advances, Progress,
       InOrder, Outcome, Verdict, R4aApplying
  <2>4. ASSUME Passes(b, c)
        PROVE  Progress(job', c)
    BY <1>1, <1>3, <1>13, <2>1, <2>4 DEF Passes, Same, Left, Advances, Progress, Outcome,
       Verdict, R4aApplying
  <2> QED
    BY <2>1, <2>2, <1>5, <2>4 DEF Steps
<1> QED
  BY <1>1, <1>6, <1>7, <1>8, <1>9, <1>10, <1>11, <1>12, <1>13

\* Its undo: what bears the name is cleared if it is not the original, which is
\* brought back if it is set aside, and then is in service.
LEMMA R4aUndoSteps ==
  ASSUME Working("r4aUndo"), NEW c, c = box'[job.service], Steps(Here, c),
         Survives(job.service)
  PROVE  Holding(job', c)
<1> DEFINE b == Here
<1>1. /\ job.at \in 1..11 /\ Now = R4aUndo[job.at] /\ Lengths[job.script] = 11
      /\ job.script = "r4aUndo" /\ job.running /\ job.verdict = None
      /\ job.service \in Services
      /\ InOrder(b) /\ R4aUndoing(job, b)
      /\ "old" \in {b.live, b.aside}
  BY DEF Working, JobFits, Lengths, Now, Scripts, Holding, Progress, Stage, Here, Survives
<1>2. /\ R4aUndo[1] = Row("look", {}, <<"r4aUndo", 5>>)
      /\ R4aUndo[2] = Row("noRestart", {"clears"}, End)
      /\ R4aUndo[3] = Row("stop", {"clears", "up"}, End)
      /\ R4aUndo[4] = Row("remove", {"clears"}, End)
      /\ R4aUndo[5] = Row("lookAside", {}, <<"r4aUndo", 7>>)
      /\ R4aUndo[6] = Row("bringBack", {"brings"}, End)
      /\ R4aUndo[7] = Row("isOld", {}, End)
      /\ R4aUndo[8] = Row("start", {"down"}, End)
      /\ R4aUndo[9] = Row("restart", {}, End)
      /\ R4aUndo[10] = Row("isUp", {}, End)
      /\ R4aUndo[11] = Row("ready", {"udp"}, End)
  BY DEF R4aUndo
<1>3. /\ None \notin Services /\ None # "old" /\ None # "new"
      /\ <<"r4aUndo", 5>> # End
      /\ <<"r4aUndo", 5>>[1] = "r4aUndo" /\ <<"r4aUndo", 5>>[2] = 5
      /\ <<"r4aUndo", 7>> # End
      /\ <<"r4aUndo", 7>>[1] = "r4aUndo" /\ <<"r4aUndo", 7>>[2] = 7
  BY NoneAssumption DEF Containers, End
<1>4. /\ Holds("brings") <=> job.brings
      /\ Holds("clears") <=> job.clears
      /\ Holds("down") <=> b.live \notin b.up
      /\ Holds("up") <=> b.live \in b.up
  BY DEF Holds, Here
<1>5. InOrder(c)
  <2>1. Now.cmd # "setAside"
    BY <1>1, <1>2 DEF Row
  <2> QED
    BY <1>1, <2>1, NamesStep DEF ContainerScripts
<1> SUFFICES Progress(job', c)
  BY <1>5 DEF Holding
<1>6. ASSUME Falls(TRUE)
      PROVE  Progress(job', c)
  <2>1. \/ Now.fail = End
        \/ Now.fail # End /\ Now.fail[1] = "r4aUndo" /\ Now.fail[2] = 5
        \/ Now.fail # End /\ Now.fail[1] = "r4aUndo" /\ Now.fail[2] = 7
    BY <1>1, <1>2, <1>3 DEF Row
  <2> QED
    BY <1>1, <1>3, <1>5, <1>6, <2>1 DEF Falls, Progress, Stage, R4aUndoing, Outcome
<1>7. CASE job.at = 1
  <2>1. /\ Now.cmd = "look" /\ Now.when = {}
        /\ Now.fail # End /\ Now.fail[1] = "r4aUndo" /\ Now.fail[2] = 5
    BY <1>1, <1>2, <1>3, <1>7 DEF Row
  <2>2. ASSUME NEW clears, NEW brings, Done(b, c), Sees(b, clears, brings),
               Advances(clears, brings)
        PROVE  Progress(job', c)
    BY <1>1, <1>3, <1>7, <2>1, <2>2 DEF Done, Same, Left, Sees, Advances, Progress, InOrder,
       Stage, R4aUndoing
  <2>3. ASSUME Impossible(b), Same(b, c), Falls(FALSE)
        PROVE  Progress(job', c)
    BY <1>1, <1>3, <1>7, <2>1, <2>3 DEF Impossible, Same, Left, Falls, Progress, InOrder,
       R4aUndoing, Stage
  <2> QED
    BY <2>1, <2>2, <2>3, <1>6 DEF Steps, Passes
<1>8. CASE job.at = 2
  <2>1. /\ Now.cmd = "noRestart" /\ Now.when = {"clears"}
        /\ Now.fail = End
    BY <1>1, <1>2, <1>3, <1>8 DEF Row
  <2>2. ASSUME NEW clears, NEW brings, Done(b, c), Sees(b, clears, brings),
               Advances(clears, brings), \A condition \in Now.when : Holds(condition)
        PROVE  Progress(job', c)
    BY <1>1, <1>3, <1>4, <1>8, <2>1, <2>2 DEF Done, Same, Left, Sees, Advances, Progress,
       InOrder, Stage, R4aUndoing
  <2>3. ASSUME Impossible(b), Same(b, c), Falls(FALSE)
        PROVE  Progress(job', c)
    BY <1>1, <1>3, <1>8, <2>1, <2>3 DEF Impossible, Same, Left, Falls, Progress, InOrder,
       R4aUndoing, Outcome
  <2>4. ASSUME Passes(b, c)
        PROVE  Progress(job', c)
    BY <1>1, <1>3, <1>4, <1>8, <2>1, <2>4 DEF Passes, Same, Left, Advances, Progress, Stage,
       R4aUndoing
  <2> QED
    BY <2>1, <2>2, <2>3, <1>6, <2>4 DEF Steps
<1>9. CASE job.at = 3
  <2>1. /\ Now.cmd = "stop" /\ Now.when = {"clears", "up"}
        /\ Now.fail = End
    BY <1>1, <1>2, <1>3, <1>9 DEF Row
  <2>2. ASSUME NEW clears, NEW brings, Done(b, c), Sees(b, clears, brings),
               Advances(clears, brings), \A condition \in Now.when : Holds(condition)
        PROVE  Progress(job', c)
    BY <1>1, <1>3, <1>4, <1>9, <2>1, <2>2 DEF Done, Same, Left, Sees, Advances, Progress,
       InOrder, Stage, R4aUndoing
  <2>3. ASSUME Impossible(b), Same(b, c), Falls(FALSE)
        PROVE  Progress(job', c)
    BY <1>1, <1>3, <1>9, <2>1, <2>3 DEF Impossible, Same, Left, Falls, Progress, InOrder,
       R4aUndoing, Outcome
  <2>4. ASSUME Passes(b, c)
        PROVE  Progress(job', c)
    BY <1>1, <1>3, <1>4, <1>9, <2>1, <2>4 DEF Passes, Same, Left, Advances, Progress, Stage,
       R4aUndoing
  <2> QED
    BY <2>1, <2>2, <2>3, <1>6, <2>4 DEF Steps
<1>10. CASE job.at = 4
  <2>1. /\ Now.cmd = "remove" /\ Now.when = {"clears"}
        /\ Now.fail = End
    BY <1>1, <1>2, <1>3, <1>10 DEF Row
  <2>2. ASSUME NEW clears, NEW brings, Done(b, c), Sees(b, clears, brings),
               Advances(clears, brings), \A condition \in Now.when : Holds(condition)
        PROVE  Progress(job', c)
    BY <1>1, <1>3, <1>4, <1>10, <2>1, <2>2 DEF Done, Same, Left, Sees, Advances, Progress,
       InOrder, Stage, R4aUndoing
  <2>3. ASSUME Impossible(b), Same(b, c), Falls(FALSE)
        PROVE  Progress(job', c)
    BY <1>1, <1>3, <1>10, <2>1, <2>3 DEF Impossible, Same, Left, Falls, Progress, InOrder,
       R4aUndoing, Outcome
  <2>4. ASSUME Passes(b, c)
        PROVE  Progress(job', c)
    BY <1>1, <1>3, <1>4, <1>10, <2>1, <2>4 DEF Passes, Same, Left, Advances, Progress,
       Stage, R4aUndoing
  <2> QED
    BY <2>1, <2>2, <2>3, <1>6, <2>4 DEF Steps
<1>11. CASE job.at = 5
  <2>1. /\ Now.cmd = "lookAside" /\ Now.when = {}
        /\ Now.fail # End /\ Now.fail[1] = "r4aUndo" /\ Now.fail[2] = 7
    BY <1>1, <1>2, <1>3, <1>11 DEF Row
  <2>2. ASSUME NEW clears, NEW brings, Done(b, c), Sees(b, clears, brings),
               Advances(clears, brings)
        PROVE  Progress(job', c)
    BY <1>1, <1>3, <1>11, <2>1, <2>2 DEF Done, Same, Left, Sees, Advances, Progress,
       InOrder, Stage, R4aUndoing
  <2>3. ASSUME Impossible(b), Same(b, c), Falls(FALSE)
        PROVE  Progress(job', c)
    BY <1>1, <1>3, <1>11, <2>1, <2>3 DEF Impossible, Same, Left, Falls, Progress, InOrder,
       R4aUndoing, Stage
  <2> QED
    BY <2>1, <2>2, <2>3, <1>6 DEF Steps, Passes
<1>12. CASE job.at = 6
  <2>1. /\ Now.cmd = "bringBack" /\ Now.when = {"brings"}
        /\ Now.fail = End
    BY <1>1, <1>2, <1>3, <1>12 DEF Row
  <2>2. ASSUME NEW clears, NEW brings, Done(b, c), Sees(b, clears, brings),
               Advances(clears, brings), \A condition \in Now.when : Holds(condition)
        PROVE  Progress(job', c)
    BY <1>1, <1>3, <1>4, <1>12, <2>1, <2>2 DEF Done, Same, Left, Sees, Advances, Progress,
       InOrder, Stage, R4aUndoing
  <2>3. ASSUME Impossible(b), Same(b, c), Falls(FALSE)
        PROVE  Progress(job', c)
    BY <1>1, <1>3, <1>12, <2>1, <2>3 DEF Impossible, Same, Left, Falls, Progress, InOrder,
       R4aUndoing, Outcome
  <2>4. ASSUME Passes(b, c)
        PROVE  Progress(job', c)
    BY <1>1, <1>3, <1>4, <1>12, <2>1, <2>4 DEF Passes, Same, Left, Advances, Progress,
       Stage, R4aUndoing
  <2> QED
    BY <2>1, <2>2, <2>3, <1>6, <2>4 DEF Steps
<1>13. CASE job.at = 7
  <2>1. /\ Now.cmd = "isOld" /\ Now.when = {}
        /\ Now.fail = End
    BY <1>1, <1>2, <1>3, <1>13 DEF Row
  <2>2. ASSUME NEW clears, NEW brings, Done(b, c), Sees(b, clears, brings),
               Advances(clears, brings)
        PROVE  Progress(job', c)
    BY <1>1, <1>3, <1>13, <2>1, <2>2 DEF Done, Same, Left, Sees, Advances, Progress,
       InOrder, Stage, R4aUndoing
  <2>3. ASSUME Impossible(b), Same(b, c), Falls(FALSE)
        PROVE  Progress(job', c)
    BY <1>1, <1>3, <1>13, <2>1, <2>3 DEF Impossible, Same, Left, Falls, Progress, InOrder,
       R4aUndoing, Outcome
  <2> QED
    BY <2>1, <2>2, <2>3, <1>6 DEF Steps, Passes
<1>14. CASE job.at = 8
  <2>1. /\ Now.cmd = "start" /\ Now.when = {"down"}
        /\ Now.fail = End
    BY <1>1, <1>2, <1>3, <1>14 DEF Row
  <2>2. ASSUME NEW clears, NEW brings, Done(b, c), Sees(b, clears, brings),
               Advances(clears, brings), \A condition \in Now.when : Holds(condition)
        PROVE  Progress(job', c)
    BY <1>1, <1>3, <1>4, <1>14, <2>1, <2>2 DEF Done, Same, Left, Sees, Advances, Progress,
       InOrder, Stage, R4aUndoing
  <2>3. ASSUME Impossible(b), Same(b, c), Falls(FALSE)
        PROVE  Progress(job', c)
    BY <1>1, <1>3, <1>14, <2>1, <2>3 DEF Impossible, Same, Left, Falls, Progress, InOrder,
       R4aUndoing, Outcome
  <2>4. ASSUME Passes(b, c)
        PROVE  Progress(job', c)
    BY <1>1, <1>3, <1>4, <1>14, <2>1, <2>4 DEF Passes, Same, Left, Advances, Progress,
       Stage, R4aUndoing
  <2> QED
    BY <2>1, <2>2, <2>3, <1>6, <2>4 DEF Steps
<1>15. CASE job.at = 9
  <2>1. /\ Now.cmd = "restart" /\ Now.when = {}
        /\ Now.fail = End
    BY <1>1, <1>2, <1>3, <1>15 DEF Row
  <2>2. ASSUME NEW clears, NEW brings, Done(b, c), Sees(b, clears, brings),
               Advances(clears, brings)
        PROVE  Progress(job', c)
    BY <1>1, <1>3, <1>15, <2>1, <2>2 DEF Done, Same, Left, Sees, Advances, Progress,
       InOrder, Stage, R4aUndoing
  <2>3. ASSUME Impossible(b), Same(b, c), Falls(FALSE)
        PROVE  Progress(job', c)
    BY <1>1, <1>3, <1>15, <2>1, <2>3 DEF Impossible, Same, Left, Falls, Progress, InOrder,
       R4aUndoing, Outcome
  <2> QED
    BY <2>1, <2>2, <2>3, <1>6 DEF Steps, Passes
<1>16. CASE job.at = 10
  <2>1. /\ Now.cmd = "isUp" /\ Now.when = {}
        /\ Now.fail = End
    BY <1>1, <1>2, <1>3, <1>16 DEF Row
  <2>2. ASSUME NEW clears, NEW brings, Done(b, c), Sees(b, clears, brings),
               Advances(clears, brings)
        PROVE  Progress(job', c)
    BY <1>1, <1>3, <1>16, <2>1, <2>2 DEF Done, Same, Left, Sees, Advances, Progress,
       InOrder, Stage, R4aUndoing
  <2>3. ASSUME Impossible(b), Same(b, c), Falls(FALSE)
        PROVE  Progress(job', c)
    BY <1>1, <1>3, <1>16, <2>1, <2>3 DEF Impossible, Same, Left, Falls, Progress, InOrder,
       R4aUndoing, Outcome
  <2> QED
    BY <2>1, <2>2, <2>3, <1>6 DEF Steps, Passes
<1>17. CASE job.at = 11
  <2>1. /\ Now.cmd = "ready" /\ Now.when = {"udp"}
        /\ Now.fail = End
    BY <1>1, <1>2, <1>3, <1>17 DEF Row
  <2>2. ASSUME NEW clears, NEW brings, Done(b, c), Sees(b, clears, brings),
               Advances(clears, brings), \A condition \in Now.when : Holds(condition)
        PROVE  Progress(job', c)
    BY <1>1, <1>3, <1>4, <1>17, <2>1, <2>2 DEF Done, Same, Left, Sees, Advances, Progress,
       InOrder, Outcome, Verdict, R4aUndoing
  <2>3. ASSUME Impossible(b), Same(b, c), Falls(FALSE)
        PROVE  Progress(job', c)
    BY <1>1, <1>3, <1>17, <2>1, <2>3 DEF Impossible, Same, Left, Falls, Progress, InOrder,
       R4aUndoing, Outcome
  <2>4. ASSUME Passes(b, c)
        PROVE  Progress(job', c)
    BY <1>1, <1>3, <1>4, <1>17, <2>1, <2>4 DEF Passes, Same, Left, Advances, Progress,
       Outcome, Verdict, R4aUndoing
  <2> QED
    BY <2>1, <2>2, <2>3, <1>6, <2>4 DEF Steps
<1> QED
  BY <1>1, <1>7, <1>8, <1>9, <1>10, <1>11, <1>12, <1>13, <1>14, <1>15, <1>16, <1>17

\* The retrofit: the same, but for the order of the last looks.
LEMMA RetrofitApplySteps ==
  ASSUME Working("retrofitApply"), NEW c, c = box'[job.service], Steps(Here, c)
  PROVE  Holding(job', c)
<1> DEFINE b == Here
<1>1. /\ job.at \in 1..7 /\ Now = RetrofitApply[job.at] /\ Lengths[job.script] = 7
      /\ job.script = "retrofitApply" /\ job.running /\ job.verdict = None
      /\ job.service \in Services
      /\ InOrder(b) /\ RetrofitApplying(job, b)
  BY DEF Working, JobFits, Lengths, Now, Scripts, Holding, Progress, Stage
<1>2. /\ RetrofitApply[1] = Row("noRestart", {}, <<"retrofitUndo", 1>>)
      /\ RetrofitApply[2] = Row("stop", {}, <<"retrofitUndo", 1>>)
      /\ RetrofitApply[3] = Row("setAside", {}, <<"retrofitUndo", 1>>)
      /\ RetrofitApply[4] = Row("create", {}, <<"retrofitUndo", 1>>)
      /\ RetrofitApply[5] = Row("start", {}, <<"retrofitUndo", 1>>)
      /\ RetrofitApply[6] = Row("ready", {}, <<"retrofitUndo", 1>>)
      /\ RetrofitApply[7] = Row("isNew", {}, <<"retrofitUndo", 1>>)
  BY DEF RetrofitApply, To
<1>3. /\ None \notin Services /\ None # "old" /\ None # "new"
      /\ <<"retrofitUndo", 1>> # End
      /\ <<"retrofitUndo", 1>>[1] = "retrofitUndo" /\ <<"retrofitUndo", 1>>[2] = 1
  BY NoneAssumption DEF Containers, End
<1>4. InOrder(c)
  <2>1. Now.cmd = "setAside" /\ Done(b, c) => b.live = "old"
    <3>1. Now.cmd = "setAside" => job.at = 3
      BY <1>1, <1>2 DEF Row
    <3> QED
      BY <1>1, <1>3, <3>1 DEF Done, RetrofitApplying
  <2> QED
    BY <1>1, <2>1, NamesStep DEF ContainerScripts
<1> SUFFICES Progress(job', c)
  BY <1>4 DEF Holding
<1>5. ASSUME NEW byFault, Falls(byFault)
      PROVE  Progress(job', c)
  <2>1. Now.fail # End /\ Now.fail[1] = "retrofitUndo" /\ Now.fail[2] = 1
    BY <1>1, <1>2, <1>3 DEF Row
  <2> QED
    BY <1>1, <1>3, <1>4, <1>5, <2>1 DEF Falls, Progress, Stage, RetrofitUndoing, KeptNow,
       InOrder
<1>6. CASE job.at = 1
  <2>1. /\ Now.cmd = "noRestart" /\ Now.when = {}
        /\ Now.fail # End /\ Now.fail[1] = "retrofitUndo" /\ Now.fail[2] = 1
    BY <1>1, <1>2, <1>3, <1>6 DEF Row
  <2>2. ASSUME NEW clears, NEW brings, Done(b, c), Sees(b, clears, brings),
               Advances(clears, brings)
        PROVE  Progress(job', c)
    BY <1>1, <1>3, <1>6, <2>1, <2>2 DEF Done, Same, Left, Sees, Advances, Progress, InOrder,
       Stage, RetrofitApplying
  <2> QED
    BY <2>1, <2>2, <1>5 DEF Steps, Passes
<1>7. CASE job.at = 2
  <2>1. /\ Now.cmd = "stop" /\ Now.when = {}
        /\ Now.fail # End /\ Now.fail[1] = "retrofitUndo" /\ Now.fail[2] = 1
    BY <1>1, <1>2, <1>3, <1>7 DEF Row
  <2>2. ASSUME NEW clears, NEW brings, Done(b, c), Sees(b, clears, brings),
               Advances(clears, brings)
        PROVE  Progress(job', c)
    BY <1>1, <1>3, <1>7, <2>1, <2>2 DEF Done, Same, Left, Sees, Advances, Progress, InOrder,
       Stage, RetrofitApplying
  <2> QED
    BY <2>1, <2>2, <1>5 DEF Steps, Passes
<1>8. CASE job.at = 3
  <2>1. /\ Now.cmd = "setAside" /\ Now.when = {}
        /\ Now.fail # End /\ Now.fail[1] = "retrofitUndo" /\ Now.fail[2] = 1
    BY <1>1, <1>2, <1>3, <1>8 DEF Row
  <2>2. ASSUME NEW clears, NEW brings, Done(b, c), Sees(b, clears, brings),
               Advances(clears, brings)
        PROVE  Progress(job', c)
    BY <1>1, <1>3, <1>8, <2>1, <2>2 DEF Done, Same, Left, Sees, Advances, Progress, InOrder,
       Stage, RetrofitApplying
  <2> QED
    BY <2>1, <2>2, <1>5 DEF Steps, Passes
<1>9. CASE job.at = 4
  <2>1. /\ Now.cmd = "create" /\ Now.when = {}
        /\ Now.fail # End /\ Now.fail[1] = "retrofitUndo" /\ Now.fail[2] = 1
    BY <1>1, <1>2, <1>3, <1>9 DEF Row
  <2>2. ASSUME NEW clears, NEW brings, Done(b, c), Sees(b, clears, brings),
               Advances(clears, brings)
        PROVE  Progress(job', c)
    BY <1>1, <1>3, <1>9, <2>1, <2>2 DEF Done, Same, Left, Sees, Advances, Progress, InOrder,
       Stage, RetrofitApplying
  <2> QED
    BY <2>1, <2>2, <1>5 DEF Steps, Passes
<1>10. CASE job.at = 5
  <2>1. /\ Now.cmd = "start" /\ Now.when = {}
        /\ Now.fail # End /\ Now.fail[1] = "retrofitUndo" /\ Now.fail[2] = 1
    BY <1>1, <1>2, <1>3, <1>10 DEF Row
  <2>2. ASSUME NEW clears, NEW brings, Done(b, c), Sees(b, clears, brings),
               Advances(clears, brings)
        PROVE  Progress(job', c)
    BY <1>1, <1>3, <1>10, <2>1, <2>2 DEF Done, Same, Left, Sees, Advances, Progress,
       InOrder, Stage, RetrofitApplying
  <2> QED
    BY <2>1, <2>2, <1>5 DEF Steps, Passes
<1>11. CASE job.at = 6
  <2>1. /\ Now.cmd = "ready" /\ Now.when = {}
        /\ Now.fail # End /\ Now.fail[1] = "retrofitUndo" /\ Now.fail[2] = 1
    BY <1>1, <1>2, <1>3, <1>11 DEF Row
  <2>2. ASSUME NEW clears, NEW brings, Done(b, c), Sees(b, clears, brings),
               Advances(clears, brings)
        PROVE  Progress(job', c)
    BY <1>1, <1>3, <1>11, <2>1, <2>2 DEF Done, Same, Left, Sees, Advances, Progress,
       InOrder, Stage, RetrofitApplying
  <2> QED
    BY <2>1, <2>2, <1>5 DEF Steps, Passes
<1>12. CASE job.at = 7
  <2>1. /\ Now.cmd = "isNew" /\ Now.when = {}
        /\ Now.fail # End /\ Now.fail[1] = "retrofitUndo" /\ Now.fail[2] = 1
    BY <1>1, <1>2, <1>3, <1>12 DEF Row
  <2>2. ASSUME NEW clears, NEW brings, Done(b, c), Sees(b, clears, brings),
               Advances(clears, brings)
        PROVE  Progress(job', c)
    BY <1>1, <1>3, <1>12, <2>1, <2>2 DEF Done, Same, Left, Sees, Advances, Progress,
       InOrder, Outcome, Verdict, RetrofitApplying
  <2> QED
    BY <2>1, <2>2, <1>5 DEF Steps, Passes
<1> QED
  BY <1>1, <1>6, <1>7, <1>8, <1>9, <1>10, <1>11, <1>12

\* Its undo: with the original aside and nothing else failing, the name is free at
\* the fifth row.
LEMMA RetrofitUndoSteps ==
  ASSUME Working("retrofitUndo"), NEW c, c = box'[job.service], Steps(Here, c)
  PROVE  Holding(job', c)
<1> DEFINE b == Here
<1>1. /\ job.at \in 1..8 /\ Now = RetrofitUndo[job.at] /\ Lengths[job.script] = 8
      /\ job.script = "retrofitUndo" /\ job.running /\ job.verdict = None
      /\ job.service \in Services
      /\ InOrder(b) /\ RetrofitUndoing(job, b)
  BY DEF Working, JobFits, Lengths, Now, Scripts, Holding, Progress, Stage
<1>2. /\ RetrofitUndo[1] = Row("lookAny", {}, <<"retrofitUndo", 5>>)
      /\ RetrofitUndo[2] = Row("noRestart", {}, <<"retrofitUndo", 5>>)
      /\ RetrofitUndo[3] = Row("stop", {"up"}, <<"retrofitUndo", 5>>)
      /\ RetrofitUndo[4] = Row("remove", {}, <<"retrofitUndo", 5>>)
      /\ RetrofitUndo[5] = Row("bringBack", {}, End)
      /\ RetrofitUndo[6] = Row("restart", {}, End)
      /\ RetrofitUndo[7] = Row("start", {}, End)
      /\ RetrofitUndo[8] = Row("ready", {}, End)
  BY DEF RetrofitUndo
<1>3. /\ None \notin Services /\ None # "old" /\ None # "new"
      /\ <<"retrofitUndo", 5>> # End
      /\ <<"retrofitUndo", 5>>[1] = "retrofitUndo" /\ <<"retrofitUndo", 5>>[2] = 5
  BY NoneAssumption DEF Containers, End
<1>4. Holds("up") <=> b.live \in b.up
  BY DEF Holds, Here
<1>5. InOrder(c)
  <2>1. Now.cmd # "setAside"
    BY <1>1, <1>2 DEF Row
  <2> QED
    BY <1>1, <2>1, NamesStep DEF ContainerScripts
<1> SUFFICES Progress(job', c)
  BY <1>5 DEF Holding
<1>6. ASSUME Falls(TRUE)
      PROVE  Progress(job', c)
  <2>1. \/ Now.fail = End
        \/ Now.fail # End /\ Now.fail[1] = "retrofitUndo" /\ Now.fail[2] = 5
    BY <1>1, <1>2, <1>3 DEF Row
  <2> QED
    BY <1>1, <1>3, <1>5, <1>6, <2>1 DEF Falls, Progress, Stage, RetrofitUndoing, Outcome
<1>7. CASE job.at = 1
  <2>1. /\ Now.cmd = "lookAny" /\ Now.when = {}
        /\ Now.fail # End /\ Now.fail[1] = "retrofitUndo" /\ Now.fail[2] = 5
    BY <1>1, <1>2, <1>3, <1>7 DEF Row
  <2>2. ASSUME NEW clears, NEW brings, Done(b, c), Sees(b, clears, brings),
               Advances(clears, brings)
        PROVE  Progress(job', c)
    BY <1>1, <1>3, <1>7, <2>1, <2>2 DEF Done, Same, Left, Sees, Advances, Progress, InOrder,
       Stage, RetrofitUndoing
  <2>3. ASSUME Impossible(b), Same(b, c), Falls(FALSE)
        PROVE  Progress(job', c)
    BY <1>1, <1>3, <1>7, <2>1, <2>3 DEF Impossible, Same, Left, Falls, Progress, InOrder,
       RetrofitUndoing, Stage
  <2> QED
    BY <2>1, <2>2, <2>3, <1>6 DEF Steps, Passes
<1>8. CASE job.at = 2
  <2>1. /\ Now.cmd = "noRestart" /\ Now.when = {}
        /\ Now.fail # End /\ Now.fail[1] = "retrofitUndo" /\ Now.fail[2] = 5
    BY <1>1, <1>2, <1>3, <1>8 DEF Row
  <2>2. ASSUME NEW clears, NEW brings, Done(b, c), Sees(b, clears, brings),
               Advances(clears, brings)
        PROVE  Progress(job', c)
    BY <1>1, <1>3, <1>8, <2>1, <2>2 DEF Done, Same, Left, Sees, Advances, Progress, InOrder,
       Stage, RetrofitUndoing
  <2>3. ASSUME Impossible(b), Same(b, c), Falls(FALSE)
        PROVE  Progress(job', c)
    BY <1>1, <1>3, <1>8, <2>1, <2>3 DEF Impossible, Same, Left, Falls, Progress, InOrder,
       RetrofitUndoing, Stage
  <2> QED
    BY <2>1, <2>2, <2>3, <1>6 DEF Steps, Passes
<1>9. CASE job.at = 3
  <2>1. /\ Now.cmd = "stop" /\ Now.when = {"up"}
        /\ Now.fail # End /\ Now.fail[1] = "retrofitUndo" /\ Now.fail[2] = 5
    BY <1>1, <1>2, <1>3, <1>9 DEF Row
  <2>2. ASSUME NEW clears, NEW brings, Done(b, c), Sees(b, clears, brings),
               Advances(clears, brings), \A condition \in Now.when : Holds(condition)
        PROVE  Progress(job', c)
    BY <1>1, <1>3, <1>4, <1>9, <2>1, <2>2 DEF Done, Same, Left, Sees, Advances, Progress,
       InOrder, Stage, RetrofitUndoing
  <2>3. ASSUME Impossible(b), Same(b, c), Falls(FALSE)
        PROVE  Progress(job', c)
    BY <1>1, <1>3, <1>9, <2>1, <2>3 DEF Impossible, Same, Left, Falls, Progress, InOrder,
       RetrofitUndoing, Stage
  <2>4. ASSUME Passes(b, c)
        PROVE  Progress(job', c)
    BY <1>1, <1>3, <1>4, <1>9, <2>1, <2>4 DEF Passes, Same, Left, Advances, Progress, Stage,
       RetrofitUndoing
  <2> QED
    BY <2>1, <2>2, <2>3, <1>6, <2>4 DEF Steps
<1>10. CASE job.at = 4
  <2>1. /\ Now.cmd = "remove" /\ Now.when = {}
        /\ Now.fail # End /\ Now.fail[1] = "retrofitUndo" /\ Now.fail[2] = 5
    BY <1>1, <1>2, <1>3, <1>10 DEF Row
  <2>2. ASSUME NEW clears, NEW brings, Done(b, c), Sees(b, clears, brings),
               Advances(clears, brings)
        PROVE  Progress(job', c)
    BY <1>1, <1>3, <1>10, <2>1, <2>2 DEF Done, Same, Left, Sees, Advances, Progress,
       InOrder, Stage, RetrofitUndoing
  <2>3. ASSUME Impossible(b), Same(b, c), Falls(FALSE)
        PROVE  Progress(job', c)
    BY <1>1, <1>3, <1>10, <2>1, <2>3 DEF Impossible, Same, Left, Falls, Progress, InOrder,
       RetrofitUndoing, Stage
  <2> QED
    BY <2>1, <2>2, <2>3, <1>6 DEF Steps, Passes
<1>11. CASE job.at = 5
  <2>1. /\ Now.cmd = "bringBack" /\ Now.when = {}
        /\ Now.fail = End
    BY <1>1, <1>2, <1>3, <1>11 DEF Row
  <2>2. ASSUME NEW clears, NEW brings, Done(b, c), Sees(b, clears, brings),
               Advances(clears, brings)
        PROVE  Progress(job', c)
    BY <1>1, <1>3, <1>11, <2>1, <2>2 DEF Done, Same, Left, Sees, Advances, Progress,
       InOrder, Stage, RetrofitUndoing
  <2>3. ASSUME Impossible(b), Same(b, c), Falls(FALSE)
        PROVE  Progress(job', c)
    BY <1>1, <1>3, <1>11, <2>1, <2>3 DEF Impossible, Same, Left, Falls, Progress, InOrder,
       RetrofitUndoing, Outcome
  <2> QED
    BY <2>1, <2>2, <2>3, <1>6 DEF Steps, Passes
<1>12. CASE job.at = 6
  <2>1. /\ Now.cmd = "restart" /\ Now.when = {}
        /\ Now.fail = End
    BY <1>1, <1>2, <1>3, <1>12 DEF Row
  <2>2. ASSUME NEW clears, NEW brings, Done(b, c), Sees(b, clears, brings),
               Advances(clears, brings)
        PROVE  Progress(job', c)
    BY <1>1, <1>3, <1>12, <2>1, <2>2 DEF Done, Same, Left, Sees, Advances, Progress,
       InOrder, Stage, RetrofitUndoing
  <2>3. ASSUME Impossible(b), Same(b, c), Falls(FALSE)
        PROVE  Progress(job', c)
    BY <1>1, <1>3, <1>12, <2>1, <2>3 DEF Impossible, Same, Left, Falls, Progress, InOrder,
       RetrofitUndoing, Outcome
  <2> QED
    BY <2>1, <2>2, <2>3, <1>6 DEF Steps, Passes
<1>13. CASE job.at = 7
  <2>1. /\ Now.cmd = "start" /\ Now.when = {}
        /\ Now.fail = End
    BY <1>1, <1>2, <1>3, <1>13 DEF Row
  <2>2. ASSUME NEW clears, NEW brings, Done(b, c), Sees(b, clears, brings),
               Advances(clears, brings)
        PROVE  Progress(job', c)
    BY <1>1, <1>3, <1>13, <2>1, <2>2 DEF Done, Same, Left, Sees, Advances, Progress,
       InOrder, Stage, RetrofitUndoing
  <2>3. ASSUME Impossible(b), Same(b, c), Falls(FALSE)
        PROVE  Progress(job', c)
    BY <1>1, <1>3, <1>13, <2>1, <2>3 DEF Impossible, Same, Left, Falls, Progress, InOrder,
       RetrofitUndoing, Outcome
  <2> QED
    BY <2>1, <2>2, <2>3, <1>6 DEF Steps, Passes
<1>14. CASE job.at = 8
  <2>1. /\ Now.cmd = "ready" /\ Now.when = {}
        /\ Now.fail = End
    BY <1>1, <1>2, <1>3, <1>14 DEF Row
  <2>2. ASSUME NEW clears, NEW brings, Done(b, c), Sees(b, clears, brings),
               Advances(clears, brings)
        PROVE  Progress(job', c)
    BY <1>1, <1>3, <1>14, <2>1, <2>2 DEF Done, Same, Left, Sees, Advances, Progress,
       InOrder, Outcome, Verdict, RetrofitUndoing
  <2>3. ASSUME Impossible(b), Same(b, c), Falls(FALSE)
        PROVE  Progress(job', c)
    BY <1>1, <1>3, <1>14, <2>1, <2>3 DEF Impossible, Same, Left, Falls, Progress, InOrder,
       RetrofitUndoing, Outcome
  <2> QED
    BY <2>1, <2>2, <2>3, <1>6 DEF Steps, Passes
<1> QED
  BY <1>1, <1>7, <1>8, <1>9, <1>10, <1>11, <1>12, <1>13, <1>14

\* The rollback of the retrofit: it goes on only with the original aside.
LEMMA RetrofitBackSteps ==
  ASSUME Working("retrofitBack"), NEW c, c = box'[job.service], Steps(Here, c)
  PROVE  Holding(job', c)
<1> DEFINE b == Here
<1>1. /\ job.at \in 1..9 /\ Now = RetrofitBack[job.at] /\ Lengths[job.script] = 9
      /\ job.script = "retrofitBack" /\ job.running /\ job.verdict = None
      /\ job.service \in Services
      /\ InOrder(b) /\ RetrofitBacking(job, b)
  BY DEF Working, JobFits, Lengths, Now, Scripts, Holding, Progress, Stage
<1>2. /\ RetrofitBack[1] = Row("lookNew", {}, End)
      /\ RetrofitBack[2] = Row("noRestart", {}, End)
      /\ RetrofitBack[3] = Row("stop", {"up"}, End)
      /\ RetrofitBack[4] = Row("remove", {}, End)
      /\ RetrofitBack[5] = Row("isAside", {}, End)
      /\ RetrofitBack[6] = Row("bringBack", {}, End)
      /\ RetrofitBack[7] = Row("restart", {}, End)
      /\ RetrofitBack[8] = Row("start", {}, End)
      /\ RetrofitBack[9] = Row("ready", {}, End)
  BY DEF RetrofitBack
<1>3. None \notin Services /\ None # "old" /\ None # "new"
  BY NoneAssumption DEF Containers
<1>4. Holds("up") <=> b.live \in b.up
  BY DEF Holds, Here
<1>5. InOrder(c)
  <2>1. Now.cmd # "setAside"
    BY <1>1, <1>2 DEF Row
  <2> QED
    BY <1>1, <2>1, NamesStep DEF ContainerScripts
<1> SUFFICES Progress(job', c)
  BY <1>5 DEF Holding
<1>6. ASSUME NEW byFault, Falls(byFault)
      PROVE  Progress(job', c)
  <2>1. Now.fail = End
    BY <1>1, <1>2, <1>3 DEF Row
  <2> QED
    BY <1>1, <1>3, <1>5, <1>6, <2>1 DEF Falls, Progress, Outcome
<1>7. CASE job.at = 1
  <2>1. /\ Now.cmd = "lookNew" /\ Now.when = {}
        /\ Now.fail = End
    BY <1>1, <1>2, <1>3, <1>7 DEF Row
  <2>2. ASSUME NEW clears, NEW brings, Done(b, c), Sees(b, clears, brings),
               Advances(clears, brings)
        PROVE  Progress(job', c)
    BY <1>1, <1>3, <1>7, <2>1, <2>2 DEF Done, Same, Left, Sees, Advances, Progress, InOrder,
       Stage, RetrofitBacking
  <2>4. ASSUME Stops
        PROVE  Progress(job', c)
    <3>1. ~job'.running /\ job'.script = job.script /\ job'.verdict = "already"
      BY <1>1, <2>4 DEF Stops, Working, TypeOK, Jobs
    <3> QED
      BY <1>1, <3>1 DEF Progress, Outcome
  <2> QED
    BY <2>1, <2>2, <1>6, <2>4 DEF Steps, Passes
<1>8. CASE job.at = 2
  <2>1. /\ Now.cmd = "noRestart" /\ Now.when = {}
        /\ Now.fail = End
    BY <1>1, <1>2, <1>3, <1>8 DEF Row
  <2>2. ASSUME NEW clears, NEW brings, Done(b, c), Sees(b, clears, brings),
               Advances(clears, brings)
        PROVE  Progress(job', c)
    BY <1>1, <1>3, <1>8, <2>1, <2>2 DEF Done, Same, Left, Sees, Advances, Progress, InOrder,
       Stage, RetrofitBacking
  <2> QED
    BY <2>1, <2>2, <1>6 DEF Steps, Passes
<1>9. CASE job.at = 3
  <2>1. /\ Now.cmd = "stop" /\ Now.when = {"up"}
        /\ Now.fail = End
    BY <1>1, <1>2, <1>3, <1>9 DEF Row
  <2>2. ASSUME NEW clears, NEW brings, Done(b, c), Sees(b, clears, brings),
               Advances(clears, brings), \A condition \in Now.when : Holds(condition)
        PROVE  Progress(job', c)
    BY <1>1, <1>3, <1>4, <1>9, <2>1, <2>2 DEF Done, Same, Left, Sees, Advances, Progress,
       InOrder, Stage, RetrofitBacking
  <2>4. ASSUME Passes(b, c)
        PROVE  Progress(job', c)
    BY <1>1, <1>3, <1>4, <1>9, <2>1, <2>4 DEF Passes, Same, Left, Advances, Progress, Stage,
       RetrofitBacking
  <2> QED
    BY <2>1, <2>2, <1>6, <2>4 DEF Steps
<1>10. CASE job.at = 4
  <2>1. /\ Now.cmd = "remove" /\ Now.when = {}
        /\ Now.fail = End
    BY <1>1, <1>2, <1>3, <1>10 DEF Row
  <2>2. ASSUME NEW clears, NEW brings, Done(b, c), Sees(b, clears, brings),
               Advances(clears, brings)
        PROVE  Progress(job', c)
    BY <1>1, <1>3, <1>10, <2>1, <2>2 DEF Done, Same, Left, Sees, Advances, Progress,
       InOrder, Stage, RetrofitBacking
  <2> QED
    BY <2>1, <2>2, <1>6 DEF Steps, Passes
<1>11. CASE job.at = 5
  <2>1. /\ Now.cmd = "isAside" /\ Now.when = {}
        /\ Now.fail = End
    BY <1>1, <1>2, <1>3, <1>11 DEF Row
  <2>2. ASSUME NEW clears, NEW brings, Done(b, c), Sees(b, clears, brings),
               Advances(clears, brings)
        PROVE  Progress(job', c)
    BY <1>1, <1>3, <1>11, <2>1, <2>2 DEF Done, Same, Left, Sees, Advances, Progress,
       InOrder, Stage, RetrofitBacking
  <2> QED
    BY <2>1, <2>2, <1>6 DEF Steps, Passes
<1>12. CASE job.at = 6
  <2>1. /\ Now.cmd = "bringBack" /\ Now.when = {}
        /\ Now.fail = End
    BY <1>1, <1>2, <1>3, <1>12 DEF Row
  <2>2. ASSUME NEW clears, NEW brings, Done(b, c), Sees(b, clears, brings),
               Advances(clears, brings)
        PROVE  Progress(job', c)
    BY <1>1, <1>3, <1>12, <2>1, <2>2 DEF Done, Same, Left, Sees, Advances, Progress,
       InOrder, Stage, RetrofitBacking
  <2> QED
    BY <2>1, <2>2, <1>6 DEF Steps, Passes
<1>13. CASE job.at = 7
  <2>1. /\ Now.cmd = "restart" /\ Now.when = {}
        /\ Now.fail = End
    BY <1>1, <1>2, <1>3, <1>13 DEF Row
  <2>2. ASSUME NEW clears, NEW brings, Done(b, c), Sees(b, clears, brings),
               Advances(clears, brings)
        PROVE  Progress(job', c)
    BY <1>1, <1>3, <1>13, <2>1, <2>2 DEF Done, Same, Left, Sees, Advances, Progress,
       InOrder, Stage, RetrofitBacking
  <2> QED
    BY <2>1, <2>2, <1>6 DEF Steps, Passes
<1>14. CASE job.at = 8
  <2>1. /\ Now.cmd = "start" /\ Now.when = {}
        /\ Now.fail = End
    BY <1>1, <1>2, <1>3, <1>14 DEF Row
  <2>2. ASSUME NEW clears, NEW brings, Done(b, c), Sees(b, clears, brings),
               Advances(clears, brings)
        PROVE  Progress(job', c)
    BY <1>1, <1>3, <1>14, <2>1, <2>2 DEF Done, Same, Left, Sees, Advances, Progress,
       InOrder, Stage, RetrofitBacking
  <2> QED
    BY <2>1, <2>2, <1>6 DEF Steps, Passes
<1>15. CASE job.at = 9
  <2>1. /\ Now.cmd = "ready" /\ Now.when = {}
        /\ Now.fail = End
    BY <1>1, <1>2, <1>3, <1>15 DEF Row
  <2>2. ASSUME NEW clears, NEW brings, Done(b, c), Sees(b, clears, brings),
               Advances(clears, brings)
        PROVE  Progress(job', c)
    BY <1>1, <1>3, <1>15, <2>1, <2>2 DEF Done, Same, Left, Sees, Advances, Progress,
       InOrder, Outcome, Verdict, RetrofitBacking
  <2> QED
    BY <2>1, <2>2, <1>6 DEF Steps, Passes
<1> QED
  BY <1>1, <1>7, <1>8, <1>9, <1>10, <1>11, <1>12, <1>13, <1>14, <1>15

\* Caddy: what this run has set aside it was told of by its look; the candidate has
\* the name from the eighth row on.
LEMMA CaddyApplySteps ==
  ASSUME Working("caddyApply"), NEW c, c = box'[job.service], Steps(Here, c),
         Survives(job.service)
  PROVE  Holding(job', c)
<1> DEFINE b == Here
<1>1. /\ job.at \in 1..10 /\ Now = CaddyApply[job.at] /\ Lengths[job.script] = 10
      /\ job.script = "caddyApply" /\ job.running /\ job.verdict = None
      /\ job.service \in Services
      /\ InOrder(b) /\ CaddyApplying(job, b)
      /\ "old" \in {b.live, b.aside}
  BY DEF Working, JobFits, Lengths, Now, Scripts, Holding, Progress, Stage, Here, Survives
<1>2. /\ CaddyApply[1] = Row("dropNext", {}, <<"caddyApply", 2>>)
      /\ CaddyApply[2] = Row("createNext", {}, End)
      /\ CaddyApply[3] = Row("connectNext", {}, <<"caddyTrap", 1>>)
      /\ CaddyApply[4] = Row("lookAny", {}, <<"caddyApply", 7>>)
      /\ CaddyApply[5] = Row("stop", {"clears"}, <<"caddyTrap", 1>>)
      /\ CaddyApply[6] = Row("setAside", {"clears"}, <<"caddyTrap", 1>>)
      /\ CaddyApply[7] = Row("promote", {}, <<"caddyTrap", 1>>)
      /\ CaddyApply[8] = Row("start", {}, <<"caddyUndo", 1>>)
      /\ CaddyApply[9] = Row("ready", {}, <<"caddyUndo", 1>>)
      /\ CaddyApply[10] = Row("ready", {}, <<"caddyUndo", 1>>)
  BY DEF CaddyApply, To
<1>3. /\ None \notin Services /\ None # "old" /\ None # "new"
      /\ <<"caddyApply", 2>> # End
      /\ <<"caddyApply", 2>>[1] = "caddyApply" /\ <<"caddyApply", 2>>[2] = 2
      /\ <<"caddyApply", 7>> # End
      /\ <<"caddyApply", 7>>[1] = "caddyApply" /\ <<"caddyApply", 7>>[2] = 7
      /\ <<"caddyTrap", 1>> # End
      /\ <<"caddyTrap", 1>>[1] = "caddyTrap" /\ <<"caddyTrap", 1>>[2] = 1
      /\ <<"caddyUndo", 1>> # End
      /\ <<"caddyUndo", 1>>[1] = "caddyUndo" /\ <<"caddyUndo", 1>>[2] = 1
  BY NoneAssumption DEF Containers, End
<1>4. Holds("clears") <=> job.clears
  BY DEF Holds, Here
<1>5. InOrder(c)
  <2>1. Now.cmd = "setAside" /\ Done(b, c) => b.live = "old"
    <3>1. Now.cmd = "setAside" => job.at = 6
      BY <1>1, <1>2 DEF Row
    <3> QED
      BY <1>1, <1>3, <3>1 DEF Done, CaddyApplying
  <2> QED
    BY <1>1, <2>1, NamesStep DEF ContainerScripts
<1> SUFFICES Progress(job', c)
  BY <1>5 DEF Holding
<1>6. CASE job.at = 1
  <2>1. /\ Now.cmd = "dropNext" /\ Now.when = {}
        /\ Now.fail # End /\ Now.fail[1] = "caddyApply" /\ Now.fail[2] = 2
    BY <1>1, <1>2, <1>3, <1>6 DEF Row
  <2>2. ASSUME NEW clears, NEW brings, Done(b, c), Sees(b, clears, brings),
               Advances(clears, brings)
        PROVE  Progress(job', c)
    BY <1>1, <1>3, <1>6, <2>1, <2>2 DEF Done, Same, Left, Sees, Advances, Progress, InOrder,
       Stage, CaddyApplying
  <2>3. ASSUME NEW byFault, Same(b, c) \/ Done(b, c), Falls(byFault)
        PROVE  Progress(job', c)
    BY <1>1, <1>3, <1>5, <1>6, <2>1, <2>3 DEF Falls, Progress, Done, Same, Left, Stage,
       CaddyApplying, InOrder
  <2> QED
    BY <2>1, <2>2, <2>3 DEF Steps, Passes
<1>7. CASE job.at = 2
  <2>1. /\ Now.cmd = "createNext" /\ Now.when = {}
        /\ Now.fail = End
    BY <1>1, <1>2, <1>3, <1>7 DEF Row
  <2>2. ASSUME NEW clears, NEW brings, Done(b, c), Sees(b, clears, brings),
               Advances(clears, brings)
        PROVE  Progress(job', c)
    BY <1>1, <1>3, <1>7, <2>1, <2>2 DEF Done, Same, Left, Sees, Advances, Progress, InOrder,
       Stage, CaddyApplying
  <2>3. ASSUME NEW byFault, Same(b, c) \/ Done(b, c), Falls(byFault)
        PROVE  Progress(job', c)
    BY <1>1, <1>3, <1>5, <1>7, <2>1, <2>3 DEF Falls, Progress, Outcome
  <2> QED
    BY <2>1, <2>2, <2>3 DEF Steps, Passes
<1>8. CASE job.at = 3
  <2>1. /\ Now.cmd = "connectNext" /\ Now.when = {}
        /\ Now.fail # End /\ Now.fail[1] = "caddyTrap" /\ Now.fail[2] = 1
    BY <1>1, <1>2, <1>3, <1>8 DEF Row
  <2>2. ASSUME NEW clears, NEW brings, Done(b, c), Sees(b, clears, brings),
               Advances(clears, brings)
        PROVE  Progress(job', c)
    BY <1>1, <1>3, <1>8, <2>1, <2>2 DEF Done, Same, Left, Sees, Advances, Progress, InOrder,
       Stage, CaddyApplying
  <2>3. ASSUME NEW byFault, Same(b, c) \/ Done(b, c), Falls(byFault)
        PROVE  Progress(job', c)
    BY <1>1, <1>3, <1>5, <1>8, <2>1, <2>3 DEF Falls, Progress, Stage
  <2> QED
    BY <2>1, <2>2, <2>3 DEF Steps, Passes
<1>9. CASE job.at = 4
  <2>1. /\ Now.cmd = "lookAny" /\ Now.when = {}
        /\ Now.fail # End /\ Now.fail[1] = "caddyApply" /\ Now.fail[2] = 7
    BY <1>1, <1>2, <1>3, <1>9 DEF Row
  <2>2. ASSUME NEW clears, NEW brings, Done(b, c), Sees(b, clears, brings),
               Advances(clears, brings)
        PROVE  Progress(job', c)
    BY <1>1, <1>3, <1>9, <2>1, <2>2 DEF Done, Same, Left, Sees, Advances, Progress, InOrder,
       Stage, CaddyApplying
  <2>3. ASSUME NEW byFault, Same(b, c) \/ Done(b, c), Falls(byFault)
        PROVE  Progress(job', c)
    BY <1>1, <1>3, <1>5, <1>9, <2>1, <2>3 DEF Falls, Progress, Done, Same, Left, Stage,
       CaddyApplying, InOrder
  <2> QED
    BY <2>1, <2>2, <2>3 DEF Steps, Passes
<1>10. CASE job.at = 5
  <2>1. /\ Now.cmd = "stop" /\ Now.when = {"clears"}
        /\ Now.fail # End /\ Now.fail[1] = "caddyTrap" /\ Now.fail[2] = 1
    BY <1>1, <1>2, <1>3, <1>10 DEF Row
  <2>2. ASSUME NEW clears, NEW brings, Done(b, c), Sees(b, clears, brings),
               Advances(clears, brings), \A condition \in Now.when : Holds(condition)
        PROVE  Progress(job', c)
    BY <1>1, <1>3, <1>4, <1>10, <2>1, <2>2 DEF Done, Same, Left, Sees, Advances, Progress,
       InOrder, Stage, CaddyApplying
  <2>3. ASSUME NEW byFault, Same(b, c) \/ Done(b, c), Falls(byFault)
        PROVE  Progress(job', c)
    BY <1>1, <1>3, <1>5, <1>10, <2>1, <2>3 DEF Falls, Progress, Stage
  <2>4. ASSUME Passes(b, c)
        PROVE  Progress(job', c)
    BY <1>1, <1>3, <1>4, <1>10, <2>1, <2>4 DEF Passes, Same, Left, Advances, Progress,
       Stage, CaddyApplying
  <2> QED
    BY <2>1, <2>2, <2>3, <2>4 DEF Steps
<1>11. CASE job.at = 6
  <2>1. /\ Now.cmd = "setAside" /\ Now.when = {"clears"}
        /\ Now.fail # End /\ Now.fail[1] = "caddyTrap" /\ Now.fail[2] = 1
    BY <1>1, <1>2, <1>3, <1>11 DEF Row
  <2>2. ASSUME NEW clears, NEW brings, Done(b, c), Sees(b, clears, brings),
               Advances(clears, brings), \A condition \in Now.when : Holds(condition)
        PROVE  Progress(job', c)
    BY <1>1, <1>3, <1>4, <1>11, <2>1, <2>2 DEF Done, Same, Left, Sees, Advances, Progress,
       InOrder, Stage, CaddyApplying
  <2>3. ASSUME NEW byFault, Same(b, c) \/ Done(b, c), Falls(byFault)
        PROVE  Progress(job', c)
    BY <1>1, <1>3, <1>5, <1>11, <2>1, <2>3 DEF Falls, Progress, Stage
  <2>4. ASSUME Passes(b, c)
        PROVE  Progress(job', c)
    BY <1>1, <1>3, <1>4, <1>11, <2>1, <2>4 DEF Passes, Same, Left, Advances, Progress,
       Stage, CaddyApplying
  <2> QED
    BY <2>1, <2>2, <2>3, <2>4 DEF Steps
<1>12. CASE job.at = 7
  <2>1. /\ Now.cmd = "promote" /\ Now.when = {}
        /\ Now.fail # End /\ Now.fail[1] = "caddyTrap" /\ Now.fail[2] = 1
    BY <1>1, <1>2, <1>3, <1>12 DEF Row
  <2>2. ASSUME NEW clears, NEW brings, Done(b, c), Sees(b, clears, brings),
               Advances(clears, brings)
        PROVE  Progress(job', c)
    BY <1>1, <1>3, <1>12, <2>1, <2>2 DEF Done, Same, Left, Sees, Advances, Progress,
       InOrder, Stage, CaddyApplying
  <2>3. ASSUME NEW byFault, Same(b, c) \/ Done(b, c), Falls(byFault)
        PROVE  Progress(job', c)
    BY <1>1, <1>3, <1>5, <1>12, <2>1, <2>3 DEF Falls, Progress, Stage
  <2> QED
    BY <2>1, <2>2, <2>3 DEF Steps, Passes
<1>13. CASE job.at = 8
  <2>1. /\ Now.cmd = "start" /\ Now.when = {}
        /\ Now.fail # End /\ Now.fail[1] = "caddyUndo" /\ Now.fail[2] = 1
    BY <1>1, <1>2, <1>3, <1>13 DEF Row
  <2>2. ASSUME NEW clears, NEW brings, Done(b, c), Sees(b, clears, brings),
               Advances(clears, brings)
        PROVE  Progress(job', c)
    BY <1>1, <1>3, <1>13, <2>1, <2>2 DEF Done, Same, Left, Sees, Advances, Progress,
       InOrder, Stage, CaddyApplying
  <2>3. ASSUME NEW byFault, Same(b, c) \/ Done(b, c), Falls(byFault)
        PROVE  Progress(job', c)
    BY <1>1, <1>3, <1>5, <1>13, <2>1, <2>3 DEF Falls, Progress, Done, Same, Left, Stage,
       CaddyUndoing, KeptNow, InOrder, CaddyApplying
  <2> QED
    BY <2>1, <2>2, <2>3 DEF Steps, Passes
<1>14. CASE job.at = 9
  <2>1. /\ Now.cmd = "ready" /\ Now.when = {}
        /\ Now.fail # End /\ Now.fail[1] = "caddyUndo" /\ Now.fail[2] = 1
    BY <1>1, <1>2, <1>3, <1>14 DEF Row
  <2>2. ASSUME NEW clears, NEW brings, Done(b, c), Sees(b, clears, brings),
               Advances(clears, brings)
        PROVE  Progress(job', c)
    BY <1>1, <1>3, <1>14, <2>1, <2>2 DEF Done, Same, Left, Sees, Advances, Progress,
       InOrder, Stage, CaddyApplying
  <2>3. ASSUME NEW byFault, Same(b, c) \/ Done(b, c), Falls(byFault)
        PROVE  Progress(job', c)
    BY <1>1, <1>3, <1>5, <1>14, <2>1, <2>3 DEF Falls, Progress, Done, Same, Left, Stage,
       CaddyUndoing, KeptNow, InOrder, CaddyApplying
  <2> QED
    BY <2>1, <2>2, <2>3 DEF Steps, Passes
<1>15. CASE job.at = 10
  <2>1. /\ Now.cmd = "ready" /\ Now.when = {}
        /\ Now.fail # End /\ Now.fail[1] = "caddyUndo" /\ Now.fail[2] = 1
    BY <1>1, <1>2, <1>3, <1>15 DEF Row
  <2>2. ASSUME NEW clears, NEW brings, Done(b, c), Sees(b, clears, brings),
               Advances(clears, brings)
        PROVE  Progress(job', c)
    BY <1>1, <1>3, <1>15, <2>1, <2>2 DEF Done, Same, Left, Sees, Advances, Progress,
       InOrder, Outcome, Verdict, CaddyApplying
  <2>3. ASSUME NEW byFault, Same(b, c) \/ Done(b, c), Falls(byFault)
        PROVE  Progress(job', c)
    BY <1>1, <1>3, <1>5, <1>15, <2>1, <2>3 DEF Falls, Progress, Done, Same, Left, Stage,
       CaddyUndoing, KeptNow, InOrder, CaddyApplying
  <2> QED
    BY <2>1, <2>2, <2>3 DEF Steps, Passes
<1> QED
  BY <1>1, <1>6, <1>7, <1>8, <1>9, <1>10, <1>11, <1>12, <1>13, <1>14, <1>15

\* Its trap drops the candidate only.
LEMMA CaddyTrapSteps ==
  ASSUME Working("caddyTrap"), NEW c, c = box'[job.service], Steps(Here, c)
  PROVE  Holding(job', c)
<1> DEFINE b == Here
<1>1. /\ job.at \in 1..1 /\ Now = CaddyTrap[job.at] /\ Lengths[job.script] = 1
      /\ job.script = "caddyTrap" /\ job.running /\ job.verdict = None
      /\ job.service \in Services
      /\ InOrder(b)
  BY DEF Working, JobFits, Lengths, Now, Scripts, Holding, Progress, Stage
<1>2. CaddyTrap[1] = Row("dropNext", {}, End)
  BY DEF CaddyTrap
<1>3. None \notin Services /\ None # "old" /\ None # "new"
  BY NoneAssumption DEF Containers
<1>4. InOrder(c)
  <2>1. Now.cmd # "setAside"
    BY <1>1, <1>2 DEF Row
  <2> QED
    BY <1>1, <2>1, NamesStep DEF ContainerScripts
<1> SUFFICES Progress(job', c)
  BY <1>4 DEF Holding
<1>5. ASSUME NEW byFault, Falls(byFault)
      PROVE  Progress(job', c)
  <2>1. Now.fail = End
    BY <1>1, <1>2, <1>3 DEF Row
  <2> QED
    BY <1>1, <1>3, <1>4, <1>5, <2>1 DEF Falls, Progress, Outcome
<1>6. CASE job.at = 1
  <2>1. /\ Now.cmd = "dropNext" /\ Now.when = {}
        /\ Now.fail = End
    BY <1>1, <1>2, <1>3, <1>6 DEF Row
  <2>2. ASSUME NEW clears, NEW brings, Done(b, c), Sees(b, clears, brings),
               Advances(clears, brings)
        PROVE  Progress(job', c)
    BY <1>1, <1>3, <1>6, <2>1, <2>2 DEF Done, Same, Left, Sees, Advances, Progress, InOrder,
       Outcome, Verdict
  <2> QED
    BY <2>1, <2>2, <1>5 DEF Steps, Passes
<1> QED
  BY <1>1, <1>6

\* Its undo frees the name and gives it back to what this run has set aside.
LEMMA CaddyUndoSteps ==
  ASSUME Working("caddyUndo"), NEW c, c = box'[job.service], Steps(Here, c)
  PROVE  Holding(job', c)
<1> DEFINE b == Here
<1>1. /\ job.at \in 1..4 /\ Now = CaddyUndo[job.at] /\ Lengths[job.script] = 4
      /\ job.script = "caddyUndo" /\ job.running /\ job.verdict = None
      /\ job.service \in Services
      /\ InOrder(b) /\ CaddyUndoing(job, b)
  BY DEF Working, JobFits, Lengths, Now, Scripts, Holding, Progress, Stage
<1>2. /\ CaddyUndo[1] = Row("forceRemove", {}, <<"caddyUndo", 2>>)
      /\ CaddyUndo[2] = Row("lookAside", {"clears"}, End)
      /\ CaddyUndo[3] = Row("bringBack", {"brings"}, End)
      /\ CaddyUndo[4] = Row("start", {"brings"}, End)
  BY DEF CaddyUndo
<1>3. /\ None \notin Services /\ None # "old" /\ None # "new"
      /\ <<"caddyUndo", 2>> # End
      /\ <<"caddyUndo", 2>>[1] = "caddyUndo" /\ <<"caddyUndo", 2>>[2] = 2
  BY NoneAssumption DEF Containers, End
<1>4. /\ Holds("brings") <=> job.brings
      /\ Holds("clears") <=> job.clears
  BY DEF Holds, Here
<1>5. InOrder(c)
  <2>1. Now.cmd # "setAside"
    BY <1>1, <1>2 DEF Row
  <2> QED
    BY <1>1, <2>1, NamesStep DEF ContainerScripts
<1> SUFFICES Progress(job', c)
  BY <1>5 DEF Holding
<1>6. ASSUME Falls(TRUE)
      PROVE  Progress(job', c)
  <2>1. \/ Now.fail = End
        \/ Now.fail # End /\ Now.fail[1] = "caddyUndo" /\ Now.fail[2] = 2
    BY <1>1, <1>2, <1>3 DEF Row
  <2> QED
    BY <1>1, <1>3, <1>5, <1>6, <2>1 DEF Falls, Progress, Stage, CaddyUndoing, Outcome
<1>7. CASE job.at = 1
  <2>1. /\ Now.cmd = "forceRemove" /\ Now.when = {}
        /\ Now.fail # End /\ Now.fail[1] = "caddyUndo" /\ Now.fail[2] = 2
    BY <1>1, <1>2, <1>3, <1>7 DEF Row
  <2>2. ASSUME NEW clears, NEW brings, Done(b, c), Sees(b, clears, brings),
               Advances(clears, brings)
        PROVE  Progress(job', c)
    BY <1>1, <1>3, <1>7, <2>1, <2>2 DEF Done, Same, Left, Sees, Advances, Progress, InOrder,
       Stage, CaddyUndoing
  <2>3. ASSUME Impossible(b), Same(b, c), Falls(FALSE)
        PROVE  Progress(job', c)
    BY <1>1, <1>3, <1>7, <2>1, <2>3 DEF Impossible, Same, Left, Falls, Progress, InOrder,
       CaddyUndoing, Stage
  <2> QED
    BY <2>1, <2>2, <2>3, <1>6 DEF Steps, Passes
<1>8. CASE job.at = 2
  <2>1. /\ Now.cmd = "lookAside" /\ Now.when = {"clears"}
        /\ Now.fail = End
    BY <1>1, <1>2, <1>3, <1>8 DEF Row
  <2>2. ASSUME NEW clears, NEW brings, Done(b, c), Sees(b, clears, brings),
               Advances(clears, brings), \A condition \in Now.when : Holds(condition)
        PROVE  Progress(job', c)
    BY <1>1, <1>3, <1>4, <1>8, <2>1, <2>2 DEF Done, Same, Left, Sees, Advances, Progress,
       InOrder, Stage, CaddyUndoing
  <2>3. ASSUME Impossible(b), Same(b, c), Falls(FALSE)
        PROVE  Progress(job', c)
    BY <1>1, <1>3, <1>8, <2>1, <2>3 DEF Impossible, Same, Left, Falls, Progress, InOrder,
       CaddyUndoing, Outcome
  <2>4. ASSUME Passes(b, c)
        PROVE  Progress(job', c)
    BY <1>1, <1>3, <1>4, <1>8, <2>1, <2>4 DEF Passes, Same, Left, Advances, Progress, Stage,
       CaddyUndoing
  <2> QED
    BY <2>1, <2>2, <2>3, <1>6, <2>4 DEF Steps
<1>9. CASE job.at = 3
  <2>1. /\ Now.cmd = "bringBack" /\ Now.when = {"brings"}
        /\ Now.fail = End
    BY <1>1, <1>2, <1>3, <1>9 DEF Row
  <2>2. ASSUME NEW clears, NEW brings, Done(b, c), Sees(b, clears, brings),
               Advances(clears, brings), \A condition \in Now.when : Holds(condition)
        PROVE  Progress(job', c)
    BY <1>1, <1>3, <1>4, <1>9, <2>1, <2>2 DEF Done, Same, Left, Sees, Advances, Progress,
       InOrder, Stage, CaddyUndoing
  <2>3. ASSUME Impossible(b), Same(b, c), Falls(FALSE)
        PROVE  Progress(job', c)
    BY <1>1, <1>3, <1>9, <2>1, <2>3 DEF Impossible, Same, Left, Falls, Progress, InOrder,
       CaddyUndoing, Outcome
  <2>4. ASSUME Passes(b, c)
        PROVE  Progress(job', c)
    BY <1>1, <1>3, <1>4, <1>9, <2>1, <2>4 DEF Passes, Same, Left, Advances, Progress, Stage,
       CaddyUndoing
  <2> QED
    BY <2>1, <2>2, <2>3, <1>6, <2>4 DEF Steps
<1>10. CASE job.at = 4
  <2>1. /\ Now.cmd = "start" /\ Now.when = {"brings"}
        /\ Now.fail = End
    BY <1>1, <1>2, <1>3, <1>10 DEF Row
  <2>2. ASSUME NEW clears, NEW brings, Done(b, c), Sees(b, clears, brings),
               Advances(clears, brings), \A condition \in Now.when : Holds(condition)
        PROVE  Progress(job', c)
    BY <1>1, <1>3, <1>4, <1>10, <2>1, <2>2 DEF Done, Same, Left, Sees, Advances, Progress,
       InOrder, Outcome, Verdict, CaddyUndoing
  <2>3. ASSUME Impossible(b), Same(b, c), Falls(FALSE)
        PROVE  Progress(job', c)
    BY <1>1, <1>3, <1>10, <2>1, <2>3 DEF Impossible, Same, Left, Falls, Progress, InOrder,
       CaddyUndoing, Outcome
  <2>4. ASSUME Passes(b, c)
        PROVE  Progress(job', c)
    BY <1>1, <1>3, <1>4, <1>10, <2>1, <2>4 DEF Passes, Same, Left, Advances, Progress,
       Outcome, Verdict, CaddyUndoing
  <2> QED
    BY <2>1, <2>2, <2>3, <1>6, <2>4 DEF Steps
<1> QED
  BY <1>1, <1>7, <1>8, <1>9, <1>10

(***************************************************************************)
(* The steps keep it all.                                                  *)
(***************************************************************************)

PInv == IInv /\ Placed /\ Underway /\ Filed

\* A script on containers goes on as its rows say, and leaves the other services.
LEMMA ContainerStep ==
  ASSUME PInv, Command, job.script \in ContainerScripts
  PROVE  Placed' /\ Underway' /\ Filed'
<1>0. TypeOK /\ JobFits /\ SafeToRemove /\ OriginalSurvives /\ OriginalSurvives'
  BY SurvivesStep DEF PInv, IInv, Next, Command
<1>1. /\ job.running /\ job.script \in ScriptsOf(plan) /\ Now.fail \in Targets[job.script]
      /\ plan' = plan /\ plan \in Plans
  BY <1>0, CommandMoves DEF TypeOK
<1>2. job.service \in Services /\ Progress(job, Here) /\ box \in [Services -> Boxes]
  BY <1>0 DEF PInv, Underway, Here, TypeOK
<1>3. Holding(job, Here)
  BY <1>2 DEF PInv, Placed, Holding, InOrder, Here
<1> DEFINE c == box'[job.service]
<1>4. Steps(Here, c)
  BY <1>0, <1>2, ScriptSteps DEF Here
<1>5. job.script # "retrofitApply" /\ job.script # "retrofitUndo" /\ job.script # "retrofitBack"
        => Survives(job.service) /\ "old" \in {c.live, c.aside}
  <2> SUFFICES ASSUME job.script \notin {"retrofitApply", "retrofitUndo", "retrofitBack"}
               PROVE  Survives(job.service) /\ "old" \in {c.live, c.aside}
    OBVIOUS
  <2>1. plan # "retrofit"
    BY <1>1, PlansAssumption DEF ScriptsOf, ContainerScripts
  <2> QED
    BY <1>0, <1>1, <1>2, <2>1 DEF OriginalSurvives, Survives
<1>6. Working(job.script)
  BY <1>0, <1>1, <1>2, <1>3 DEF Working
<1>7. Holding(job', c)
  BY <1>4, <1>5, <1>6, R4aApplySteps, R4aUndoSteps, RetrofitApplySteps, RetrofitUndoSteps,
     RetrofitBackSteps, CaddyApplySteps, CaddyTrapSteps, CaddyUndoSteps DEF ContainerScripts
<1>8. /\ job'.script \in ContainerScripts /\ job'.service = job.service
      /\ job'.verdict \in {None, "staged", "restored", "failed", "blocked", "already"}
  <2>1. Stops => job'.script = job.script /\ job'.service = job.service
                   /\ job'.verdict = "already"
    BY <1>0 DEF Stops, TypeOK, Jobs
  <2>2. /\ job.verdict = None
        /\ Verdict[job.script] \in {"staged", "restored", "failed"}
    BY <1>1, <1>2 DEF Progress, Verdict, ContainerScripts
  <2>3. Now.fail # End => Now.fail[1] \in ContainerScripts
    BY <1>1 DEF Targets, ContainerScripts, End
  <2>4. ASSUME NEW clears, NEW brings, Advances(clears, brings)
        PROVE  /\ job'.script = job.script /\ job'.service = job.service
               /\ job'.verdict \in {job.verdict, Verdict[job.script]}
    BY <2>4 DEF Advances
  <2>5. ASSUME NEW byFault, Falls(byFault)
        PROVE  /\ job'.script \in {job.script, Now.fail[1]} /\ job'.service = job.service
               /\ Now.fail = End => job'.script = job.script
               /\ job'.verdict \in {job.verdict, "blocked"}
    BY <2>5 DEF Falls
  <2> QED
    BY <1>4, <2>1, <2>2, <2>3, <2>4, <2>5 DEF Steps, Passes
<1>9. \A s \in Services : s # job.service => box'[s] = box[s]
  BY <1>0, DockerBoxes, FileMoves, SkipMoves DEF Command
<1>10. Placed'
  BY <1>2, <1>7, <1>9 DEF PInv, Placed, Holding, InOrder
<1>11. Underway'
  BY <1>2, <1>7, <1>8 DEF Underway, Holding
<1>12. Filed'
  <2>1. job'.running => job'.verdict = None
    BY <1>7 DEF Holding, Progress
  <2>2. job'.script # "installToken"
    BY <1>8 DEF ContainerScripts
  <2>3. job'.verdict \notin {"repaired", "undone", "installed"}
    BY <1>8, NoneAssumption
  <2> QED
    BY <2>1, <2>2, <2>3 DEF Filed
<1> QED
  BY <1>10, <1>11, <1>12

\* What the commands on routes and the token have achieved when they do not fail.
LEMMA FileEnds ==
  ASSUME TypeOK, FileCommand
  PROVE  /\ timer' \in {timer, TRUE}
         /\ job' = Onward(job) \/ Fails
         /\ Now.cmd = "enable" => Fails \/ timer' = TRUE
         /\ Now.cmd = "isToken" => Fails \/ (token /\ token' = token)
         /\ Now.cmd = "restoreRoutes" => Fails \/ routes' = "old"
<1>1. (job' = Failing(TRUE) => Fails) /\ (job' = Failing(FALSE) => Fails)
  BY DEF Fails
<1> USE <1>1 DEF Doing, Fault, host, Check, Attempt
<1>2. CASE ReadRoutes
  BY <1>2 DEF ReadRoutes
<1>3. CASE ReadFiles
  BY <1>3 DEF ReadFiles
<1>4. CASE KeepCopy
  BY <1>4 DEF KeepCopy
<1>5. CASE WritePending
  BY <1>5 DEF WritePending
<1>6. CASE Unlink
  BY <1>6 DEF Unlink
<1>7. CASE InstallFiles
  BY <1>7 DEF InstallFiles
<1>8. CASE IsToken
  BY <1>8 DEF IsToken
<1>9. CASE Install
  BY <1>9 DEF Install, InstallRoutes, RouteChange
<1>10. CASE RestoreRoutes
  BY <1>10 DEF RestoreRoutes, InstallRoutes, RouteChange
<1>11. CASE Replace
  BY <1>11 DEF Replace
<1>12. CASE Enable
  BY <1>12 DEF Enable
<1>13. CASE Renew
  BY <1>13 DEF Renew, Refreshed
<1> QED
  BY <1>2, <1>3, <1>4, <1>5, <1>6, <1>7, <1>8, <1>9, <1>10, <1>11, <1>12, <1>13
     DEF FileCommand

\* The last command of the repair, of its undo and of the installer makes true
\* what they say.
LEMMA FileStep ==
  ASSUME PInv, Command, job.script \notin ContainerScripts
  PROVE  Placed' /\ Underway' /\ Filed'
<1>0. TypeOK /\ JobFits /\ Recorded /\ Filed /\ Recorded' /\ record \in Containers
  BY RecordedStep DEF PInv, IInv, Next, Command, TypeOK
<1>1. /\ job.running /\ job.script \in DOMAIN Scripts /\ Now.cmd \in Commands[job.script]
      /\ Now.fail \in Targets[job.script] /\ job.at \in 1..Lengths[job.script]
  BY <1>0, CommandMoves DEF JobFits
<1>2. job.script \in {"repair", "repairUndo", "installToken"}
  BY <1>1 DEF ContainerScripts, Scripts
<1>3. /\ job.verdict = None /\ (job.script = "installToken" /\ job.at >= 3 => timer)
      /\ timer \in BOOLEAN /\ token \in BOOLEAN
  BY <1>0, <1>1 DEF Filed, TypeOK
<1>4. /\ job.script = "repair" => Lengths[job.script] = 6 /\ Now = Repair[job.at]
      /\ job.script = "repairUndo" => Lengths[job.script] = 2 /\ Now = RepairUndo[job.at]
      /\ job.script = "installToken" => Lengths[job.script] = 4 /\ Now = InstallToken[job.at]
  BY DEF Lengths, Now, Scripts
<1>5. /\ Repair[6].cmd = "replace"
      /\ RepairUndo[2].cmd = "restoreRoutes"
      /\ InstallToken[2].cmd = "enable" /\ InstallToken[4].cmd = "isToken"
      /\ \A k \in 1..6 : Repair[k].when = {}
      /\ \A k \in 1..2 : RepairUndo[k].when = {}
      /\ \A k \in 1..4 : InstallToken[k].when = {}
  BY DEF Repair, RepairUndo, InstallToken, Row
<1>6. FileCommand
  <2>1. Now.cmd \in FileCommands
    BY <1>1, <1>2 DEF Commands, FileCommands
  <2>2. Now.when = {}
    BY <1>1, <1>2, <1>4, <1>5
  <2> QED
    BY <1>0, <2>1, <2>2, DockerMoves, SkipMoves DEF Command
<1>7. box' = box
  BY <1>0, <1>6, FileMoves
<1>8. job' = Onward(job) => Advances(job.clears, job.brings)
  <2>1. job.clears \in BOOLEAN /\ job.brings \in BOOLEAN /\ job = Learnt(job.clears, job.brings)
    BY <1>0 DEF TypeOK, Jobs, Learnt
  <2>2. job' = Onward(job) => job' = Onward(Learnt(job.clears, job.brings))
    BY <2>1
  <2> QED
    BY <1>0, <1>1, <2>1, <2>2, OnwardFields
<1>9. ASSUME Fails
      PROVE  /\ job'.script \notin ContainerScripts /\ job'.verdict \in {None, "blocked"}
             /\ job'.running => job'.verdict = None
             /\ job'.script = "installToken" =>
                  job.script = "installToken" /\ (~job'.running \/ job'.at = 1)
  <2>1. PICK byFault \in BOOLEAN : job' = Failing(byFault)
    BY <1>9 DEF Fails
  <2>2. Falls(byFault)
    BY <1>0, <1>1, <2>1, FailingFields
  <2>3. Now.fail \in {End, <<"repairUndo", 1>>} /\ (job.script # "repair" => Now.fail = End)
    BY <1>1, <1>2 DEF Targets
  <2>4. CASE Now.fail = End
    BY <1>2, <1>3, <2>2, <2>4 DEF Falls, ContainerScripts
  <2>5. CASE Now.fail = <<"repairUndo", 1>> /\ job.script = "repair"
    <3>1. Now.fail # End /\ Now.fail[1] = "repairUndo"
      BY <2>5 DEF End
    <3> QED
      BY <1>3, <2>2, <2>5, <3>1 DEF Falls, ContainerScripts
  <2> QED
    BY <2>3, <2>4, <2>5
<1>10. Placed'
  BY <1>7 DEF PInv, Placed
<1>11. CASE Fails
  <2>1. Underway'
    BY <1>9, <1>11, NoneAssumption DEF Underway
  <2>2. Filed'
    BY <1>9, <1>11, NoneAssumption DEF Filed
  <2> QED
    BY <1>10, <2>1, <2>2
<1>12. CASE ~Fails
  <2>1. /\ Advances(job.clears, job.brings)
        /\ timer' \in {timer, TRUE}
        /\ Now.cmd = "enable" => timer' = TRUE
        /\ Now.cmd = "isToken" => token /\ token' = token
        /\ Now.cmd = "restoreRoutes" => routes' = "old"
        /\ Now.cmd = "replace" => record' = "new"
        /\ record' = record \/ Now.cmd = "replace"
    BY <1>0, <1>6, <1>8, <1>12, FileEnds, FileMoves
  <2>2. Underway'
    BY <1>2, <1>3, <2>1, NoneAssumption DEF Advances, Underway, ContainerScripts, Verdict
  <2>3. CASE job.script = "repair"
    <3>1. job'.verdict = "repaired" => record' = "new" /\ routes' = "new"
      BY <1>0, <1>1, <1>3, <1>4, <1>5, <2>1, <2>3, NoneAssumption DEF Advances, Recorded
    <3>2. job'.verdict \in {None, "repaired"} /\ (job'.running => job'.verdict = None)
          /\ job'.script = "repair"
      BY <1>3, <2>1, <2>3 DEF Advances, Verdict
    <3> QED
      BY <1>10, <2>2, <3>1, <3>2, NoneAssumption DEF Filed
  <2>4. CASE job.script = "repairUndo"
    <3>1. record = "old"
      BY <1>0, <1>1, <2>4 DEF Recorded
    <3>2. Now.cmd # "replace"
      BY <1>1, <2>4 DEF Commands
    <3>3. job'.verdict = "undone" => record' = "old" /\ routes' = "old"
      BY <1>1, <1>3, <1>4, <1>5, <2>1, <2>4, <3>1, <3>2, NoneAssumption DEF Advances
    <3>4. job'.verdict \in {None, "undone"} /\ (job'.running => job'.verdict = None)
          /\ job'.script = "repairUndo"
      BY <1>3, <2>1, <2>4 DEF Advances, Verdict
    <3> QED
      BY <1>10, <2>2, <3>3, <3>4, NoneAssumption DEF Filed
  <2>5. CASE job.script = "installToken"
    <3>0. /\ Lengths[job.script] = 4 /\ Now = InstallToken[job.at] /\ job.at \in 1..4
          /\ job.at = 4 => Now.cmd = "isToken"
          /\ job.at = 2 => Now.cmd = "enable"
      BY <1>1, <1>4, <1>5, <2>5
    <3>a. job.at >= 3 => timer = TRUE
      BY <1>3, <2>5
    <3>b. job.at >= 2 => timer' = TRUE
      <4>1. CASE job.at = 2
        BY <2>1, <3>0, <4>1
      <4>2. CASE job.at >= 3
        <5>1. timer = TRUE
          BY <3>a, <4>2
        <5>2. timer' \in {timer, TRUE}
          BY <2>1
        <5> QED
          BY ONLY <5>1, <5>2
      <4>3. job.at >= 2 => job.at = 2 \/ job.at >= 3
        <5>1. job.at \in 1..4
          BY <3>0
        <5> QED
          BY ONLY <5>1
      <4> QED
        BY <4>1, <4>2, <4>3
    <3>c. job.at < 4 => job'.running /\ job'.at = job.at + 1 /\ job'.verdict = None
      BY <1>3, <2>1, <3>0 DEF Advances
    <3>d. job.at = 4 => ~job'.running
      BY <2>1, <3>0 DEF Advances
    <3>e. job.at = 4 => timer' = TRUE /\ token' = TRUE
      <4>1. token = TRUE => (token' = token => token' = TRUE)
        OBVIOUS
      <4> QED
        BY <1>3, <2>1, <3>0, <3>b, <4>1
    <3>f. job.at < 4 \/ job.at = 4
      BY <3>0
    <3>1. job'.verdict = "installed" => timer' /\ token'
      <4>1. job'.verdict = "installed" => job.at = 4
        BY <3>c, <3>f, NoneAssumption
      <4> QED
        BY <3>e, <4>1
    <3>2. job'.running /\ job'.at >= 3 => timer'
      <4>1. job'.running /\ job'.at >= 3 => job.at >= 2
        BY <3>0, <3>c, <3>d, <3>f
      <4> QED
        BY <3>b, <4>1
    <3>3. job'.verdict \in {None, "installed"} /\ (job'.running => job'.verdict = None)
      BY <1>3, <2>1, <2>5 DEF Advances, Verdict
    <3> QED
      BY <1>10, <2>2, <3>1, <3>2, <3>3, NoneAssumption DEF Filed
  <2> QED
    BY <1>2, <2>3, <2>4, <2>5
<1> QED
  BY <1>11, <1>12

\* What befalls the host ends a script without a word, or leaves its service as it
\* is but for the candidate of Caddy.
LEMMA EventStep ==
  ASSUME PInv, Event
  PROVE  Placed' /\ Underway' /\ Filed'
<1>0. TypeOK /\ JobFits /\ Placed /\ Underway /\ Filed /\ job \in Jobs
      /\ box \in [Services -> Boxes]
  BY DEF PInv, IInv, TypeOK
<1>1. Placed'
  BY <1>0, EventMoves DEF Placed
<1>2. Died.script = job.script /\ Died.service = job.service /\ ~Died.running
        /\ Died.verdict = None
  BY <1>0 DEF Died, Jobs
<1>3. ASSUME job' = Died
      PROVE  Underway' /\ Filed'
  <2>1. Underway'
    BY <1>0, <1>2, <1>3, NoneAssumption DEF Underway, Progress, Outcome
  <2>2. Filed'
    BY <1>2, <1>3, NoneAssumption DEF Filed
  <2> QED
    BY <2>1, <2>2
<1>4. CASE ScriptDies \/ Reboot
  BY <1>1, <1>3, <1>4 DEF ScriptDies, Reboot
<1>5. CASE TimedRenewal
  <2>1. job' = job /\ box' = box /\ timer' = timer /\ timer /\ token' = TRUE
        /\ routes' = routes /\ record' = record
    BY <1>5 DEF TimedRenewal, Refreshed
  <2>2. Underway'
    BY <1>0, <2>1 DEF Underway
  <2>3. Filed'
    BY <1>0, <2>1 DEF Filed
  <2> QED
    BY <1>1, <2>2, <2>3
<1>6. CASE Interrupted
  <2>1. /\ box' = [box EXCEPT !["caddy"].next = None, !["caddy"].auto = @ \ {Here.next}]
        /\ job' = job /\ timer' = timer /\ token' = token
        /\ routes' = routes /\ record' = record
        /\ job.running /\ job.script = "caddyApply"
    BY <1>6 DEF Interrupted
  <2>2. \A s \in Services : /\ box'[s].live = box[s].live /\ box'[s].aside = box[s].aside
                            /\ box'[s].up = box[s].up
    BY <1>0, <2>1 DEF Boxes
  <2>3. job.service \in Services /\ Progress(job, box[job.service])
    BY <1>0, <2>1 DEF Underway, ContainerScripts
  <2>4. Progress(job, box'[job.service])
    BY <2>1, <2>2, <2>3 DEF Progress, Stage, CaddyApplying
  <2>5. Underway'
    BY <1>0, <2>1, <2>3, <2>4 DEF Underway
  <2>6. Filed'
    BY <1>0, <2>1 DEF Filed
  <2> QED
    BY <1>1, <2>5, <2>6
<1> QED
  BY <1>4, <1>5, <1>6 DEF Event

\* A script begins where its first row expects the service to be.
LEMMA OperatorStep ==
  ASSUME PInv, Operator
  PROVE  Placed' /\ Underway' /\ Filed'
<1>0. TypeOK /\ Placed /\ Underway /\ Filed
  BY DEF PInv, IInv
<1>1. ~job.running /\ box' = box /\ routes' = routes /\ record' = record
      /\ timer' = timer /\ token' = token
  BY <1>0, OperatorMoves
<1>2. Placed'
  BY <1>0, <1>1 DEF Placed
<1>3. ASSUME NEW n, NEW s \in Services \cup {None}, Begins(n, s),
             n \in ContainerScripts => s \in Services,
             n \in {"r4aApply", "retrofitApply"} => box[s].live = "old",
             n = "caddyApply" => box[s].live # "new",
             n \notin {"retrofitUndo", "caddyUndo"}
      PROVE  Underway' /\ Filed'
  <2>0. PICK kept \in BOOLEAN : kept = Kept(s)
    BY DEF Kept
  <2>1. job' = [Idle EXCEPT !.script = n, !.service = s, !.running = TRUE, !.kept = kept]
    BY <1>3, <2>0 DEF Begins
  <2>2. /\ job'.script = n /\ job'.service = s /\ job'.at = 1 /\ job'.running
        /\ job'.verdict = None /\ job'.kept = kept
    BY <2>1 DEF Idle
  <2>3. s \in Services => s # None
    BY NoneAssumption
  <2>4. n \in ContainerScripts => Stage(job', box[s])
    <3>1. CASE n = "r4aApply"
      BY <1>3, <2>2, <3>1 DEF Stage, R4aApplying
    <3>2. CASE n = "r4aUndo"
      BY <2>2, <3>2 DEF Stage, R4aUndoing
    <3>3. CASE n = "retrofitApply"
      BY <1>3, <2>2, <3>3 DEF Stage, RetrofitApplying
    <3>4. CASE n = "retrofitBack"
      BY <2>2, <3>4 DEF Stage, RetrofitBacking
    <3>5. CASE n = "caddyApply"
      <4>1. s # None /\ (kept <=> box[s].aside # None)
        BY <1>3, <2>0, <2>3, <3>5 DEF ContainerScripts, Kept
      <4>2. CaddyApplying(job', box[s])
        BY <1>3, <2>2, <3>5, <4>1 DEF CaddyApplying
      <4> QED
        BY <2>2, <3>5, <4>2 DEF Stage
    <3>6. CASE n = "caddyTrap"
      BY <2>2, <3>6 DEF Stage
    <3> QED
      BY <1>3, <3>1, <3>2, <3>3, <3>4, <3>5, <3>6 DEF ContainerScripts
  <2>5. Underway'
    BY <1>1, <1>3, <2>2, <2>4, NoneAssumption DEF Underway, Progress
  <2>6. Filed'
    BY <2>2, NoneAssumption DEF Filed
  <2> QED
    BY <2>5, <2>6
<1>4. ASSUME NEW what, Prepare(what)
      PROVE  Underway' /\ Filed'
  <2>1. job' = job
    BY <1>4 DEF Prepare
  <2>2. Underway'
    BY <1>0, <1>1, <2>1 DEF Underway
  <2>3. Filed'
    BY <1>0, <1>1, <2>1 DEF Filed
  <2> QED
    BY <2>2, <2>3
<1>5. CASE Snapshot \/ Complete \/ PrepareRetrofit
  BY <1>2, <1>4, <1>5 DEF Snapshot, Complete, PrepareRetrofit
<1>6. CASE \E s \in Services : BeginR4a(s) \/ RollBackR4a(s)
  BY <1>2, <1>3, <1>6 DEF BeginR4a, RollBackR4a, OriginalRuns, InService
<1>7. CASE BeginRetrofit \/ RollBackRetrofit
  BY <1>2, <1>3, <1>7 DEF BeginRetrofit, RollBackRetrofit, RetrofitFits, InService, Services
<1>8. CASE BeginCaddy
  BY <1>2, <1>3, <1>8 DEF BeginCaddy, Services
<1>9. CASE BeginRepair \/ BeginToken
  BY <1>2, <1>3, <1>9 DEF BeginRepair, BeginToken, ContainerScripts
<1> QED
  BY <1>5, <1>6, <1>7, <1>8, <1>9 DEF Operator

\* Nothing has been said of a host that is as it was.
LEMMA InitPInv == Init => PInv
<1> SUFFICES ASSUME Init PROVE PInv
  OBVIOUS
<1>1. job.script = "end" /\ ~job.running /\ job.verdict = None
  BY DEF Init, Idle
<1>2. Placed
  BY DEF Init, Placed
<1>3. Underway
  BY <1>1, NoneAssumption DEF Underway, ContainerScripts
<1>4. Filed
  BY <1>1, NoneAssumption DEF Filed
<1> QED
  BY <1>2, <1>3, <1>4, InitIInv DEF PInv

\* Every step keeps every script true to its rows.
LEMMA NextPInv == PInv /\ [Next]_vars => PInv'
<1> SUFFICES ASSUME PInv, [Next]_vars PROVE PInv'
  OBVIOUS
<1>1. IInv'
  BY NextIInv DEF PInv
<1>2. CASE Command
  BY <1>1, <1>2, ContainerStep, FileStep DEF PInv
<1>3. CASE Operator
  BY <1>1, <1>3, OperatorStep DEF PInv
<1>4. CASE Event
  BY <1>1, <1>4, EventStep DEF PInv
<1>5. CASE UNCHANGED vars
  <2>1. Placed' /\ Underway' /\ Filed'
    BY <1>5 DEF PInv, Placed, Underway, Filed, vars
  <2> QED
    BY <1>1, <2>1 DEF PInv
<1> QED
  BY <1>2, <1>3, <1>4, <1>5 DEF Next, Command, Event

\* In every state of every run each script is as far as its row says.
THEOREM ScriptsKeepTheirRows == Spec => []PInv
BY InitPInv, NextPInv, PTL DEF Spec

\* What a script has said at its end is so, whatever failed on the way and until the
\* host restarts or another script begins.
THEOREM WordsAreTrue == Spec => []SaidIsTrue
<1>1. PInv => SaidIsTrue
  <2> SUFFICES ASSUME PInv PROVE SaidIsTrue
    OBVIOUS
  <2>1. job.verdict \in {"staged", "restored"} =>
          /\ job.script \in ContainerScripts /\ job.service \in Services
          /\ Outcome(job, box[job.service])
    BY NoneAssumption DEF PInv, Underway, Progress
  <2>2. CASE job.verdict = "staged"
    BY <2>1, <2>2 DEF SaidIsTrue, Outcome, InService
  <2>3. CASE job.verdict = "restored"
    BY <2>1, <2>3 DEF SaidIsTrue, Outcome, InService, Restored
  <2>4. CASE job.verdict \notin {"staged", "restored"}
    BY <2>4 DEF PInv, Filed, SaidIsTrue
  <2> QED
    BY <2>2, <2>3, <2>4
<1> QED
  BY <1>1, ScriptsKeepTheirRows, PTL

\* An undo during which nothing else fails puts the original back into service: of
\* the release wherever it was left, of the retrofit and of Caddy where the same run
\* had set the original aside.
THEOREM CleanUndosRestore == Spec => []CleanUndoRestores
<1>1. PInv => CleanUndoRestores
  <2> SUFFICES ASSUME PInv, ~job.running, job.verdict # None, job.clean,
                      \/ job.script = "r4aUndo"
                      \/ job.script \in {"retrofitUndo", "caddyUndo"} /\ job.kept
               PROVE  InService(job.service, "old")
    BY DEF CleanUndoRestores
  <2>1. Outcome(job, box[job.service])
    BY DEF PInv, Underway, Progress, ContainerScripts
  <2> QED
    BY <2>1 DEF Outcome, InService
<1> QED
  BY <1>1, ScriptsKeepTheirRows, PTL
=============================================================================
