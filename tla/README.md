# Verification of the urban API gateway

TLA+ specifications of the parts of this repository that keep state or change a
running gateway: what they do was read from the code under `src/`, TLC checks
small instances, and the TLA+ proof system proves the properties that matter
most for every value of the constants. Paths below are relative to `src/`.

## 1. The system

The gateway is Apache APISIX. This repository does not proxy anything itself: it
compiles and publishes APISIX configuration, installs routes, keeps an
operational record (incidents, pressure, alerts) in SQLite, and has small
request-time pieces (MCP dispatch, Lua delegation).

| Component | State | Operations | Hard behaviour | What makes it correct |
|---|---|---|---|---|
| **Publication** `tools/publication.py`, `apisix_control_plane.py`, `apisix_admin_http.py` | files `artifacts/`, `manifests/`, `active.json`, the flock `.publication.lock`; in APISIX: staged revisions and the active pointer; one incident | `publish`: validate, stage, verify, activate, roll back, record, report | several processes; lost answers; acknowledgements without effect; timed-out writes applied late; death between two files | the pointer names a staged revision; `active.json` moves only to what is live; files refer only to files that are there; failures keep the last good revision |
| **Activation gate** `tools/activation_gate.py` | none | a predicate on evidence | – | fail closed |
| **Compiler** `tools/compile_config.py`, `delegation_functions.py` | none | registry files to routes | references that do not resolve | deterministic, fail closed |
| **Alert delivery** `tools/operational_alert_outbox.py` (from `send_once`) | rows of `gateway_alert_delivery`, `gateway_alert_budget_session` | `send_once`, `_finish`, `reconcile_ambiguous_delivery`, `renew_exhausted_budget` | callbacks and transport outside transactions, leases, late results, crashes | nothing accepted is sent again; budgets and the in-flight limit hold; nothing is queued for ever |
| **Owner transitions to alerts** `operational_alert_outbox.py` (`configure`, `reconcile_owner_transitions`) | receipts, deliveries | reconcile a batch of transitions | batches, capacity, roll-back of the whole batch | a caught-up destination has been told the current state; recoveries and episodes are the owner's |
| **Incidents** `operational_incidents.py` | `gateway_operational_incident` and, by the triggers of `operational_cursor.py`, its history | `open_incident`, `recovering`, `resolve_incident`, queries | any order of calls | the history has every transition |
| **Pressure** `operational_pressure.py` | one row per scope | `register_scope`, `observe`, `decision` | gaps, late samples, five modes with their own timers | capacity returns only when earned, and returns |
| **Pages** `operational_cursor.py`, **bookmarks** `operational_bookmarks.py` | frozen sessions with their cursors and marked pages; bookmarks | start, resume, page, mark, issue, clean up | several transactions per request, a history that grows, decisions that change, expiry, quotas | a bookmark stands only for what was shown; one per boundary; a chain keeps its reader |
| **Operational API** `gateway_operational_api.py` | none of its own | HTTP to the stores, a summary | limits and redaction hide rows | no status is better than what is hidden allows |
| **MCP** `mcp_dispatch.py`, `mcp_recovery.py`, `mcp_evidence_ingress.py` | none of its own | admit and dispatch an envelope, ask for an outcome | an outcome nobody knows | one call, no retry |
| **Delegation** `tools/lua/*.lua` | none between requests | sign and check a delegation | clock, encoding | closed set of claims |
| **Boundaries** `identity_boundary.py`, `authorization_boundary.py`, `southbound_security.py`, `pairwise_server.py` | none | predicates on a request | – | fail closed |
| **Route deployment** `ops/apisix/deploy_*` (13 scripts) | routes of APISIX, `previous.json` of a run | snapshot, write, read back, retire, probe, undo, `--restore` | failures of every request, overlap, death | an installation that is claimed is served; a failure leaves the routes as found |
| **Runtime rollouts** `ops/apisix/*_r4a_runtime.py`, `ops/udp/`, `ops/caddy/deploy.sh`, `ops/policy_token/`, `scripts/r4a_managed_file_owner_key_repair.py`, `tools/apply_installation_projection.py` | containers, their names and restart policies, rollout files, routes and the file that records them, a token in `/run` | prepare, replace, check, roll back | any command may fail before or after it took effect, also those of the undo; death and restart of the host in between; rollback asked for at any time | the original survives; what was said is so |
| **Etcd gate** `etcd_resilience.py` | none | a predicate on recorded drills | – | fail closed |
| **Materialization** `tools/materialize_*.py`, data in `ouf-config`, `config`, `schemas`, `helm` | none | fill a template | – | – |

How they interact: the compiler's output is what `publish()` stages; `publish()`
opens and resolves an incident; incidents, through the triggers' history, are
what the reconciler turns into deliveries; `send_once` delivers them. The same
history is what readers page through and what their bookmarks stand for, and the
summary is made of the incidents as they are. The operational stores share one SQLite file, so each "begin immediate" transaction
is atomic to all others. The deployment scripts write the same Admin API as the
publication but other routes; the key repair runs one of them. The new UDP
container mounts the directory of the policy token, so it cannot be created or
started without it.

## 2. Modules

| Module | Models |
|---|---|
| `PublicationLedger` | abstract: a publication is decided once; the active one moves only to the one decided ACTIVE last |
| `Publication` | `publish()` by several processes over one store and one Admin API |
| `PublicationProofs`, `PublicationSafety` | theorems about `Publication` |
| `AlertPromise` | abstract: what the outbox promises of every alert, in terms of its stage and of what the provider has accepted |
| `AlertDispatch` | deliveries to one destination, by several processes |
| `OwnerAlerts` | incidents, their history, the reconciler |
| `OperationalSummary` | the summaries of the store and of the operational API, over the incidents and alerts of `OwnerAlerts` |
| `Bookmarks` | frozen pages over the history, and bookmarks for what was read in full |
| `Pressure` | one scope of the pressure controller |
| `RouteDeploy` | the thirteen deployment scripts as one protocol |
| `Rollout` | the scripts that replace a running service and put it back |
| `AlertDispatchProofs`, `OwnerAlertsProofs`, `BookmarksProofs`, `PressureProofs`, `RouteDeployProofs`, `RolloutProofs` | theorems about the module of that name |
| `MC*` | instances for TLC |

### Publication

A step is one remote call, one atomic file replacement or one boundary of the
critical section; between any two the process may die (`Crash`).

| Model | Code |
|---|---|
| `plane.staged`, `plane.active` | revisions and pointer behind the Admin API |
| `late` | requests that timed out at the client and still reach the server |
| `artifacts`, `manifests`, `active` | the files of `FilePublicationStore`; `_atomic_write` makes each replacement one step |
| `lock`, `Acquire`, `Leave` | `exclusive()`; `Leave` is also its `finally` |
| `Admit`, `Reject` | identifier and governance checks before the first request |
| `StagePut`, `StageReadBack`, `Verify`, `ActivatePut`, `Converge`, `Confirm` | `stage`, `verify`, `activate_revision` with its poll, `activate` |
| `RollbackCheck`, `RollbackDelete` | `rollback`; its exceptions leave `publish()` without a manifest |
| `RecordArtifact`, `RecordManifest`, `RecordActive` | the three writes of `record` in their order |
| `Report`, `ReportFails` | the incident, after the record |

`Write` is the Admin API as a caller meets it: applied and answered, answered
and not applied, or an exception that says nothing of the effect. `Faults` names
which of these a run allows. `job` holds the arguments of the call and its
manifest in the making. `verdict` and `interrupted` are history variables.

Digests are abstracted to the identity of the content, the governance and
compile checks to a choice. An incident sink is assumed to be given. The bundled
`APISIXAdminHTTP.probe_revision` answers FALSE for two of the five required
checks, so with it alone nothing becomes ACTIVE; the model leaves the probes to
the environment, as the interface does.

### AlertDispatch

Every transaction is one step; the authorize callback and the transport are
called between transactions, and `proc` is what a process carries over them
(clock reading, claim version, answer). Time is in ticks of 2.5 seconds: the
attempt contract of five seconds is two, the lease of ten seconds four. `rows`
joins a delivery with its active budget session. `accepted` is what the provider
really did. `Preview`, `Denied`, `Claim`, `Answer`, `Finish` are `send_once`;
`Reconcile`, `Query`, `Resolve` are `reconcile_ambiguous_delivery`;
`AskRenewal`, `Renew` are `renew_exhausted_budget`. A path of `send_once` that
finds the deadline too near (line 175) leaves the session ACTIVE until the next
call; `SessionTellsState` says so.

`PromiseKept` says that all this implements `AlertPromise`, whose state is one
stage per alert (`StageOf`) and the alerts the provider has accepted. There are no
processes, versions, leases, budgets or clock in it: an alert is offered only while
it is known not to have been accepted, accepted only while it is offered, paused
or taken back only if it was not accepted, confirmed only if it was, and what is
lost sight of stays so until the provider is asked. `Record` moves several alerts at
once, as the sweep of one transaction does.

Left out: jitter of the back-off, the global cap of sixteen calls (there is one
destination here), receipts' contents. The wait for the SQLite lock counts in
`AuthorizeLimit`.

### OwnerAlerts

`incident` and `history` are the store and the table its triggers fill; the
index in `history` is the revision. `Reconcile` is one call of
`reconcile_owner_transitions` with every `_enqueue_current` in it; a batch that
does not fit changes nothing, as the transaction is rolled back. `Settle` stands
for the whole of `AlertDispatch`: a delivery ends being active only when it is
ACCEPTED. A delivery that is PAUSED therefore takes a place for ever, in the
model as in the code.

`Init` is not empty: the cursor store gives every incident it finds one
transition when it is first opened (`Baseline`), and these are told like any
other. A report carries a text of any length, and an alert that would be longer
than 4096 bytes is refused (`TooLong`); the text is abstracted to its size.

Three consequences of the code are visible in the model and are not claimed
otherwise: the recovery of an episode is never told when the incident is
reopened before the reconciler runs; a batch whose deliveries do not fit is
offered again as a whole, so only callers that also use small limits get past
it; and one alert that is too long takes every batch it is in back with it, so
whatever sorts behind it waits until the owner writes a shorter text (`Blocked`,
which `ProblemsAreTold` excepts).

### OperationalSummary

Two summaries are made of the incidents of `OwnerAlerts`. `Listings` is what a
query can return: as many rows as its limit, none left out that comes before one
in it. `Status` is the interface's: it asks for one row more than the limit to
tell a full answer from a cut one, drops the rows the caller may not see and makes
a status of the rest. `CountedStatus` and `Cut` are the store's, which counts in
the table beside the rows it lists. `SummaryIsHonest` quantifies over limits,
times and redactions: the first says nothing the second does not, except UNKNOWN;
both find the same answers cut; and HEALTHY agrees with the alerts sent. This is
where the three readers of the incidents meet.

### Bookmarks

A request is several transactions with row authorization in between; each is a
step, and `work` is what a request carries from one to the next. Requests of
any caller interleave and may be abandoned anywhere.

| Model | Code |
|---|---|
| `history`, `floor` | the history table and `gateway_publication_history_floor` |
| `sessions` | a frozen session: its frame, its items in order, the cursors given out, the pages marked complete |
| `bookmarks` | rows of `gateway_publication_bookmark` |
| `Start`, `Resume` | `start()`, `resume()` up to the capture: a resumed reading takes filter and lower bound from its bookmark |
| `Capture` | `_capture`: clean up one expired row, check the quotas, freeze the rows; a refusal takes the clean-up back |
| `Scope` | `_scope`, which writes filter and parent in a transaction of its own |
| `FirstPage`, `LaterPage`, `ReadPage` | a page by its cursor, under the decision of the moment |
| `Mark` | the page recorded as complete, or as no longer complete |
| `Issue` | `_issue`: completeness, an equivalent bookmark, quotas, insertion |
| `Transition`, `RaiseFloor`, `SessionsExpire`, `BookmarksExpire` | the owner and the clock |

`served` is a history variable: the revisions shown, unredacted, to a reader.
Tokens are the numbers of the rows they name. Rows of a kind live equally long, so
they expire in the order of their numbers and a counter is enough (`lapsed`,
`elapsed`).

Left out: the `since` filter, the flag for a gap in the history, the quotas per
tenant (they bound the same sessions once more), and the frame digests, which
detect a change of rows that nothing in the program changes.

### Pressure

`observe()` runs under a compare-and-set of the row's version, so concurrent
callers leave one sequence of accepted samples; a refused one changes nothing.
Time is in ticks of fifteen seconds. The instants the code stores are kept as
ages, up to the greatest age the code compares with. `Probing`, `RecoveringOn`,
`Waiting` and `WhileHigh` are the branches of `observe`. Samples dated up to five
seconds in the future, which the code accepts, are below the grid and left out.

### RouteDeploy

The scripts of `ops/apisix/deploy_*` are one protocol in thirteen hands. A record
of traits tells them apart: whether superseded routes are retired, what is done
about a route that is there with another content, whether contents or statuses
are read back, which failures lead to the undo, whether the undo takes
everything or what was attempted, whether the snapshot outlives the run.
`InternalM2M` is the common make; the shell scripts differ most, because `set -e`
ends them where a command substitution fails and a trap deletes the snapshot.

| Model | Code |
|---|---|
| `Begin`, `SnapshotRoute`, `SnapshotFails`, `Save` | `snapshot()`: routes are read, then `previous.json` written |
| `Put`, `Leave`, `ReadBack`, `Written` | the loop over the routes of `apply()` |
| `Retire` | deletion of `LEGACY_IDS` |
| `Probe` | the anonymous probes, one round as one step |
| `Fail`, `StartUndo`, `UndoRoute`, `Undone` | `except BaseException: restore(...)` and `restore()` |
| `BeginRestore`, `CheckRestored` | `--restore` |
| `Write`, `WriteAltered`, `ApplyLate` | the Admin API: rejected, lost, applied without an answer, applied late, applied otherwise |

Routes are numbered as their identifiers sort, because `restore()` takes them in
that order. Every script is given the same small set of routes; those that
manage a single route in the code are thereby modelled with more than they have.
What `restore()` writes came out of APISIX, so `altered` is not applied to it.

### Rollout

A script is a table of rows (`Row(cmd, when, fail)`): the command, the conditions
under which it is run, and where a failure leads — to a row of the same script, to
the script that undoes the work, or to the end. `Attempt` runs a row: the
command succeeds, or is impossible in the present state of the host, or fails by
a fault of the host before or after it took effect. `Skip` passes a row whose
conditions do not hold.

| Model | Code |
|---|---|
| `box[s]` | what Docker holds of a service: which container bears its name (`live`), the rollback name (`aside`), the candidate's name (`next`); which run (`up`) and which come up again after a restart of the host (`auto`) |
| `Snapshot`, `Complete`, `PrepareRetrofit` | the preparation scripts, which write files beside |
| `BeginR4a`, `RollBackR4a`, `R4aApply`, `R4aUndo` | `rollout_r4a_runtime.py`, UDP before APISIX |
| `BeginRetrofit`, `RollBackRetrofit`, `RetrofitApply`, `RetrofitUndo`, `RetrofitBack` | `rollout_authorization_retrofit.py` |
| `BeginCaddy`, `CaddyApply`, `CaddyTrap`, `CaddyUndo`, `Interrupted` | `deploy.sh`, its traps and its `rollback` function |
| `BeginRepair`, `Repair`, `RepairUndo`, `Replace` | `r4a_managed_file_owner_key_repair.py` and the installer it calls |
| `BeginToken`, `InstallToken`, `TimedRenewal` | the installer of the policy token and its timer |
| `ScriptDies`, `Reboot` | death of a script; restart of the host, with an empty `/run` |

The contents of environments, launch options and candidates are abstracted to
"the candidate fits". `clean` records that no fault struck since the undo
began, `kept` that the same run had set the original aside: both only say when
`CleanUndoRestores` promises something. One operator acts at a time; with two,
or with a rollback of the retrofit after one of the release, the names
tell the scripts too little.

## 3. Runs

Two publishers, two publications and two artifacts are enough for a publication
to find another's revision staged, live or being replaced, and for two
publications to share a content. `late` requests need no bound: they are a set.

| Run | Shows |
|---|---|
| `publication_readable` | Every fault except failing reads and late writes: the pointer names a staged revision (`LiveRevisionStaged`), between calls the record and the gateway agree (`QuiescentAgreement`), `active.json` moves only to what is live (`AdvanceIsLive`), the record refines the ledger (`LedgerSpec`), the lock is given back (`LockIsReleased`) |
| `publication_faults` | Every fault: the entry check still holds at the write (`RecordNeverRefused`), files refer to files that are there (`StoreReferencesResolve`), the incident tells the last outcome (`IncidentTellsLastOutcome`) |
| `publication_loses_good` | Violated: `failures preserve the last-known-good revision`. An activation that was applied and whose answer was lost is neither recorded nor undone nor reported |
| `dispatch_retry` | Two deliveries, two processes, a crash, in-flight limit one, two budget sessions: the outbox implements `AlertPromise` (`PromiseKept`), nothing accepted is sent again, late results change nothing, budgets hold |
| `dispatch_rests` | One delivery, a slow authorization: it does not stay queued or in flight for ever |
| `owner_alerts` | Two incidents, one perhaps older than the history, four transitions, alerts that fit and that do not, room for two active deliveries, batches of one and two: what is reconciled is current, recoveries and episodes are the owner's, problems are told, the summaries are honest for every limit, time and redaction |
| `bookmarks_coverage` | Two readers, two requests in progress, a history that grows while it is read: a bookmark stands only for what was shown (`CoverageComplete`), a boundary has one live bookmark, a chain keeps reader, policy and filter, live bookmarks stay |
| `bookmarks_capacity` | Violated: expired sessions make room for the one who asks. The clean-up takes the session that expired first, whoever's it is, and the refusal takes the clean-up back |
| `pressure_recovery` | A sample on either side of every boundary, at any age and gap: slots follow the mode and come back only as earned, sustained failure pauses, pause and caution end only after quiet, quiet recovery completes |
| `deploy_install` | Every script, two routes and one they supersede, any routes found, three faults of any kind, then a `--restore` |
| `rollouts` | The four changes of a host, with six faults and three crashes: originals survive, what was said is so, a clean undo restores, services and records keep their order |
| `rollout_retrofit` | Violated: the retrofit "has rollback". Its undo clears the name of the service without looking whose it is |

Bounds.

- `AlertDispatch`: `MaxTime`, `Lifetime`, `MaxAttempts`, `MaxQueries`,
  `MaxSessions` and `MaxCrashes` are small numbers in place of 24 hours, 128 and
  8: what matters is that each limit is reached, and that a lease, a call and a
  retry fall on both sides of the deadline. `dispatch_retry` has
  `AuthorizeLimit = 0`, the case in which the clock reading is current when it is
  used; `dispatch_rests` has a slow authorization (six ticks).
- `OwnerAlerts`: four transitions allow a problem, its resolution, a reopening
  and one more of the other incident; `MaxActive` is reached, `MaxReceipts` is
  not. Texts have two sizes, the longest that fits and one byte more
  (`MaxPayload`). `MaxFound = 1`: the history begins with at most one incident
  that is older than it.
- `Bookmarks`: two revisions, two captures and two bookmarks allow a reading
  that is resumed over a transition that came in between, and two requests that
  finish the same boundary; pages of one item make readings of two pages.
  Sessions per reader and in all, items in all and bookmarks per reader are each
  reached. `bookmarks_capacity` needs no history: one session per reader and
  three captures.
- `RouteDeploy`: `Installs = 1`, so the second process only restores; a second
  installation is covered by letting the first find anything. `MaxFaults = 3`
  allows a failing request, a failing undo and a failing `--restore`.
- `Rollout`: `MaxFaults = 6` and `MaxCrashes = 3` allow an installation, its undo
  and two rollbacks of both services to fail, each somewhere else.

Deadlock is not checked where the bounds or the plan end a behaviour
(`AlertDispatch`, `OwnerAlerts`, `Rollout`, whose scripts come to their end);
everywhere else it is.

Symmetry is used where identifiers are interchangeable and no liveness property
is checked in the run.

Fairness. `Publication`: a process inside `publish()` keeps moving, because every
request has a socket timeout, the poll a deadline and file operations end.
`AlertDispatch`: the clock advances, calls end, and the host keeps calling
`send_once` and does not deny it for ever (strong fairness, since other work of
the process disables it time and again); nothing in the repository does this
itself, so it is what the host must provide. `OwnerAlerts`: the host keeps
calling the reconciler. `Pressure`: the clock advances; what the samples are is
part of the property. `Bookmarks`: every request ends, and one caller asks time
and again and reaches the capture (strong fairness, since other requests occupy
the server); nobody else is obliged to ask. It is that caller the counterexample
of `bookmarks_capacity` refuses for ever, so the refusal is not for want of
asking.

## 4. Proofs

**Publication.** `ControlInv` (`PublicationProofs`) joins the types with two
facts: a process is in the section the lock protects exactly when it holds the
lock (`MutualExclusion`), and a process past its entry has a job whose status
fits its place (`JobOK`). Types alone are not inductive, since a step reads the
fields of a job that might not be there. From it:

- `TypeCorrect`, `ControlHolds`;
- `StoreConsistent`: `StoreInv` adds that the publication a holder has admitted
  has no manifest until it writes it, and that its `previous` resolves;
- `NeverRefused`: the re-check of `record()` cannot fail;
- `LiveNeverDeleted`: with `LiveInv`, under the assumption `Readable` (no failing
  reads, no late writes), the pointer names a staged revision: a revision about
  to be deleted is not the active one, because only the holder of the lock
  writes;
- `RefinesLedger`: every step is a step of `PublicationLedger` or stutters; a
  crash between manifest and `active.json` is its `Lapse`;
- `IncidentIsTrue`: with `IncidentInv`, a process past its manifest owes the
  incident its outcome, and nobody else changes either;
- `RecordAgrees` and `AdvancesAreLive`: with `AgreeInv`, also under `Readable`. Only
  a process between its write of the pointer and its outcome (`Moving`) may have
  parted gateway and record without an interruption; `rollback()`'s read tells
  whether it has.

**Pressure.** `PressureInv` joins the types, `ModeIsConsistent`,
`SustainedFailurePauses` and `StageIsQuiet`: in recovery the stage is no older
than the quiet time before it. `ModesHold`, `FailurePauses`, `QuietIsWaited` and
`SlotsAreEarned` follow, for any set of samples.

**Alert delivery.** A row carries a version that every change of its state raises,
so what a process carries over a call is worth something exactly while the
version is still the one it saw. `DispatchInv` needs no more than that:
`AcceptedWasAccepted`, `SessionsTell` and `SettledStays` hold however long
authorization takes. `CallInv` says what a current version is worth: a call owns
its row until it has ended, before the lease and the deadline, and a negative
answer that still counts is so. It holds where the clock reading is current
(`Prompt`, that is `AuthorizeLimit = 0`), and with it `NothingAcceptedIsSentAgain`,
`CallsEndBeforeTheDeadline` and `CallsAreLimited`; with `AuthorizeLimit = 2` TLC finds
all three violated (section 5).

`KeepsThePromise` is the refinement of `AlertPromise`, under `Prompt` as well:
every step is a step of it or leaves stages and acceptances alone. Most
transactions move one row (`OneRowMoves`), and its legality is the row's change of
state together with `CallInv`; the sweep moves several, each by itself
(`SweptMoves`), before the claim moves one more; an acceptance meets a row in
flight because a call owns its row (`Reached`).

**Owner transitions.** Episodes are counted by cardinalities of revisions.
`HistoryTells` ties the store to its history, `Balanced` says that an incident has
one closure more than reopenings exactly while it is resolved. With them
`CaughtUpIsTold`, `RecoveriesFollowProblems` and `EpisodesAreCounted` are
inductive, from any baseline and for texts of any size.

**Summaries.** `SummariesAreHonest` is about operators over one state, and rests
on the same invariant. An answer no longer than its limit, taken with one row
more, is the whole (`ListingsFit`), and of the whole both statuses are the same
(`CountedIsWorst`); whether an answer is cut is a matter of cardinalities alone;
and an incident that counts as resolved has, by `Balanced`, a closure for every
episode told of it (`HealthyIsClosed`). What the caller may not see takes no part
in the argument: a dropped row makes the status UNKNOWN.

**Bookmarks.** `SessionOk` says that a session holds every row of its interval
and that a page marked complete was shown; `Rooted`, of a request as of a
session, that it goes on where its parent's promise ends. A bookmark's promise is
then its parent's and its session's together, over chains of any length:
`BookmarksCover`. The arithmetic is in `RoundedUp` and `OnSomePage`: every item is
on one of the pages that are counted. `BoundaryHasOneAnchor`, `ChainKeepsScope`,
`BookmarksStay` and `TypeCorrect` follow from the same invariant.

**Route deployment.** `RunOk` says of each run, phase by phase, what its job, the
snapshot on disk, the routes it found and the routes served have to do with one
another, for the routes nobody else has written: `Saving`, `Saved`, `Putting`,
`Retiring`, `Probing`, `Undoing`, `Ending`, and `RestoreOk` for a `--restore`. It
gives `InstallationsAreServed`, `FailuresLeaveAsFound` and `ChangesCanBeUndone`
for any number of overlapping runs. `NamespaceStaysCovered` adds `NamespaceOk` and
assumes `RetiredSortFirst`, that superseded identifiers sort before those that
supersede them: `restore()` goes through the routes in that order. It is so of
`LEGACY_IDS` and `CURRENT_IDS` of the one script that retires.

**Rollouts.** The tables are read once (`Targets`, `Lengths`, `Commands`). `IInv`
adds to the types that a script fits its plan (`JobFits`), that what a
script is about to remove is not the original (`SafeToRemove`), the order of the
services while a script works on them (`Ordered`) and what the repair has
found (`Recorded`). `NoOriginalIsLost`, `ReleaseIsOrdered` and `RecordIsNotAhead`
follow for any number of faults, crashes and rollbacks.

What a script says at its end depends on all its rows, so a second invariant,
`PInv`, says of each row how far the host is when a script stands there
(`ScriptsKeepTheirRows`). It adds to `IInv`

- `Placed`: the rollback name is for the original only, which never bears two
  names;
- `Underway`: a script on containers stands at a row whose `Stage` its service has
  reached, or has ended with an `Outcome` that is so. There is a stage for each
  script (`R4aApplying`, `R4aUndoing`, `RetrofitUndoing`, ...), row by row: what has
  been named, stopped, started and given its restart policy so far, and, where
  `clean` and `kept` hold, that the original can still be put back;
- `Filed`: the same of the scripts on files, routes and the token.

A command can end in few ways, whatever it is: it is `Done`, or it is `Impossible`
in this state of the host, or a fault strikes with or without its effect
(`Falls`), or the rollback of the retrofit finds nothing to do (`Stops`). Reading
the commands once in these terms keeps Docker out of the proofs about scripts:
for each script a lemma (`<Script>Steps`) takes its rows one at a time, and
`NextPInv` puts them together. A restart of the host ends the script and what was
said. `WordsAreTrue` is then read off the last rows. `CleanUndosRestore` is what
needs the stages to mention `clean`: an undo whose commands have all been possible
so far has left the state in which the next is possible, which nothing weaker
says.

Assumptions on constants are the named ASSUMEs of the modules: None is none of
the values, fault sets are subsets of the named faults, a sample has no more
failures than attempts, limits are positive, callers are records.

**Only model-checked.** Liveness under fairness (`LockIsReleased`,
`EventuallyRests`, `ProblemsAreTold`, `RecoveryCompletes`), which is beyond the
prover. Every invariant and every action property a passing run checks is stated
by a theorem. Conversely, the types of `AlertDispatch`, `OwnerAlerts`, `Bookmarks`,
`Pressure`, `RouteDeploy` and `Rollout` are proved and no run repeats them.

## 5. Disagreements with the documents

Each is a run that ends in a counterexample, with the quotation in
`PROJECT.json`:

1. `README.md:10`: after a lost answer the gateway serves a revision no record
   knows (`publication_loses_good`); no incident is opened either.
2. `docs/GATEWAY_OPERATIONAL_AWARENESS_PRODUCER_TRACEABILITY.md:47`: a reader
   whose sessions have expired may be refused for ever (`bookmarks_capacity`).
3. `tests/test_udp_authorization_retrofit.py:20`: the undo of the retrofit may
   remove the original container (`rollout_retrofit`).

Seen in the models, with no run of their own:

- `docs/GATEWAY_1F_TRACEABILITY.md:12`: the active revision can be deleted, when
  the read that protects it fails: `active_revision()` answers None
  (`apisix_control_plane.py:70`). Hence the assumption `Readable`.
- `docs/OPERATIONAL_ALERT_OUTBOX_REFERENCE.md:19`: a call may end after the
  deadline of its budget, because the clock is read before authorization and the
  wait for the lock (`operational_alert_outbox.py:153`). From the same cause a
  call may outlive its lease near the deadline, and an alert the provider then
  accepts be left EXHAUSTED, which an operator may renew; and one more call may
  begin beside it than the destination allows. Hence `Prompt`.
- `docs/OPERATIONAL_PRESSURE_REFERENCE.md:11`: the first step out of a probe may
  rest on a single sample, because a probe's stage is not restarted by a gap or a
  high failure rate (`operational_pressure.py:101`).
- `docs/R3A1J_CHATGPT_OAUTH_DISCOVERY.md:63`: a gate that gets no answer ends the
  MCP script, which then restores nothing and loses the snapshot
  (`deploy_mcp_route.sh:176`).
- Overlapping deployment runs undo each other;
  `deploy_authorization_bundle_route.sh` takes a failed read for an absent route;
  `recovering()` accepts a RESOLVED incident and thereby starts an episode.
- `--rollback` of the retrofit goes no further once nothing is called `ouf-udp`,
  and says ALREADY_RESTORED of an original that is stopped.
- The Caddy README (item 8) says the script automatically restores; a stop, a
  rename or a promotion that fails restores nothing, and a later deployment does
  not know the original any more. Its INT and TERM trap drops the candidate and
  the shell goes on with the next command.
- `prepare_r4a_runtime.py` stops with a NameError (`registry_url`, line 97), and
  the key repair with an UnboundLocalError (line 118) where the pending copy could
  not be written: its routes then stay installed and unrecorded.
- A token lifetime of thirty seconds is accepted, and renewed every sixty.
- After a restart of the host the new UDP may be started before the directory it
  mounts is back.

## 6. Not modelled

Stateless predicates and generators (activation gate, boundaries, etcd gate,
materialization, validation of inputs) have no behaviour beyond one call; data and
charts have none. Lua delegation is encoding and signature within one request.
MCP dispatch makes one call and keeps nothing.

Partly modelled: of the incidents, the aggregation of occurrences and the time
stamps are left out; of the operational API, the validation of requests;
of the release, the preflights, which only read, and the repair of the picker
login; of the installation projection, the computation of a file from others.

## 7. What is left

1. The composition of `OwnerAlerts` with `AlertPromise` in place of `Settle`, so that
   what the owner's transitions enqueue is followed to its end.
2. MCP dispatch with recovery of attempts; compiler and activation gate as
   operators against a reference definition.
