---------------------------- MODULE OwnerAlerts ----------------------------
(***************************************************************************)
(* From an owner incident to a queued alert: the incident store            *)
(* (tools/operational_incidents.py), the transition history its triggers   *)
(* keep (tools/operational_cursor.py) and the reconciler that queues       *)
(* deliveries from it (tools/operational_alert_outbox.py, configure,       *)
(* reconcile_owner_transitions and _enqueue_current).                      *)
(*                                                                         *)
(* All of them are transactions of one SQLite file; each is one step.      *)
(* What becomes of a queued delivery is the business of AlertDispatch:     *)
(* here it only ends being active when it is ACCEPTED.                     *)
(***************************************************************************)
EXTENDS Naturals, Sequences, FiniteSets

CONSTANTS
  Incidents,        \* dedup keys
  Destinations,
  Severities,       \* severities reported, among 1 INFO .. 4 CRITICAL
  MinimumSeverity,  \* of each destination
  None,
  Limits,           \* batch limits callers of the reconciler use
  Sizes,            \* sizes the alert of a report may have
  MaxPayload,       \* bytes of an alert (4096)
  MaxRetained,      \* deliveries kept (4096)
  MaxActive,        \* deliveries not accepted (1024)
  MaxScoped,        \* of them, per destination (128)
  MaxReceipts,      \* transition receipts (200000)
  MaxHistory,       \* bound on the number of transitions
  MaxFound          \* bound on the incidents that are older than the history

Critical == 4

ASSUME SeverityAssumption ==
  /\ Severities \subseteq 1..Critical
  /\ MinimumSeverity \in [Destinations -> 2..Critical]
ASSUME LimitsAssumption ==
  /\ Limits \subseteq 1..64
  /\ {MaxRetained, MaxActive, MaxScoped, MaxReceipts, MaxHistory, MaxPayload} \subseteq Nat
  /\ MaxFound \in 0..MaxHistory
  /\ Sizes \subseteq Nat
ASSUME NoneIsNoIncident ==
  None \notin [state : {"OPEN", "RECOVERING", "RESOLVED"}, severity : Severities, size : Sizes]

VARIABLES
  incident,    \* gateway_operational_incident
  history,     \* gateway_incident_transition; the revision is the index
  configured,  \* gateway_alert_destination
  receipts,    \* gateway_alert_transition_receipt
  deliveries,  \* gateway_alert_delivery
  accepted     \* those of them in state ACCEPTED

vars == <<incident, history, configured, receipts, deliveries, accepted>>

States == {"OPEN", "RECOVERING", "RESOLVED"}
Phases == {"PROBLEM", "CRITICAL", "RECOVERY"}
Row == [state : States, severity : Severities, size : Sizes]
Delivery == [incident : Incidents, destination : Destinations,
             episode : 1..MaxHistory, phase : Phases]

\* What the tables range over: receipts are for transitions that are there, and
\* episodes are counted from one (line 132).
TypeOK ==
  /\ incident \in [Incidents -> Row \cup {None}]
  /\ history \in Seq([incident : Incidents, state : States])
  /\ Len(history) <= MaxHistory
  /\ configured \subseteq Destinations
  /\ receipts \subseteq Destinations \X (1..Len(history))
  /\ deliveries \subseteq Delivery
  /\ accepted \subseteq deliveries

Known == {i \in Incidents : incident[i] # None}

\* Incidents older than the history have one transition each, for the state in
\* which they were found, in any order.
Baseline ==
  /\ incident \in [Incidents -> Row \cup {None}]
  /\ \E n \in 0..MaxFound : \E found \in [1..n -> Known] :
       /\ \A i \in Known : \E k \in 1..n : found[k] = i
       /\ \A j, k \in 1..n : found[j] = found[k] => j = k
       /\ history = [k \in 1..n |-> [incident |-> found[k], state |-> incident[found[k]].state]]

Init ==
  /\ Baseline
  /\ configured = {}
  /\ receipts = {}
  /\ deliveries = {}
  /\ accepted = {}

(***************************************************************************)
(* The owner's writes; every one leaves a transition.  Each brings a text  *)
(* of its own, which nothing but the outbox measures.                      *)
(***************************************************************************)
SetIncident(i, state, severity) ==
  /\ Len(history) < MaxHistory
  /\ \E size \in Sizes :
       incident' = [incident EXCEPT ![i] = [state |-> state, severity |-> severity,
                                            size |-> size]]
  /\ history' = Append(history, [incident |-> i, state |-> state])
  /\ UNCHANGED <<configured, receipts, deliveries, accepted>>

OpenIncident(i, severity) == SetIncident(i, "OPEN", severity)

\* Neither asks in which state the incident is.
Recovering(i) == i \in Known /\ SetIncident(i, "RECOVERING", incident[i].severity)
ResolveIncident(i) == i \in Known /\ SetIncident(i, "RESOLVED", incident[i].severity)

(***************************************************************************)
(* The outbox                                                              *)
(***************************************************************************)
Configure(dest) ==
  /\ dest \notin configured
  /\ configured' = configured \cup {dest}
  /\ UNCHANGED <<incident, history, receipts, deliveries, accepted>>

Revisions(i) == {k \in DOMAIN history : history[k].incident = i}
Unreceipted(i, dest) == {k \in Revisions(i) : <<dest, k>> \notin receipts}
Pending(dest) == {i \in Incidents : Unreceipted(i, dest) # {}}
Least(S) == CHOOSE k \in S : \A j \in S : k <= j

\* A transition and the one before it of the same incident.
Adjacent(i, j, k) ==
  /\ j < k
  /\ \A m \in Revisions(i) : ~(j < m /\ m < k)

\* Variant: repeated RESOLVED metadata counts as another closure.
ClosuresRepeated(i) == Cardinality({k \in Revisions(i) : history[k].state = "RESOLVED"})

Closures(i) ==
  Cardinality({k \in Revisions(i) :
    /\ history[k].state = "RESOLVED"
    /\ \A j \in Revisions(i) : Adjacent(i, j, k) => history[j].state # "RESOLVED"})

Resolved(i) == incident[i].state = "RESOLVED"
Episode(i) == IF Resolved(i) THEN Closures(i) ELSE Closures(i) + 1
Phase(i) == IF Resolved(i) THEN "RECOVERY"
            ELSE IF incident[i].severity = Critical THEN "CRITICAL" ELSE "PROBLEM"
Current(i, dest) == [incident |-> i, destination |-> dest, episode |-> Episode(i),
                     phase |-> Phase(i)]

ProblemTold(i, dest, episode) ==
  \E d \in deliveries :
    /\ d.incident = i /\ d.destination = dest /\ d.episode = episode
    /\ d.phase # "RECOVERY"

\* Variant: a recovery is told whether or not the problem was.
DueAlways(i, dest) ==
  Resolved(i) \/ incident[i].severity >= MinimumSeverity[dest]

\* Whether the current state of the incident is the destination's to know.
Due(i, dest) ==
  IF Resolved(i) THEN ProblemTold(i, dest, Episode(i))
  ELSE incident[i].severity >= MinimumSeverity[dest]

\* Unresolved before resolved, severe before slight, then the oldest transition.
Before(i, j, dest) ==
  \/ ~Resolved(i) /\ Resolved(j)
  \/ /\ Resolved(i) = Resolved(j)
     /\ \/ incident[i].severity > incident[j].severity
        \/ /\ incident[i].severity = incident[j].severity
           /\ Least(Unreceipted(i, dest)) < Least(Unreceipted(j, dest))

\* The groups one call takes.
Batches(dest, limit) ==
  {B \in SUBSET Pending(dest) :
     /\ Cardinality(B) = limit \/ (B = Pending(dest) /\ Cardinality(B) < limit)
     /\ \A i \in B, j \in Pending(dest) \ B : Before(i, j, dest)}

Active == deliveries \ accepted
Scoped(dest) == {d \in Active : d.destination = dest}

\* Variant: the last free place is never used.
FitsTightly(dest, new) ==
  new = {} \/ Cardinality(Active \cup new) < MaxActive

TooLong(d) == incident[d.incident].size > MaxPayload

\* Each insert finds room and is not too long; otherwise the whole transaction
\* is rolled back.
Fits(dest, new) ==
  \/ new = {}
  \/ /\ Cardinality(deliveries \cup new) <= MaxRetained
     /\ Cardinality(Active \cup new) <= MaxActive
     /\ Cardinality(Scoped(dest) \cup new) <= MaxScoped
     /\ \A d \in new : ~TooLong(d)

\* Variant: what finds no room is dropped and its receipt kept.
ReconcileDropping(dest, limit) ==
  /\ dest \in configured
  /\ Cardinality(receipts) + limit <= MaxReceipts
  /\ \E B \in Batches(dest, limit) :
       LET new == {Current(i, dest) : i \in {j \in B : Due(j, dest)}} \ deliveries
       IN /\ deliveries' = IF Fits(dest, new) THEN deliveries \cup new ELSE deliveries
          /\ receipts' = receipts \cup {<<dest, Least(Unreceipted(i, dest))>> : i \in B}
  /\ UNCHANGED <<incident, history, configured, accepted>>

\* reconcile_owner_transitions: one receipt per incident of the batch, for its
\* oldest transition, and a delivery for its current state.
Reconcile(dest, limit) ==
  /\ dest \in configured
  /\ Cardinality(receipts) + limit <= MaxReceipts
  /\ \E B \in Batches(dest, limit) :
       LET new == {Current(i, dest) : i \in {j \in B : Due(j, dest)}} \ deliveries
       IN /\ B # {}
          /\ Fits(dest, new)
          /\ deliveries' = deliveries \cup new
          /\ receipts' = receipts \cup {<<dest, Least(Unreceipted(i, dest))>> : i \in B}
  /\ UNCHANGED <<incident, history, configured, accepted>>

\* The dispatcher got the delivery accepted.
Settle(d) ==
  /\ d \in Active
  /\ accepted' = accepted \cup {d}
  /\ UNCHANGED <<incident, history, configured, receipts, deliveries>>

ReconcileSome(dest) == \E limit \in Limits : Reconcile(dest, limit)

Next ==
  \/ \E i \in Incidents :
       \/ \E severity \in Severities : OpenIncident(i, severity)
       \/ Recovering(i)
       \/ ResolveIncident(i)
  \/ \E dest \in Destinations : Configure(dest) \/ ReconcileSome(dest)
  \/ \E d \in deliveries : Settle(d)

Spec == Init /\ [][Next]_vars

\* The host keeps calling the reconciler, with a limit of one among others.
Fairness == \A dest \in Destinations : WF_vars(ReconcileSome(dest))
FairSpec == Spec /\ Fairness

-----------------------------------------------------------------------------
(***************************************************************************)
(* Properties                                                              *)
(***************************************************************************)

\* Once every transition of an incident has its receipt, what the destination
\* should know of the incident's present state has been queued for it: one
\* receipt per transition and a delivery of the current state, not of the
\* transition's, lose nothing, whatever batches, roll-backs for want of room
\* and late configuration come between (lines 111-118).
CaughtUpIsCurrent ==
  \A dest \in configured, i \in Known :
    Unreceipted(i, dest) = {} /\ Due(i, dest) => Current(i, dest) \in deliveries

\* A recovery is told only to those who were told of the problem, and only of
\* an episode the owner has really closed (lines 134-135).
RecoveryIsProved ==
  \A d \in deliveries : d.phase = "RECOVERY" =>
    /\ ProblemTold(d.incident, d.destination, d.episode)
    /\ d.episode <= Closures(d.incident)

Reopenings(i) ==
  Cardinality({k \in Revisions(i) :
    /\ history[k].state # "RESOLVED"
    /\ \E j \in Revisions(i) : Adjacent(i, j, k) /\ history[j].state = "RESOLVED"})

\* One outage is one episode: however often it is reported or its resolution
\* repeated, only a reopening lets a destination be alerted anew
\* (docs/OPERATIONAL_ALERT_OUTBOX_REFERENCE.md:7).
EpisodesAreReopenings ==
  \A d \in deliveries : d.episode <= Reopenings(d.incident) + 1

\* A problem a destination should know of is queued in the end, unless it ends
\* first, the outbox is full, or a report whose alert would be too long waits for
\* the same destination: the batch that has it is rolled back, and if it sorts
\* first so is every batch (lines 114-115 and 145).
Full(dest) ==
  \/ Cardinality(deliveries) >= MaxRetained
  \/ Cardinality(Active) >= MaxActive
  \/ Cardinality(Scoped(dest)) >= MaxScoped
  \/ Cardinality(receipts) >= MaxReceipts
Blocked(dest) ==
  \E i \in Pending(dest) :
    Due(i, dest) /\ Current(i, dest) \notin deliveries /\ TooLong(Current(i, dest))
Untold(i, dest) ==
  /\ dest \in configured
  /\ i \in Known
  /\ ~Resolved(i)
  /\ Due(i, dest)
  /\ Current(i, dest) \notin deliveries
ProblemsAreTold ==
  \A i \in Incidents, dest \in Destinations :
    Untold(i, dest) ~> ~Untold(i, dest) \/ Full(dest) \/ Blocked(dest)
=============================================================================
