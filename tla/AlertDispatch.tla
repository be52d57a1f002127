--------------------------- MODULE AlertDispatch ---------------------------
(***************************************************************************)
(* Dispatch of queued alerts to one destination:                           *)
(* tools/operational_alert_outbox.py from send_once on.  Processes run     *)
(* send_once, reconcile_ambiguous_delivery and renew_exhausted_budget      *)
(* against one SQLite file; every "begin immediate" transaction is one     *)
(* step, the authorize callback and the transport are called between       *)
(* transactions.  The transport and its provider are external.             *)
(*                                                                         *)
(* Time is counted in ticks of 2.5 seconds, half the attempt contract.     *)
(***************************************************************************)
EXTENDS Naturals, Sequences, FiniteSets

CONSTANTS
  Workers,         \* processes of the host
  Deliveries,      \* deliveries that may be queued
  Phase,           \* delivery -> 0 CRITICAL, 1 PROBLEM, 2 RECOVERY
  None,
  Lifetime,        \* of a budget session (24 hours)
  MaxAttempts,     \* of a budget session (128)
  MaxQueries,      \* of a delivery (8)
  InFlightLimit,   \* per destination (2)
  Backoff,         \* ticks before each retry (BACKOFF, jitter left out)
  RetryAfters,     \* what a transport may ask for, in ticks
  AuthorizeLimit,  \* bound on the ticks an authorize callback takes
  MaxTime,         \* bound on the clock
  MaxSessions,     \* bound on the budget sessions of a delivery
  MaxCrashes       \* bound on the crashes

Lease == 4      \* ten seconds
SendLimit == 2  \* five seconds

ASSUME BoundsAssumption ==
  /\ {Lifetime, MaxAttempts, MaxQueries, MaxSessions, InFlightLimit} \subseteq Nat \ {0}
  /\ {AuthorizeLimit, MaxTime, MaxCrashes} \subseteq Nat
  /\ RetryAfters \subseteq Nat
  /\ Backoff \in Seq(Nat \ {0}) /\ Backoff # <<>>
  /\ Phase \in [Deliveries -> 0..2]
ASSUME NoneAssumption == None \notin Workers \cup Deliveries \cup Nat

VARIABLES
  now,       \* the clock of the host
  rows,      \* gateway_alert_delivery with its active budget session
  proc,      \* what each process is in the middle of
  accepted,  \* external: deliveries the provider has accepted
  crashes    \* number of crashes so far

vars == <<now, rows, proc, accepted, crashes>>

Kinds == {"ACCEPTED", "TRANSIENT_NOT_ACCEPTED", "PERMANENT", "UNKNOWN"}
States == {"PENDING", "IN_FLIGHT", "ACCEPTED", "PAUSED", "UNKNOWN", "EXHAUSTED"}
Row == [state : States, version : Nat, due : Nat, lease : Nat \cup {None},
        claim : Workers \cup {None}, queries : 0..MaxQueries,
        session : 1..MaxSessions, deadline : Nat, attempts : 0..MaxAttempts,
        budget : {"ACTIVE", "ACCEPTED", "PAUSED", "UNKNOWN", "EXHAUSTED"}]

ASSUME NoneIsNoRow == None \notin Row

Idle == [at |-> "idle", delivery |-> None, version |-> 0, since |-> 0,
         answer |-> None]
Labels == {"idle", "authorizing", "calling", "answered", "querying", "resolved",
           "renewing"}
Process == [at : Labels, delivery : Deliveries \cup {None}, version : Nat,
            since : 0..MaxTime, answer : Kinds \cup {None}]

\* What the columns range over: attempts and queries never pass their
\* allowance (lines 166, 199, 232), which no constraint of the tables enforces.
TypeOK ==
  /\ now \in 0..MaxTime
  /\ rows \in [Deliveries -> Row \cup {None}]
  /\ proc \in [Workers -> Process]
  /\ accepted \subseteq Deliveries
  /\ crashes \in 0..MaxCrashes

Init ==
  /\ now = 0
  /\ rows = [d \in Deliveries |-> None]
  /\ proc = [p \in Workers |-> Idle]
  /\ accepted = {}
  /\ crashes = 0

Queued == {d \in Deliveries : rows[d] # None}
Return(p) == proc' = [proc EXCEPT ![p] = Idle]

\* _enqueue_current inserts the delivery with its first budget session.
Enqueue(d) ==
  /\ rows[d] = None
  /\ now + Lifetime <= MaxTime
  /\ rows' = [rows EXCEPT ![d] =
       [state |-> "PENDING", version |-> 0, due |-> now, lease |-> None,
        claim |-> None, queries |-> 0, session |-> 1,
        deadline |-> now + Lifetime, attempts |-> 0, budget |-> "ACTIVE"]]
  /\ UNCHANGED <<now, proc, accepted, crashes>>

(***************************************************************************)
(* send_once                                                               *)
(***************************************************************************)
Due(t) == {d \in Queued : rows[d].state = "PENDING" /\ rows[d].due <= t}

\* order by phase, then next_due, limit 1
First(t) ==
  {d \in Due(t) : \A e \in Due(t) :
     \/ Phase[d] < Phase[e]
     \/ Phase[d] = Phase[e] /\ rows[d].due <= rows[e].due}

\* The clock is read once, then the delivery is previewed and the host asked
\* to authorize it; the transaction below still uses this clock reading.
Preview(p) ==
  /\ proc[p].at = "idle"
  /\ \E d \in IF First(now) = {} THEN {None} ELSE First(now) :
       proc' = [proc EXCEPT ![p] = [Idle EXCEPT
         !.at = "authorizing", !.delivery = d, !.since = now]]
  /\ UNCHANGED <<now, rows, accepted, crashes>>

Denied(p) ==
  /\ proc[p].at = "authorizing"
  /\ proc[p].delivery # None
  /\ Return(p)
  /\ UNCHANGED <<now, rows, accepted, crashes>>

\* Variants of Swept: a lost call is sent again, a
\* lost call is never noticed.
SweptResends(r, t) ==
  IF r.state = "IN_FLIGHT" /\ r.lease <= t
  THEN [r EXCEPT !.state = "PENDING", !.version = @ + 1, !.claim = None]
  ELSE r
SweptPendingOnly(r, t) ==
  IF r.state = "PENDING" /\ (r.deadline <= t \/ r.attempts >= MaxAttempts)
  THEN [r EXCEPT !.state = "EXHAUSTED", !.version = @ + 1, !.budget = "EXHAUSTED"]
  ELSE r

\* What the transaction first does to every row: an expired lease makes the
\* delivery UNKNOWN, a spent budget EXHAUSTED; their sessions follow.
Swept(r, t) ==
  IF r.state = "IN_FLIGHT" /\ r.lease <= t
  THEN [r EXCEPT !.state = "UNKNOWN", !.version = @ + 1, !.claim = None,
                 !.budget = "UNKNOWN"]
  ELSE IF r.state = "PENDING" /\ (r.deadline <= t \/ r.attempts >= MaxAttempts)
  THEN [r EXCEPT !.state = "EXHAUSTED", !.version = @ + 1, !.budget = "EXHAUSTED"]
  ELSE IF r.state \in {"EXHAUSTED", "UNKNOWN"} THEN [r EXCEPT !.budget = r.state]
  ELSE r

\* Variant: a call is begun although it cannot end before the deadline.
TooLateAlready(r, t) == r.deadline <= t
TooLate(r, t) == r.deadline < t + SendLimit

Least(a, b) == IF a <= b THEN a ELSE b
Greatest(a, b) == IF a >= b THEN a ELSE b

\* Variant: the lease is shorter than the call.
LeaseOfHalfACall(r, t) == Least(t + 1, r.deadline)
LeaseUntil(r, t) == Least(t + Lease, r.deadline)

\* The session pays for the call before it is made; a delivery whose deadline is
\* too near is EXHAUSTED, and its session told so by the next sweep.
Claimed(r, p, t) ==
  [r EXCEPT !.state = "IN_FLIGHT", !.version = @ + 1, !.claim = p,
            !.attempts = @ + 1, !.lease = LeaseUntil(r, t)]
GivenUp(r) == [r EXCEPT !.state = "EXHAUSTED", !.version = @ + 1]

Claim(p) ==
  LET t == proc[p].since
      d == proc[p].delivery
      swept == [e \in Deliveries |->
                 IF rows[e] = None THEN None ELSE Swept(rows[e], t)]
      inFlight == {e \in Queued : swept[e].state = "IN_FLIGHT"}
      eligible == /\ Cardinality(inFlight) < InFlightLimit
                  /\ d # None
                  /\ swept[d].state = "PENDING"
                  /\ swept[d].due <= t
  IN /\ proc[p].at = "authorizing"
     /\ \/ /\ ~eligible
           /\ rows' = swept
           /\ Return(p)
        \/ /\ eligible
           /\ TooLate(swept[d], t)
           /\ rows' = [swept EXCEPT ![d] = GivenUp(swept[d])]
           /\ Return(p)
        \/ /\ eligible
           /\ ~TooLate(swept[d], t)
           /\ rows' = [swept EXCEPT ![d] = Claimed(swept[d], p, t)]
           /\ proc' = [proc EXCEPT ![p] = [@ EXCEPT !.at = "calling",
                !.version = swept[d].version + 1, !.since = now]]
     /\ UNCHANGED <<now, accepted, crashes>>

\* External: the transport answers within its contract, and by then the
\* provider has accepted or never will.  ACCEPTED and not accepted are reported
\* truthfully; after UNKNOWN the provider may have accepted.
Answer(p, kind) ==
  /\ proc[p].at = "calling"
  /\ proc' = [proc EXCEPT ![p].at = "answered", ![p].answer = kind]
  /\ \/ /\ kind \in {"ACCEPTED", "UNKNOWN"}
        /\ accepted' = accepted \cup {proc[p].delivery}
     \/ /\ kind # "ACCEPTED"
        /\ UNCHANGED accepted
  /\ UNCHANGED <<now, rows, crashes>>

\* Variant: a call that timed out is taken for a delivery.
FinishedOptimistically(r, kind, retryAfter) ==
  [r EXCEPT !.state = IF kind = "PERMANENT" THEN "PAUSED" ELSE "ACCEPTED",
            !.version = @ + 1, !.claim = None, !.lease = None, !.budget = "ACCEPTED"]

\* The row as _finish leaves it; a retry that would not fit is EXHAUSTED.
Finished(r, kind, retryAfter) ==
  LET due == now + Greatest(Backoff[Least(r.attempts, Len(Backoff))], retryAfter)
      retries == r.attempts < MaxAttempts /\ due + SendLimit < r.deadline
      state == CASE kind = "ACCEPTED" -> "ACCEPTED"
                 [] kind = "PERMANENT" -> "PAUSED"
                 [] kind = "UNKNOWN" -> "UNKNOWN"
                 [] OTHER -> IF retries THEN "PENDING" ELSE "EXHAUSTED"
  IN [r EXCEPT !.state = state, !.version = @ + 1, !.claim = None, !.lease = None,
               !.due = IF kind = "TRANSIENT_NOT_ACCEPTED" THEN due ELSE now,
               !.budget = IF state = "PENDING" THEN @ ELSE state]

\* Variant: the outcome is written whatever became of the claim meanwhile.
FreshAlways(p) == TRUE
Fresh(p) ==
  LET r == rows[proc[p].delivery]
  IN /\ r.state = "IN_FLIGHT"
     /\ r.claim = p
     /\ r.version = proc[p].version
     /\ r.lease > now

\* _finish: the outcome counts only under the claim it was made under.
Finish(p) ==
  LET d == proc[p].delivery
      r == rows[d]
  IN /\ proc[p].at = "answered"
     /\ \/ /\ Fresh(p)
           /\ \E after \in IF proc[p].answer = "TRANSIENT_NOT_ACCEPTED"
                           THEN RetryAfters ELSE {0} :
                rows' = [rows EXCEPT ![d] = Finished(r, proc[p].answer, after)]
        \/ /\ ~Fresh(p)
           /\ UNCHANGED rows
     /\ Return(p)
     /\ UNCHANGED <<now, accepted, crashes>>

(***************************************************************************)
(* reconcile_ambiguous_delivery                                            *)
(***************************************************************************)
Reconcile(p, d) ==
  /\ proc[p].at = "idle"
  /\ d \in Queued
  /\ rows[d].state = "UNKNOWN"
  /\ rows[d].queries < MaxQueries
  /\ rows' = [rows EXCEPT ![d].queries = @ + 1]
  /\ proc' = [proc EXCEPT ![p] = [Idle EXCEPT
       !.at = "querying", !.delivery = d, !.version = rows[d].version]]
  /\ UNCHANGED <<now, accepted, crashes>>

\* External: the provider is asked, outside any transaction, and answers with
\* authority or not at all; without an answer the delivery stays UNKNOWN.
Query(p) ==
  /\ proc[p].at = "querying"
  /\ \/ proc' = [proc EXCEPT ![p].at = "resolved", ![p].answer =
            IF proc[p].delivery \in accepted THEN "ACCEPTED"
            ELSE "TRANSIENT_NOT_ACCEPTED"]
     \/ Return(p)
  /\ UNCHANGED <<now, rows, accepted, crashes>>

\* Variant: the session of a delivery that resumes stays UNKNOWN.
ResolvedKeepsSession(r, kind) ==
  LET state == IF kind = "ACCEPTED" THEN "ACCEPTED"
               ELSE IF r.attempts < MaxAttempts /\ now + SendLimit < r.deadline
               THEN "PENDING" ELSE "EXHAUSTED"
  IN [r EXCEPT !.state = state, !.version = @ + 1, !.due = now,
               !.budget = IF state = "PENDING" THEN @ ELSE state]

Resolved(r, kind) ==
  LET state == IF kind = "ACCEPTED" THEN "ACCEPTED"
               ELSE IF r.attempts < MaxAttempts /\ now + SendLimit < r.deadline
               THEN "PENDING" ELSE "EXHAUSTED"
  IN [r EXCEPT !.state = state, !.version = @ + 1, !.due = now,
               !.budget = IF state = "PENDING" THEN "ACTIVE" ELSE state]

Resolve(p) ==
  LET d == proc[p].delivery
      current == rows[d].state = "UNKNOWN" /\ rows[d].version = proc[p].version
  IN /\ proc[p].at = "resolved"
     /\ \/ /\ current
           /\ rows' = [rows EXCEPT ![d] = Resolved(rows[d], proc[p].answer)]
        \/ /\ ~current
           /\ UNCHANGED rows
     /\ Return(p)
     /\ UNCHANGED <<now, accepted, crashes>>

(***************************************************************************)
(* renew_exhausted_budget: an operator saw the delivery EXHAUSTED in some  *)
(* version; authorization comes before the transaction that checks again.  *)
(***************************************************************************)
AskRenewal(p, d) ==
  /\ proc[p].at = "idle"
  /\ d \in Queued
  /\ rows[d].state = "EXHAUSTED"
  /\ proc' = [proc EXCEPT ![p] = [Idle EXCEPT
       !.at = "renewing", !.delivery = d, !.version = rows[d].version]]
  /\ UNCHANGED <<now, rows, accepted, crashes>>

Renewed(r) ==
  [r EXCEPT !.state = "PENDING", !.version = @ + 1, !.due = now, !.session = @ + 1,
            !.deadline = now + Lifetime, !.attempts = 0, !.budget = "ACTIVE"]

Renew(p) ==
  LET d == proc[p].delivery
      current == /\ rows[d].state = "EXHAUSTED"
                 /\ rows[d].version = proc[p].version
  IN /\ proc[p].at = "renewing"
     /\ \/ /\ current
           /\ rows[d].session < MaxSessions
           /\ now + Lifetime <= MaxTime
           /\ rows' = [rows EXCEPT ![d] = Renewed(rows[d])]
        \/ UNCHANGED rows  \* refused: not human, not allowed or not current
     /\ Return(p)
     /\ UNCHANGED <<now, accepted, crashes>>

(***************************************************************************)
(* The environment                                                         *)
(***************************************************************************)
\* A process dies; the provider may have got the alert it was sending.
Crash(p) ==
  /\ crashes < MaxCrashes
  /\ proc[p].at # "idle"
  /\ crashes' = crashes + 1
  /\ Return(p)
  /\ \/ UNCHANGED accepted
     \/ /\ proc[p].at = "calling"
        /\ accepted' = accepted \cup {proc[p].delivery}
  /\ UNCHANGED <<now, rows>>

\* A call ends before its five seconds are over; what lies between the clock
\* reading of send_once and its transaction (the authorize callback, the wait
\* for the write lock) takes at most AuthorizeLimit.
Tick ==
  /\ now < MaxTime
  /\ \A p \in Workers :
       /\ proc[p].at = "calling" => now + 1 < proc[p].since + SendLimit
       /\ proc[p].at = "authorizing" => now < proc[p].since + AuthorizeLimit
  /\ now' = now + 1
  /\ UNCHANGED <<rows, proc, accepted, crashes>>

Step(p) ==
  \/ Denied(p) \/ Claim(p) \/ Finish(p) \/ Query(p) \/ Resolve(p) \/ Renew(p)
  \/ \E kind \in Kinds : Answer(p, kind)

Next ==
  \/ \E d \in Deliveries : Enqueue(d)
  \/ \E p \in Workers :
       \/ Preview(p) \/ Step(p) \/ Crash(p)
       \/ \E d \in Deliveries : Reconcile(p, d) \/ AskRenewal(p, d)
  \/ Tick

Spec == Init /\ [][Next]_vars

\* The host keeps calling send_once and does not refuse it for ever (it has to
\* be called by something: the module starts no thread); calls end; time
\* passes.
Fairness ==
  /\ WF_vars(Tick)
  /\ \A p \in Workers : WF_vars(Step(p)) /\ SF_vars(Preview(p)) /\ SF_vars(Claim(p))
FairSpec == Spec /\ Fairness

-----------------------------------------------------------------------------
(***************************************************************************)
(* Properties                                                              *)
(***************************************************************************)

\* Only what the provider is known not to have accepted can be sent again, by
\* itself or after a human renewal (lines 3-4 of the source).
RetryableNotAccepted ==
  \A d \in Queued : rows[d].state \in {"PENDING", "EXHAUSTED"} => d \notin accepted

\* What the outbox records as accepted was accepted, and neither a late result
\* nor an answer to an old query takes a settled delivery back.
AcceptedIsTrue == \A d \in Queued : rows[d].state = "ACCEPTED" => d \in accepted
SettledIsFinal ==
  [][\A d \in Queued :
       rows[d].state \in {"ACCEPTED", "PAUSED"} => rows'[d] = rows[d]]_vars

\* A session never pays for more calls than it allows and for none that ends
\* after its deadline: 24 hours including the attempt
\* (docs/OPERATIONAL_ALERT_OUTBOX_REFERENCE.md:19).
CallsEndInTime ==
  \A p \in Workers : proc[p].at = "calling" =>
    LET r == rows[proc[p].delivery]
    IN r.version = proc[p].version => proc[p].since + SendLimit <= r.deadline

\* The session a delivery refers to is ACTIVE exactly while the delivery can
\* still be sent without anyone deciding anything, and otherwise says how the
\* delivery ended; a deadline found too near is written down by the next call.
SessionTellsState ==
  \A d \in Queued :
    LET r == rows[d]
    IN \/ r.budget = IF r.state \in {"PENDING", "IN_FLIGHT"} THEN "ACTIVE" ELSE r.state
       \/ r.state = "EXHAUSTED" /\ r.budget = "ACTIVE"

\* Whatever expires when, the provider is never called more often at once than
\* the destination allows, although only rows are counted, not calls.
CallsWithinLimit ==
  Cardinality({p \in Workers : proc[p].at = "calling"}) <= InFlightLimit

\* Where the clock reading of send_once is current when it is used, deliveries
\* keep the promise made of alerts, the processes, versions, leases and budgets
\* being nobody's concern: the provider is offered none it may have accepted and
\* accepts none behind the outbox's back, PAUSED says that it was not accepted,
\* ACCEPTED that it was, and nothing leaves UNKNOWN but by an answer that is so.
StageOf == [d \in Deliveries |-> IF rows[d] = None THEN "NONE" ELSE rows[d].state]
Promise == INSTANCE AlertPromise WITH Alerts <- Deliveries, stage <- StageOf, told <- accepted
PromiseKept == Promise!Spec

\* No delivery stays queued or in flight for ever, whoever dies when: it is
\* settled, exhausted, or left UNKNOWN for reconciliation.
Waiting(d) == rows[d] # None /\ rows[d].state \in {"PENDING", "IN_FLIGHT"}
EventuallyRests == \A d \in Deliveries : Waiting(d) ~> ~Waiting(d)
=============================================================================
