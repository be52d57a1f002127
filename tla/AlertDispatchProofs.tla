------------------------- MODULE AlertDispatchProofs -------------------------
(***************************************************************************)
(* Theorems about AlertDispatch, for any processes, deliveries, budgets    *)
(* and numbers of crashes.  The record of a delivery carries a version     *)
(* that every change of its state raises, so what a process knows of a     *)
(* delivery is worth something exactly while the version is still the one  *)
(* it saw; CallInv says what it is worth.                                  *)
(***************************************************************************)
EXTENDS AlertDispatch, FiniteSetTheorems, TLAPS

(***************************************************************************)
(* The invariant.                                                          *)
(***************************************************************************)

SessionFits(r) ==
  \/ r.budget = IF r.state \in {"PENDING", "IN_FLIGHT"} THEN "ACTIVE" ELSE r.state
  \/ r.state = "EXHAUSTED" /\ r.budget = "ACTIVE"

\* A row in flight has an owner, a lease and has paid for the call.
RowOk(r) ==
  /\ r \in Row
  /\ SessionFits(r)
  /\ r.state = "IN_FLIGHT" => r.claim \in Workers /\ r.lease \in Nat /\ r.attempts > 0

Engaged == {"calling", "answered", "querying", "resolved", "renewing"}

\* A process knows a version the row has had, and reports what it was told.
ProcOk(p) ==
  /\ proc[p].since <= now
  /\ proc[p].at = "authorizing" => proc[p].delivery \in Queued \cup {None}
  /\ proc[p].at \in Engaged =>
       /\ proc[p].delivery \in Queued
       /\ proc[p].version <= rows[proc[p].delivery].version
  /\ proc[p].at = "answered" => proc[p].answer \in Kinds
  /\ proc[p].at = "resolved" => proc[p].answer \in {"ACCEPTED", "TRANSIENT_NOT_ACCEPTED"}
  /\ proc[p].at \in {"answered", "resolved"} /\ proc[p].answer = "ACCEPTED" =>
       proc[p].delivery \in accepted

InFlight == {d \in Queued : rows[d].state = "IN_FLIGHT"}

InFlightFits == IsFiniteSet(InFlight) /\ Cardinality(InFlight) <= InFlightLimit

DispatchInv ==
  /\ TypeOK
  /\ \A d \in Queued : RowOk(rows[d])
  /\ \A p \in Workers : ProcOk(p)
  /\ accepted \subseteq Queued
  /\ AcceptedIsTrue
  /\ InFlightFits

\* The authorization and the wait for the lock take no time.
Prompt == AuthorizeLimit = 0

Current(p) == rows[proc[p].delivery].version = proc[p].version

\* A call owns its row until it has ended.
OwnsRow(p) ==
  LET r == rows[proc[p].delivery]
  IN /\ Current(p)
     /\ r.state = "IN_FLIGHT" /\ r.claim = p
     /\ now < proc[p].since + SendLimit
     /\ proc[p].since + SendLimit <= r.lease
     /\ proc[p].since + SendLimit <= r.deadline

\* A negative answer that still counts.
Refused(p) ==
  LET r == rows[proc[p].delivery]
  IN /\ \/ proc[p].at = "answered" /\ r.state = "IN_FLIGHT" /\ r.claim = p
        \/ proc[p].at = "resolved" /\ r.state = "UNKNOWN"
     /\ Current(p)
     /\ proc[p].answer \in {"TRANSIENT_NOT_ACCEPTED", "PERMANENT"}

CallOk(p) ==
  /\ proc[p].at = "authorizing" => proc[p].since = now
  /\ proc[p].at = "calling" => OwnsRow(p)
  /\ proc[p].at = "calling" => proc[p].delivery \notin accepted
  /\ Refused(p) => proc[p].delivery \notin accepted

CallInv == RetryableNotAccepted /\ \A p \in Workers : CallOk(p)

IInv == DispatchInv /\ (Prompt => CallInv)

(***************************************************************************)
(* What the transactions make of a row.                                    *)
(***************************************************************************)

\* Another process sees a change of state by the version, and nothing of a row in
\* flight whose lease runs and whose owner does not step.
Follows(r, s, p) ==
  /\ s.version >= r.version
  /\ s.version = r.version => s.state = r.state /\ s.claim = r.claim
  /\ r.state = "IN_FLIGHT" /\ r.claim # p /\ r.lease > now => s = r

Budgets == {"ACTIVE", "ACCEPTED", "PAUSED", "UNKNOWN", "EXHAUSTED"}

\* The sweep keeps rows well formed; it makes nothing PENDING or IN_FLIGHT, and
\* nothing ACCEPTED.
LEMMA SweptRow ==
  ASSUME NEW r, RowOk(r), NEW t \in Nat, NEW s, s = Swept(r, t)
  PROVE  /\ RowOk(s)
         /\ s.version >= r.version
         /\ s.version = r.version => s.state = r.state /\ s.claim = r.claim
         /\ r.state = "IN_FLIGHT" /\ r.lease > t => s = r
         /\ s.state = "IN_FLIGHT" => s = r
         /\ s.state = "PENDING" => s = r /\ r.attempts < MaxAttempts
         /\ s.state = "EXHAUSTED" => r.state \in {"PENDING", "EXHAUSTED"}
         /\ s.state \in {"ACCEPTED", "PAUSED"} => s = r
         /\ r.state \in {"ACCEPTED", "PAUSED"} => s = r
<1>1. r \in Row /\ SessionFits(r)
  BY DEF RowOk
<1>2. CASE r.state = "IN_FLIGHT" /\ r.lease <= t
  <2>1. s = [r EXCEPT !.state = "UNKNOWN", !.version = @ + 1, !.claim = None,
                      !.budget = "UNKNOWN"]
    BY <1>2 DEF Swept
  <2>2. r.version \in Nat /\ r.version + 1 \in Nat /\ r.lease \in Nat
    BY <1>1, <1>2 DEF Row, RowOk
  <2>3. s \in Row
    BY <1>1, <2>1, <2>2 DEF Row, States
  <2>4. s.state = "UNKNOWN" /\ s.budget = "UNKNOWN" /\ s.version = r.version + 1
    BY <1>1, <2>1 DEF Row
  <2> QED
    BY <1>2, <2>2, <2>3, <2>4 DEF RowOk, SessionFits
<1>3. CASE r.state = "PENDING" /\ (r.deadline <= t \/ r.attempts >= MaxAttempts)
  <2>1. s = [r EXCEPT !.state = "EXHAUSTED", !.version = @ + 1, !.budget = "EXHAUSTED"]
    BY <1>3 DEF Swept
  <2>2. r.version \in Nat /\ r.version + 1 \in Nat
    BY <1>1 DEF Row
  <2>3. s \in Row
    BY <1>1, <2>1, <2>2 DEF Row, States
  <2>4. s.state = "EXHAUSTED" /\ s.budget = "EXHAUSTED" /\ s.version = r.version + 1
    BY <1>1, <2>1 DEF Row
  <2> QED
    BY <1>3, <2>2, <2>3, <2>4 DEF RowOk, SessionFits
<1>4. CASE r.state \in {"EXHAUSTED", "UNKNOWN"}
  <2>1. s = [r EXCEPT !.budget = r.state]
    BY <1>4 DEF Swept
  <2>2. /\ s \in Row /\ s.state = r.state /\ s.budget = r.state
        /\ s.version = r.version /\ s.claim = r.claim
    BY <1>1, <1>4, <2>1 DEF Row, States
  <2>3. r.version \in Nat
    BY <1>1 DEF Row
  <2> QED
    BY <1>4, <2>2, <2>3 DEF RowOk, SessionFits
<1>5. CASE /\ ~(r.state = "IN_FLIGHT" /\ r.lease <= t)
           /\ ~(r.state = "PENDING" /\ (r.deadline <= t \/ r.attempts >= MaxAttempts))
           /\ r.state \notin {"EXHAUSTED", "UNKNOWN"}
  <2>1. s = r
    BY <1>5 DEF Swept
  <2>2. r.version \in Nat /\ r.attempts \in 0..MaxAttempts /\ MaxAttempts \in Nat
    BY <1>1, BoundsAssumption DEF Row
  <2> QED
    BY <1>5, <2>1, <2>2
<1> QED
  BY <1>2, <1>3, <1>4, <1>5

\* The outcome of a call.
LEMMA FinishedRow ==
  ASSUME NEW r, RowOk(r), r.state = "IN_FLIGHT", NEW kind \in Kinds, NEW after \in Nat,
         now \in Nat, NEW s, s = Finished(r, kind, after)
  PROVE  /\ RowOk(s)
         /\ r.version \in Nat /\ s.version = r.version + 1
         /\ s.state # "IN_FLIGHT"
         /\ s.state = "ACCEPTED" => kind = "ACCEPTED"
         /\ s.state = "PAUSED" => kind = "PERMANENT"
         /\ s.state \in {"PENDING", "EXHAUSTED"} => kind = "TRANSIENT_NOT_ACCEPTED"
<1> DEFINE due == now + Greatest(Backoff[Least(r.attempts, Len(Backoff))], after)
<1> DEFINE retries == r.attempts < MaxAttempts /\ due + SendLimit < r.deadline
<1> DEFINE state == CASE kind = "ACCEPTED" -> "ACCEPTED"
                      [] kind = "PERMANENT" -> "PAUSED"
                      [] kind = "UNKNOWN" -> "UNKNOWN"
                      [] OTHER -> IF retries THEN "PENDING" ELSE "EXHAUSTED"
<1>1. /\ r \in Row /\ SessionFits(r) /\ r.attempts \in Nat /\ r.attempts > 0
      /\ r.version \in Nat
  BY BoundsAssumption DEF RowOk, Row
<1>2. due \in Nat
  <2>1. Len(Backoff) \in Nat /\ Len(Backoff) > 0 /\ DOMAIN Backoff = 1..Len(Backoff)
    BY BoundsAssumption
  <2>2. Least(r.attempts, Len(Backoff)) \in DOMAIN Backoff
    BY <1>1, <2>1 DEF Least
  <2>3. Backoff[Least(r.attempts, Len(Backoff))] \in Nat
    BY <2>2, BoundsAssumption
  <2> QED
    BY <2>3 DEF Greatest
<1>3. s = [r EXCEPT !.state = state, !.version = @ + 1, !.claim = None, !.lease = None,
                    !.due = IF kind = "TRANSIENT_NOT_ACCEPTED" THEN due ELSE now,
                    !.budget = IF state = "PENDING" THEN @ ELSE state]
  BY DEF Finished
<1>4. /\ state \in {"ACCEPTED", "PAUSED", "UNKNOWN", "PENDING", "EXHAUSTED"}
      /\ state = "ACCEPTED" => kind = "ACCEPTED"
      /\ state = "PAUSED" => kind = "PERMANENT"
      /\ state \in {"PENDING", "EXHAUSTED"} => kind = "TRANSIENT_NOT_ACCEPTED"
  BY DEF Kinds
<1> HIDE DEF state, due
<1>5. PICK b : b = IF state = "PENDING" THEN r.budget ELSE state
  OBVIOUS
<1>6. PICK next \in Nat : next = IF kind = "TRANSIENT_NOT_ACCEPTED" THEN due ELSE now
  BY <1>2
<1>7. s = [r EXCEPT !.state = state, !.version = @ + 1, !.claim = None, !.lease = None,
                    !.due = next, !.budget = b]
  BY <1>3, <1>5, <1>6
<1>8. r.version + 1 \in Nat /\ b \in Budgets /\ r.budget = "ACTIVE"
  BY <1>1, <1>4, <1>5 DEF SessionFits, Budgets
<1>9. s \in Row
  BY <1>1, <1>4, <1>7, <1>8 DEF Row, States, Budgets
<1>10. s.state = state /\ s.version = r.version + 1 /\ s.budget = b
  BY <1>1, <1>7 DEF Row
<1>11. SessionFits(s)
  BY <1>4, <1>5, <1>8, <1>10 DEF SessionFits
<1> QED
  BY <1>1, <1>4, <1>9, <1>10, <1>11 DEF RowOk

\* The answer of the provider to a query.
LEMMA ResolvedRow ==
  ASSUME NEW r, RowOk(r), r.state = "UNKNOWN", NEW kind, now \in Nat,
         NEW s, s = Resolved(r, kind)
  PROVE  /\ RowOk(s)
         /\ r.version \in Nat /\ s.version = r.version + 1
         /\ s.state # "IN_FLIGHT"
         /\ s.state = "ACCEPTED" <=> kind = "ACCEPTED"
<1> DEFINE state == IF kind = "ACCEPTED" THEN "ACCEPTED"
                    ELSE IF r.attempts < MaxAttempts /\ now + SendLimit < r.deadline
                    THEN "PENDING" ELSE "EXHAUSTED"
<1>1. r \in Row /\ r.version \in Nat
  BY DEF RowOk, Row
<1>2. s = [r EXCEPT !.state = state, !.version = @ + 1, !.due = now,
                    !.budget = IF state = "PENDING" THEN "ACTIVE" ELSE state]
  BY DEF Resolved
<1>3. /\ state \in {"ACCEPTED", "PENDING", "EXHAUSTED"}
      /\ state = "ACCEPTED" <=> kind = "ACCEPTED"
  OBVIOUS
<1> HIDE DEF state
<1>4. PICK b \in Budgets : b = IF state = "PENDING" THEN "ACTIVE" ELSE state
  BY <1>3 DEF Budgets
<1>5. r.version + 1 \in Nat
  BY <1>1
<1>6. s = [r EXCEPT !.state = state, !.version = @ + 1, !.due = now, !.budget = b]
  BY <1>2, <1>4
<1>7. s \in Row
  BY <1>1, <1>3, <1>5, <1>6 DEF Row, States, Budgets
<1>8. s.state = state /\ s.version = r.version + 1 /\ s.budget = b
  BY <1>1, <1>6 DEF Row
<1>9. SessionFits(s)
  BY <1>3, <1>4, <1>8 DEF SessionFits
<1> QED
  BY <1>1, <1>3, <1>7, <1>8, <1>9 DEF RowOk

\* A new session of an exhausted delivery.
LEMMA RenewedRow ==
  ASSUME NEW r, RowOk(r), r.session < MaxSessions, now \in Nat, NEW s, s = Renewed(r)
  PROVE  /\ RowOk(s) /\ s.state = "PENDING"
         /\ r.version \in Nat /\ s.version = r.version + 1
<1>1. /\ r \in Row /\ r.version \in Nat /\ r.version + 1 \in Nat
      /\ r.session + 1 \in 1..MaxSessions /\ now + Lifetime \in Nat
      /\ 0 \in 0..MaxAttempts
  <2>1. /\ MaxSessions \in Nat /\ r.session \in 1..MaxSessions /\ r \in Row
        /\ r.version \in Nat /\ Lifetime \in Nat /\ MaxAttempts \in Nat
    BY BoundsAssumption DEF RowOk, Row
  <2> QED
    BY <2>1
<1>2. s \in Row
  BY <1>1 DEF Renewed, Row, States
<1>3. s.state = "PENDING" /\ s.budget = "ACTIVE" /\ s.version = r.version + 1
  BY <1>1 DEF Renewed, Row
<1> QED
  BY <1>1, <1>2, <1>3 DEF RowOk, SessionFits

\* A delivery that is given up, its session not being told yet.
LEMMA GivenUpRow ==
  ASSUME NEW r, RowOk(r), r.state = "PENDING", NEW s, s = GivenUp(r)
  PROVE  RowOk(s) /\ s.state = "EXHAUSTED" /\ s.version = r.version + 1
<1>1. r \in Row /\ r.version \in Nat /\ r.version + 1 \in Nat /\ r.budget = "ACTIVE"
  BY DEF RowOk, SessionFits, Row
<1>2. s \in Row
  BY <1>1 DEF GivenUp, Row, States
<1>3. s.state = "EXHAUSTED" /\ s.version = r.version + 1 /\ s.budget = "ACTIVE"
  BY <1>1 DEF GivenUp, Row
<1> QED
  BY <1>2, <1>3 DEF RowOk, SessionFits

\* A claim that is not too late pays for a call that ends in time.
LEMMA ClaimedRow ==
  ASSUME NEW r, RowOk(r), r.state = "PENDING", r.attempts < MaxAttempts, NEW t \in Nat,
         ~TooLate(r, t), NEW p \in Workers, NEW s, s = Claimed(r, p, t)
  PROVE  /\ RowOk(s) /\ s.state = "IN_FLIGHT" /\ s.claim = p
         /\ s.version = r.version + 1
         /\ t + SendLimit <= s.lease /\ t + SendLimit <= s.deadline
<1>1. /\ r \in Row /\ r.version \in Nat /\ r.version + 1 \in Nat
      /\ r.attempts + 1 \in 0..MaxAttempts /\ r.attempts + 1 > 0
      /\ r.deadline \in Nat /\ r.budget = "ACTIVE"
  <2>1. /\ r \in Row /\ r.version \in Nat /\ r.attempts \in 0..MaxAttempts
        /\ MaxAttempts \in Nat /\ r.deadline \in Nat
    BY BoundsAssumption DEF RowOk, Row
  <2>2. r.budget = "ACTIVE"
    BY DEF RowOk, SessionFits
  <2> QED
    BY <2>1, <2>2
<1>2. PICK lease : lease = LeaseUntil(r, t)
  OBVIOUS
<1>3. /\ lease \in Nat /\ t + SendLimit <= r.deadline /\ t + SendLimit <= lease
  BY <1>1, <1>2 DEF LeaseUntil, Least, Lease, TooLate, SendLimit
<1>4. s = [r EXCEPT !.state = "IN_FLIGHT", !.version = @ + 1, !.claim = p,
                    !.attempts = @ + 1, !.lease = lease]
  BY <1>2 DEF Claimed
<1>5. s \in Row
  BY <1>1, <1>3, <1>4 DEF Row, States
<1>6. /\ s.state = "IN_FLIGHT" /\ s.version = r.version + 1 /\ s.budget = "ACTIVE"
      /\ s.claim = p /\ s.lease = lease /\ s.attempts = r.attempts + 1
      /\ s.deadline = r.deadline
  BY <1>1, <1>4 DEF Row
<1> QED
  BY <1>1, <1>3, <1>5, <1>6 DEF RowOk, SessionFits

(***************************************************************************)
(* A step of one process, as the others see it.                            *)
(***************************************************************************)
WorkerStep(p) ==
  /\ now' = now /\ crashes' \in 0..MaxCrashes
  /\ proc' \in [Workers -> Process]
  /\ \A q \in Workers : q # p => proc'[q] = proc[q]
  /\ rows' \in [Deliveries -> Row \cup {None}]
  /\ Queued' = Queued
  /\ \A d \in Queued : RowOk(rows'[d]) /\ Follows(rows[d], rows'[d], p)
  /\ \/ accepted' = accepted
     \/ proc[p].at = "calling" /\ accepted' = accepted \cup {proc[p].delivery}

\* What the columns of a row and of a process are.
LEMMA Columns ==
  ASSUME DispatchInv
  PROVE  /\ now \in Nat /\ MaxTime \in Nat /\ now <= MaxTime
         /\ \A d \in Queued : /\ d \in Deliveries /\ RowOk(rows[d])
                              /\ rows[d].version \in Nat /\ rows[d].deadline \in Nat
         /\ \A p \in Workers : /\ proc[p] \in Process /\ proc[p].version \in Nat
                               /\ proc[p].since \in Nat
                               /\ proc[p].delivery \in Deliveries \cup {None}
                               /\ proc[p].since \in 0..MaxTime
<1>1. now \in Nat /\ MaxTime \in Nat /\ now <= MaxTime
  BY BoundsAssumption DEF DispatchInv, TypeOK
<1>2. ASSUME NEW d \in Queued
      PROVE  /\ d \in Deliveries /\ RowOk(rows[d])
             /\ rows[d].version \in Nat /\ rows[d].deadline \in Nat
  BY DEF DispatchInv, Queued, RowOk, Row
<1>3. ASSUME NEW p \in Workers
      PROVE  /\ proc[p] \in Process /\ proc[p].version \in Nat /\ proc[p].since \in Nat
             /\ proc[p].delivery \in Deliveries \cup {None} /\ proc[p].since \in 0..MaxTime
  <2>1. proc[p] \in Process
    BY DEF DispatchInv, TypeOK
  <2> QED
    BY <1>1, <2>1 DEF Process
<1> QED
  BY <1>1, <1>2, <1>3

\* What the invariant says of the other processes, a step does not change.
LEMMA DispatchKept ==
  ASSUME DispatchInv, NEW p \in Workers, WorkerStep(p), ProcOk(p)', AcceptedIsTrue',
         InFlightFits'
  PROVE  DispatchInv'
<1>1. ProcOk(p) /\ \A q \in Workers : ProcOk(q)
  BY DEF DispatchInv
<1>2. accepted \subseteq accepted' /\ accepted' \subseteq Queued'
  <2>1. accepted \subseteq Queued
    BY DEF DispatchInv
  <2>2. proc[p].at = "calling" => proc[p].delivery \in Queued
    BY <1>1 DEF ProcOk, Engaged
  <2> QED
    BY <2>1, <2>2 DEF WorkerStep
<1>3. TypeOK'
  <2>1. accepted' \subseteq Deliveries
    BY <1>2 DEF WorkerStep, Queued
  <2>2. now' \in 0..MaxTime
    BY DEF DispatchInv, TypeOK, WorkerStep
  <2> QED
    BY <2>1, <2>2 DEF WorkerStep, TypeOK
<1>4. \A d \in Queued' : RowOk(rows[d])'
  BY DEF WorkerStep
<1>5. ASSUME NEW q \in Workers, q # p
      PROVE  ProcOk(q)'
  <2>1. proc'[q] = proc[q] /\ now' = now /\ ProcOk(q)
    BY <1>1, <1>5 DEF WorkerStep
  <2>2. proc[q].at \in Engaged => /\ proc[q].delivery \in Queued'
                                  /\ proc[q].version <= rows'[proc[q].delivery].version
    <3> SUFFICES ASSUME proc[q].at \in Engaged
                 PROVE  /\ proc[q].delivery \in Queued'
                        /\ proc[q].version <= rows'[proc[q].delivery].version
      OBVIOUS
    <3>1. PICK d \in Queued : d = proc[q].delivery /\ proc[q].version <= rows[d].version
      BY <2>1 DEF ProcOk
    <3>2. d \in Queued' /\ RowOk(rows'[d]) /\ rows'[d].version >= rows[d].version
      BY DEF WorkerStep, Follows
    <3>3. rows'[d].version \in Nat /\ rows[d].version \in Nat /\ proc[q].version \in Nat
      BY <3>2, Columns DEF RowOk, Row
    <3> QED
      BY <3>1, <3>2, <3>3
  <2> QED
    BY <1>2, <2>1, <2>2 DEF ProcOk, WorkerStep
<1> QED
  BY <1>2, <1>3, <1>4, <1>5 DEF DispatchInv

\* A call of another process keeps its row, and its negative answers stand.
LEMMA CallsKept ==
  ASSUME DispatchInv, CallInv, NEW p \in Workers, WorkerStep(p), CallOk(p)',
         RetryableNotAccepted'
  PROVE  CallInv'
<1> SUFFICES ASSUME NEW q \in Workers, q # p PROVE CallOk(q)'
  BY DEF CallInv
<1>1. proc'[q] = proc[q] /\ now' = now /\ ProcOk(q) /\ CallOk(q) /\ CallOk(p)
  BY DEF WorkerStep, DispatchInv, CallInv
<1>2. PICK d : d = proc[q].delivery
  OBVIOUS
<1>3. proc[q].at \in Engaged => d \in Queued /\ proc[q].version <= rows[d].version
  BY <1>1, <1>2 DEF ProcOk
<1>4. proc[q].at = "calling" => OwnsRow(q)' /\ rows[d].claim = q
  <2> SUFFICES ASSUME proc[q].at = "calling" PROVE OwnsRow(q)' /\ rows[d].claim = q
    OBVIOUS
  <2>1. OwnsRow(q) /\ d \in Queued
    BY <1>1, <1>3 DEF CallOk, Engaged
  <2>2. /\ rows[d].state = "IN_FLIGHT" /\ rows[d].claim = q
        /\ now < proc[q].since + SendLimit /\ proc[q].since + SendLimit <= rows[d].lease
    BY <1>2, <2>1 DEF OwnsRow
  <2>3. rows[d].lease \in Nat /\ now \in Nat /\ proc[q].since \in Nat
    BY <2>1, <2>2, Columns DEF RowOk
  <2>4. rows[d].lease > now
    BY <2>2, <2>3 DEF SendLimit
  <2>5. rows'[d] = rows[d]
    BY <2>1, <2>2, <2>4 DEF WorkerStep, Follows
  <2> QED
    BY <1>1, <1>2, <2>1, <2>2, <2>5 DEF OwnsRow, Current
<1>5. Refused(q)' => Refused(q) /\ d \in Queued
  <2> SUFFICES ASSUME Refused(q)' PROVE Refused(q) /\ d \in Queued
    OBVIOUS
  <2>1. d \in Queued /\ proc[q].version <= rows[d].version
    BY <1>1, <1>3 DEF Refused, Engaged
  <2>2. rows'[d].version = proc[q].version
    BY <1>1, <1>2 DEF Refused, Current
  <2>3. rows'[d].version >= rows[d].version /\ rows[d].version \in Nat
    BY <2>1, Columns DEF WorkerStep, Follows
  <2>4. rows'[d].version = rows[d].version
    BY <2>1, <2>2, <2>3, Columns
  <2>5. rows'[d].state = rows[d].state /\ rows'[d].claim = rows[d].claim
    BY <2>1, <2>4 DEF WorkerStep, Follows
  <2> QED
    BY <1>1, <1>2, <2>1, <2>2, <2>4, <2>5 DEF Refused, Current
<1>6. accepted' # accepted =>
        /\ accepted' = accepted \cup {proc[p].delivery}
        /\ rows[proc[p].delivery].state = "IN_FLIGHT"
        /\ rows[proc[p].delivery].claim = p
  BY <1>1 DEF WorkerStep, CallOk, OwnsRow
<1>7. Refused(q) => rows[d].state = "UNKNOWN" \/ rows[d].claim = q
  BY <1>2 DEF Refused
<1>8. Refused(q) \/ proc[q].at = "calling" => d \notin accepted
  BY <1>1, <1>2 DEF CallOk
<1>9. Refused(q)' \/ proc'[q].at = "calling" => d \notin accepted'
  BY <1>1, <1>4, <1>5, <1>6, <1>7, <1>8
<1> QED
  BY <1>1, <1>2, <1>4, <1>9 DEF CallOk

\* Both together.
LEMMA StepKept ==
  ASSUME IInv, NEW p \in Workers, WorkerStep(p), ProcOk(p)', AcceptedIsTrue', InFlightFits',
         Prompt /\ CallInv => CallOk(p)' /\ RetryableNotAccepted'
  PROVE  IInv'
BY DispatchKept, CallsKept DEF IInv, Prompt

\* A step that changes no row.
LEMMA NoRowChanges ==
  ASSUME IInv, NEW p \in Workers, now' = now, rows' = rows, crashes' \in 0..MaxCrashes,
         NEW b \in Process, proc' = [proc EXCEPT ![p] = b],
         \/ accepted' = accepted
         \/ proc[p].at = "calling" /\ accepted' = accepted \cup {proc[p].delivery},
         ProcOk(p)', Prompt /\ CallInv => CallOk(p)'
  PROVE  IInv'
<1>1. DispatchInv
  BY DEF IInv
<1>2. Queued' = Queued
  BY DEF Queued
<1>3. WorkerStep(p)
  <2>1. proc' \in [Workers -> Process] /\ \A q \in Workers : q # p => proc'[q] = proc[q]
    BY <1>1 DEF DispatchInv, TypeOK
  <2>2. \A d \in Queued : RowOk(rows'[d]) /\ Follows(rows[d], rows'[d], p)
    BY <1>1, Columns DEF Follows
  <2> QED
    BY <1>1, <1>2, <2>1, <2>2 DEF DispatchInv, TypeOK, WorkerStep
<1>4. AcceptedIsTrue'
  BY <1>1, <1>2, <1>3 DEF DispatchInv, AcceptedIsTrue, WorkerStep
<1>5. InFlightFits'
  BY <1>1, <1>2 DEF DispatchInv, InFlightFits, InFlight
<1>6. CallInv => RetryableNotAccepted'
  <2>1. CallInv /\ proc[p].at = "calling" => rows[proc[p].delivery].state = "IN_FLIGHT"
    BY DEF CallInv, CallOk, OwnsRow
  <2> QED
    BY <1>2, <1>3, <2>1 DEF CallInv, RetryableNotAccepted, WorkerStep
<1> QED
  BY <1>3, <1>4, <1>5, <1>6, StepKept

\* Fewer calls in flight are within the limit too.
LEMMA NoMoreInFlight ==
  ASSUME InFlightFits, InFlight' \subseteq InFlight
  PROVE  InFlightFits'
<1>1. PICK S, T : S = InFlight /\ T = InFlight'
  OBVIOUS
<1>2. IsFiniteSet(S) /\ Cardinality(S) <= InFlightLimit /\ T \in SUBSET S
  BY <1>1 DEF InFlightFits
<1>3. IsFiniteSet(T) /\ Cardinality(T) <= Cardinality(S)
  BY <1>2, FS_Subset
<1>4. Cardinality(S) \in Nat /\ Cardinality(T) \in Nat /\ InFlightLimit \in Nat
  BY <1>2, <1>3, FS_CardinalityType, BoundsAssumption
<1> QED
  BY <1>1, <1>2, <1>3, <1>4 DEF InFlightFits

\* A step that changes one row and does not put it in flight.
LEMMA OneRowChanges ==
  ASSUME IInv, NEW p \in Workers, UNCHANGED <<now, accepted, crashes>>,
         NEW b \in Process, proc' = [proc EXCEPT ![p] = b],
         NEW d \in Queued, NEW s, rows' = [rows EXCEPT ![d] = s], RowOk(s),
         Follows(rows[d], s, p), s.state = "IN_FLIGHT" => rows[d].state = "IN_FLIGHT",
         s.state = "ACCEPTED" => d \in accepted,
         Prompt /\ CallInv /\ s.state \in {"PENDING", "EXHAUSTED"} => d \notin accepted,
         ProcOk(p)', Prompt /\ CallInv => CallOk(p)'
  PROVE  IInv'
<1>1. DispatchInv /\ d \in Deliveries
  BY DEF IInv, Queued
<1>2. /\ rows' \in [Deliveries -> Row \cup {None}] /\ rows'[d] = s /\ s # None
      /\ \A e \in Deliveries : e # d => rows'[e] = rows[e]
  BY <1>1, NoneIsNoRow DEF DispatchInv, TypeOK, RowOk
<1>3. Queued' = Queued
  BY <1>2 DEF Queued
<1>4. WorkerStep(p)
  <2>1. proc' \in [Workers -> Process] /\ \A q \in Workers : q # p => proc'[q] = proc[q]
    BY <1>1 DEF DispatchInv, TypeOK
  <2>2. \A e \in Queued : RowOk(rows'[e]) /\ Follows(rows[e], rows'[e], p)
    <3> SUFFICES ASSUME NEW e \in Queued PROVE RowOk(rows'[e]) /\ Follows(rows[e], rows'[e], p)
      OBVIOUS
    <3>1. CASE e = d
      BY <1>2, <3>1
    <3>2. CASE e # d
      <4>1. rows'[e] = rows[e] /\ RowOk(rows[e]) /\ rows[e].version \in Nat
        BY <1>1, <1>2, <3>2, Columns
      <4> QED
        BY <4>1 DEF Follows
    <3> QED
      BY <3>1, <3>2
  <2> QED
    BY <1>1, <1>2, <1>3, <2>1, <2>2 DEF DispatchInv, TypeOK, WorkerStep
<1>5. AcceptedIsTrue'
  BY <1>1, <1>2, <1>3 DEF DispatchInv, AcceptedIsTrue, Queued
<1>6. InFlightFits'
  <2>1. InFlight' \subseteq InFlight
    BY <1>1, <1>2, <1>3 DEF InFlight, Queued
  <2> QED
    BY <1>1, <2>1, NoMoreInFlight DEF DispatchInv
<1>7. Prompt /\ CallInv => RetryableNotAccepted'
  BY <1>1, <1>2, <1>3 DEF CallInv, RetryableNotAccepted, Queued
<1> QED
  BY <1>4, <1>5, <1>6, <1>7, StepKept

(***************************************************************************)
(* The steps of a process.                                                 *)
(***************************************************************************)

\* A process that returns knows nothing.
LEMMA Returned ==
  ASSUME DispatchInv, NEW p \in Workers, Return(p), now' = now
  PROVE  /\ Idle \in Process /\ proc' = [proc EXCEPT ![p] = Idle]
         /\ ProcOk(p)' /\ CallOk(p)'
<1>1. Idle \in Process
  BY BoundsAssumption DEF Idle, Process, Labels
<1>2. proc'[p] = Idle /\ proc' = [proc EXCEPT ![p] = Idle]
  BY DEF Return, DispatchInv, TypeOK
<1>3. proc'[p].at = "idle" /\ proc'[p].since = 0
  BY <1>2 DEF Idle
<1>4. ProcOk(p)'
  BY <1>3, Columns DEF ProcOk, Engaged
<1>5. CallOk(p)'
  BY <1>3 DEF CallOk, Refused
<1> QED
  BY <1>1, <1>2, <1>4, <1>5

\* send_once reads the clock and previews a delivery.
LEMMA PreviewStep ==
  ASSUME IInv, NEW p \in Workers, Preview(p)
  PROVE  IInv'
<1>1. DispatchInv
  BY DEF IInv
<1>2. PICK d \in Queued \cup {None} :
        proc' = [proc EXCEPT ![p] = [Idle EXCEPT
          !.at = "authorizing", !.delivery = d, !.since = now]]
  BY DEF Preview, First, Due
<1>3. PICK b : b = [Idle EXCEPT !.at = "authorizing", !.delivery = d, !.since = now]
  OBVIOUS
<1>4. b \in Process /\ b.at = "authorizing" /\ b.since = now /\ b.delivery = d
  <2>1. b = [at |-> "authorizing", delivery |-> d, version |-> 0, since |-> now,
             answer |-> None]
    BY <1>3 DEF Idle
  <2>2. now \in 0..MaxTime /\ d \in Deliveries \cup {None}
    BY <1>1 DEF DispatchInv, TypeOK, Queued
  <2>3. b \in Process
    BY <2>1, <2>2 DEF Process, Labels
  <2> QED
    BY <2>1, <2>3
<1>5. proc' = [proc EXCEPT ![p] = b] /\ proc'[p] = b
  BY <1>1, <1>2, <1>3 DEF DispatchInv, TypeOK
<1>6. UNCHANGED <<now, rows, accepted, crashes>>
  BY DEF Preview
<1>7. ProcOk(p)' /\ CallOk(p)'
  BY <1>1, <1>4, <1>5, <1>6, Columns DEF ProcOk, CallOk, Refused, Engaged, Queued
<1> QED
  BY <1>1, <1>4, <1>5, <1>6, <1>7, NoRowChanges DEF DispatchInv, TypeOK

\* A refused authorization ends the call.
LEMMA DeniedStep ==
  ASSUME IInv, NEW p \in Workers, Denied(p)
  PROVE  IInv'
<1>1. DispatchInv /\ Return(p) /\ UNCHANGED <<now, rows, accepted, crashes>>
  BY DEF IInv, Denied
<1> QED
  BY <1>1, Returned, NoRowChanges DEF DispatchInv, TypeOK

\* The transport answers.
LEMMA AnswerStep ==
  ASSUME IInv, NEW p \in Workers, NEW kind \in Kinds, Answer(p, kind)
  PROVE  IInv'
<1>1. DispatchInv /\ proc[p] \in Process
  BY Columns DEF IInv
<1>2. PICK b : b = [proc[p] EXCEPT !.at = "answered", !.answer = kind]
  OBVIOUS
<1>3. /\ b \in Process /\ b.at = "answered" /\ b.answer = kind
      /\ b.delivery = proc[p].delivery /\ b.since = proc[p].since
      /\ b.version = proc[p].version
  BY <1>1, <1>2 DEF Process, Labels
<1>4. proc' = [proc EXCEPT ![p] = b] /\ proc'[p] = b
  BY <1>1, <1>2 DEF Answer, DispatchInv, TypeOK
<1>5. /\ UNCHANGED <<now, rows, crashes>> /\ proc[p].at = "calling"
      /\ kind \in {"TRANSIENT_NOT_ACCEPTED", "PERMANENT"} => accepted' = accepted
      /\ kind = "ACCEPTED" => proc[p].delivery \in accepted'
      /\ \/ accepted' = accepted
         \/ accepted' = accepted \cup {proc[p].delivery}
  BY DEF Answer
<1>6. ProcOk(p)'
  <2>1. /\ ProcOk(p) /\ proc[p].delivery \in Queued
        /\ proc[p].version <= rows[proc[p].delivery].version
    BY <1>1, <1>5 DEF DispatchInv, ProcOk, Engaged
  <2>2. proc[p].since <= now
    BY <2>1 DEF ProcOk
  <2> QED
    BY <1>3, <1>4, <1>5, <2>1, <2>2 DEF ProcOk, Queued
<1>7. CallInv => CallOk(p)'
  <2>1. CallInv => proc[p].delivery \notin accepted
    BY <1>5 DEF CallInv, CallOk
  <2> QED
    BY <1>3, <1>4, <1>5, <2>1 DEF CallOk, Refused
<1> QED
  BY <1>1, <1>3, <1>4, <1>5, <1>6, <1>7, NoRowChanges DEF DispatchInv, TypeOK

\* _finish: the fence lets an outcome count only for the row the call was made for.
LEMMA FinishStep ==
  ASSUME IInv, NEW p \in Workers, Finish(p)
  PROVE  IInv'
<1>1. DispatchInv /\ Return(p) /\ UNCHANGED <<now, accepted, crashes>>
        /\ proc[p].at = "answered"
  BY DEF IInv, Finish
<1>2. CASE UNCHANGED rows
  BY <1>1, <1>2, Returned, NoRowChanges DEF DispatchInv, TypeOK
<1>3. ASSUME Fresh(p), NEW after \in Nat,
             rows' = [rows EXCEPT ![proc[p].delivery] =
                        Finished(rows[proc[p].delivery], proc[p].answer, after)]
      PROVE  IInv'
  <2>1. PICK d \in Queued : d = proc[p].delivery
    BY <1>1 DEF DispatchInv, ProcOk, Engaged
  <2>2. PICK s : s = Finished(rows[d], proc[p].answer, after)
    OBVIOUS
  <2>3. /\ rows[d].state = "IN_FLIGHT" /\ rows[d].claim = p
        /\ rows[d].version = proc[p].version
    BY <1>3, <2>1 DEF Fresh
  <2>4. RowOk(rows[d]) /\ now \in Nat /\ proc[p].answer \in Kinds
    BY <1>1, Columns DEF DispatchInv, ProcOk
  <2>5. /\ RowOk(s)
        /\ rows[d].version \in Nat /\ s.version = rows[d].version + 1
        /\ s.state # "IN_FLIGHT"
        /\ s.state = "ACCEPTED" => proc[p].answer = "ACCEPTED"
        /\ s.state \in {"PENDING", "EXHAUSTED"} => proc[p].answer = "TRANSIENT_NOT_ACCEPTED"
    BY <2>2, <2>3, <2>4, FinishedRow
  <2>6. Follows(rows[d], s, p)
    BY <2>3, <2>5 DEF Follows
  <2>7. s.state = "ACCEPTED" => d \in accepted
    BY <1>1, <2>1, <2>5 DEF DispatchInv, ProcOk
  <2>8. CallInv /\ s.state \in {"PENDING", "EXHAUSTED"} => d \notin accepted
    BY <1>1, <2>1, <2>3, <2>5 DEF CallInv, CallOk, Refused, Current
  <2>9. rows' = [rows EXCEPT ![d] = s]
    BY <1>3, <2>1, <2>2
  <2> QED
    BY <1>1, <2>5, <2>6, <2>7, <2>8, <2>9, Returned, OneRowChanges
<1>4. RetryAfters \subseteq Nat
  BY BoundsAssumption
<1> QED
  BY <1>2, <1>3, <1>4 DEF Finish

\* A query is counted and made.
LEMMA ReconcileStep ==
  ASSUME IInv, NEW p \in Workers, NEW d \in Deliveries, Reconcile(p, d)
  PROVE  IInv'
<1>1. /\ DispatchInv /\ UNCHANGED <<now, accepted, crashes>> /\ d \in Queued
      /\ rows[d].state = "UNKNOWN" /\ rows[d].queries < MaxQueries
  BY DEF IInv, Reconcile
<1>2. PICK b : b = [Idle EXCEPT !.at = "querying", !.delivery = d,
                                !.version = rows[d].version]
  OBVIOUS
<1>3. /\ b \in Process /\ b.at = "querying" /\ b.delivery = d /\ b.since = 0
      /\ b.version = rows[d].version
  <2>1. b = [at |-> "querying", delivery |-> d, version |-> rows[d].version, since |-> 0,
             answer |-> None]
    BY <1>2 DEF Idle
  <2>2. rows[d].version \in Nat /\ 0 \in 0..MaxTime
    BY <1>1, Columns
  <2> QED
    BY <2>1, <2>2 DEF Process, Labels
<1>4. proc' = [proc EXCEPT ![p] = b] /\ proc'[p] = b
  BY <1>1, <1>2 DEF Reconcile, DispatchInv, TypeOK
<1>5. PICK s : s = [rows[d] EXCEPT !.queries = @ + 1]
  OBVIOUS
<1>6. RowOk(rows[d]) /\ rows[d] \in Row /\ rows[d].version \in Nat
  BY <1>1, Columns DEF RowOk
<1>7. rows[d].queries + 1 \in 0..MaxQueries
  <2>1. MaxQueries \in Nat /\ rows[d].queries \in 0..MaxQueries
    BY <1>6, BoundsAssumption DEF Row
  <2> QED
    BY <1>1, <2>1
<1>8. s \in Row
  BY <1>5, <1>6, <1>7 DEF Row
<1>9. /\ s.state = "UNKNOWN" /\ s.version = rows[d].version /\ s.claim = rows[d].claim
      /\ s.budget = rows[d].budget
  BY <1>1, <1>5, <1>6 DEF Row
<1>10. RowOk(s) /\ Follows(rows[d], s, p)
  BY <1>1, <1>6, <1>8, <1>9 DEF RowOk, SessionFits, Follows
<1>11. rows' = [rows EXCEPT ![d] = s]
  BY <1>5 DEF Reconcile
<1>12. d \in Queued' /\ rows'[d] = s
  BY <1>1, <1>8, <1>11, NoneIsNoRow DEF DispatchInv, TypeOK, Queued
<1>13. ProcOk(p)' /\ CallOk(p)'
  BY <1>1, <1>3, <1>4, <1>6, <1>9, <1>12, Columns DEF ProcOk, CallOk, Refused, Engaged
<1> QED
  BY <1>1, <1>3, <1>4, <1>9, <1>10, <1>11, <1>13, OneRowChanges

\* The provider answers a query, or does not.
LEMMA QueryStep ==
  ASSUME IInv, NEW p \in Workers, Query(p)
  PROVE  IInv'
<1>1. DispatchInv /\ proc[p] \in Process /\ UNCHANGED <<now, rows, accepted, crashes>>
        /\ proc[p].at = "querying" /\ crashes \in 0..MaxCrashes
  BY Columns DEF IInv, Query, DispatchInv, TypeOK
<1>2. CASE Return(p)
  BY <1>1, <1>2, Returned, NoRowChanges
<1>3. CASE ~Return(p)
  <2>1. PICK kind : kind = IF proc[p].delivery \in accepted THEN "ACCEPTED"
                           ELSE "TRANSIENT_NOT_ACCEPTED"
    OBVIOUS
  <2>2. PICK b : b = [proc[p] EXCEPT !.at = "resolved", !.answer = kind]
    OBVIOUS
  <2>3. /\ b \in Process /\ b.at = "resolved" /\ b.answer = kind
        /\ b.delivery = proc[p].delivery /\ b.since = proc[p].since
        /\ b.version = proc[p].version
    BY <1>1, <2>1, <2>2 DEF Process, Labels, Kinds
  <2>4. proc' = [proc EXCEPT ![p] = b] /\ proc'[p] = b
    BY <1>1, <1>3, <2>1, <2>2 DEF Query, DispatchInv, TypeOK
  <2>5. /\ proc[p].delivery \in Queued /\ proc[p].since <= now
        /\ proc[p].version <= rows[proc[p].delivery].version
    BY <1>1 DEF DispatchInv, ProcOk, Engaged
  <2>6. ProcOk(p)'
    BY <1>1, <2>1, <2>3, <2>4, <2>5 DEF ProcOk, Queued
  <2>7. CallOk(p)'
    BY <1>1, <2>1, <2>3, <2>4 DEF CallOk, Refused
  <2> QED
    BY <1>1, <2>3, <2>4, <2>6, <2>7, NoRowChanges
<1> QED
  BY <1>2, <1>3

\* The answer counts while the delivery is UNKNOWN in the version asked about.
LEMMA ResolveStep ==
  ASSUME IInv, NEW p \in Workers, Resolve(p)
  PROVE  IInv'
<1>1. DispatchInv /\ Return(p) /\ UNCHANGED <<now, accepted, crashes>>
        /\ proc[p].at = "resolved"
  BY DEF IInv, Resolve
<1>2. CASE UNCHANGED rows
  BY <1>1, <1>2, Returned, NoRowChanges DEF DispatchInv, TypeOK
<1>3. CASE /\ rows[proc[p].delivery].state = "UNKNOWN" /\ Current(p)
           /\ rows' = [rows EXCEPT ![proc[p].delivery] =
                         Resolved(rows[proc[p].delivery], proc[p].answer)]
  <2>1. PICK d \in Queued : d = proc[p].delivery
    BY <1>1 DEF DispatchInv, ProcOk, Engaged
  <2>2. PICK s : s = Resolved(rows[d], proc[p].answer)
    OBVIOUS
  <2>3. rows[d].state = "UNKNOWN" /\ RowOk(rows[d]) /\ now \in Nat
    BY <1>1, <1>3, <2>1, Columns
  <2>4. /\ RowOk(s)
        /\ rows[d].version \in Nat /\ s.version = rows[d].version + 1
        /\ s.state # "IN_FLIGHT"
        /\ s.state = "ACCEPTED" <=> proc[p].answer = "ACCEPTED"
    BY <2>2, <2>3, ResolvedRow
  <2>5. Follows(rows[d], s, p)
    BY <2>3, <2>4 DEF Follows
  <2>6. proc[p].answer \in {"ACCEPTED", "TRANSIENT_NOT_ACCEPTED"}
    BY <1>1 DEF DispatchInv, ProcOk
  <2>7. s.state = "ACCEPTED" => d \in accepted
    BY <1>1, <2>1, <2>4 DEF DispatchInv, ProcOk
  <2>8. CallInv /\ s.state \in {"PENDING", "EXHAUSTED"} => d \notin accepted
    BY <1>1, <1>3, <2>1, <2>4, <2>6 DEF CallInv, CallOk, Refused
  <2>9. rows' = [rows EXCEPT ![d] = s]
    BY <1>3, <2>1, <2>2
  <2> QED
    BY <1>1, <2>4, <2>5, <2>7, <2>8, <2>9, Returned, OneRowChanges
<1> QED
  BY <1>2, <1>3 DEF Resolve, Current

\* An operator sees an exhausted delivery.
LEMMA AskRenewalStep ==
  ASSUME IInv, NEW p \in Workers, NEW d \in Deliveries, AskRenewal(p, d)
  PROVE  IInv'
<1>1. DispatchInv /\ UNCHANGED <<now, rows, accepted, crashes>> /\ d \in Queued
        /\ crashes \in 0..MaxCrashes
  BY DEF IInv, AskRenewal, DispatchInv, TypeOK
<1>2. PICK b : b = [Idle EXCEPT !.at = "renewing", !.delivery = d,
                                !.version = rows[d].version]
  OBVIOUS
<1>3. /\ b \in Process /\ b.at = "renewing" /\ b.delivery = d /\ b.since = 0
      /\ b.version = rows[d].version
  <2>1. b = [at |-> "renewing", delivery |-> d, version |-> rows[d].version, since |-> 0,
             answer |-> None]
    BY <1>2 DEF Idle
  <2>2. rows[d].version \in Nat /\ 0 \in 0..MaxTime
    BY <1>1, Columns
  <2> QED
    BY <2>1, <2>2 DEF Process, Labels
<1>4. proc' = [proc EXCEPT ![p] = b] /\ proc'[p] = b
  BY <1>1, <1>2 DEF AskRenewal, DispatchInv, TypeOK
<1>5. ProcOk(p)' /\ CallOk(p)'
  BY <1>1, <1>3, <1>4, Columns DEF ProcOk, CallOk, Refused, Engaged, Queued
<1> QED
  BY <1>1, <1>3, <1>4, <1>5, NoRowChanges

\* A renewal gives an exhausted delivery a new session.
LEMMA RenewStep ==
  ASSUME IInv, NEW p \in Workers, Renew(p)
  PROVE  IInv'
<1>1. DispatchInv /\ Return(p) /\ UNCHANGED <<now, accepted, crashes>>
        /\ proc[p].at = "renewing"
  BY DEF IInv, Renew
<1>2. CASE UNCHANGED rows
  BY <1>1, <1>2, Returned, NoRowChanges DEF DispatchInv, TypeOK
<1>3. PICK d \in Queued : d = proc[p].delivery
  BY <1>1 DEF DispatchInv, ProcOk, Engaged
<1>4. PICK s : s = Renewed(rows[d])
  OBVIOUS
<1>5. CASE /\ rows[d].state = "EXHAUSTED" /\ rows[d].session < MaxSessions
           /\ rows' = [rows EXCEPT ![d] = s]
  <2>1. RowOk(rows[d]) /\ rows[d] \in Row /\ now \in Nat
    BY <1>1, Columns DEF RowOk
  <2>2. /\ RowOk(s) /\ s.state = "PENDING"
        /\ rows[d].version \in Nat /\ s.version = rows[d].version + 1
    BY <1>4, <1>5, <2>1, RenewedRow
  <2>3. Follows(rows[d], s, p)
    BY <1>5, <2>2 DEF Follows
  <2>4. CallInv => d \notin accepted
    BY <1>5 DEF CallInv, RetryableNotAccepted
  <2> QED
    BY <1>1, <1>5, <2>2, <2>3, <2>4, Returned, OneRowChanges
<1>6. \/ UNCHANGED rows
      \/ /\ rows[d].state = "EXHAUSTED" /\ rows[d].session < MaxSessions
         /\ rows' = [rows EXCEPT ![d] = s]
  BY <1>3, <1>4 DEF Renew
<1> QED
  BY <1>2, <1>3, <1>4, <1>5, <1>6

\* A process dies, in the middle of a call perhaps.
LEMMA CrashStep ==
  ASSUME IInv, NEW p \in Workers, Crash(p)
  PROVE  IInv'
<1>1. /\ DispatchInv /\ Return(p) /\ UNCHANGED <<now, rows>>
      /\ \/ accepted' = accepted
         \/ proc[p].at = "calling" /\ accepted' = accepted \cup {proc[p].delivery}
  BY DEF IInv, Crash
<1>2. crashes' \in 0..MaxCrashes
  BY BoundsAssumption DEF IInv, DispatchInv, TypeOK, Crash
<1> QED
  BY <1>1, <1>2, Returned, NoRowChanges

(***************************************************************************)
(* The transaction that claims a delivery.                                 *)
(***************************************************************************)
SweptAll(t) == [e \in Deliveries |-> IF rows[e] = None THEN None ELSE Swept(rows[e], t)]

\* What the sweep at a clock reading of the past makes of the table.
LEMMA SweptRows ==
  ASSUME DispatchInv, NEW p \in Workers, NEW t \in Nat, t <= now, NEW sw, sw = SweptAll(t)
  PROVE  /\ sw \in [Deliveries -> Row \cup {None}]
         /\ Queued = {e \in Deliveries : sw[e] # None}
         /\ \A e \in Queued :
              /\ sw[e] = Swept(rows[e], t)
              /\ RowOk(sw[e]) /\ Follows(rows[e], sw[e], p)
              /\ sw[e].state = "IN_FLIGHT" => sw[e] = rows[e]
              /\ sw[e].state = "PENDING" => sw[e] = rows[e] /\ rows[e].attempts < MaxAttempts
              /\ sw[e].state = "EXHAUSTED" => rows[e].state \in {"PENDING", "EXHAUSTED"}
              /\ sw[e].state = "ACCEPTED" => sw[e] = rows[e]
<1>1. ASSUME NEW e \in Queued
      PROVE  /\ sw[e] = Swept(rows[e], t)
             /\ RowOk(sw[e]) /\ Follows(rows[e], sw[e], p)
             /\ sw[e].state = "IN_FLIGHT" => sw[e] = rows[e]
             /\ sw[e].state = "PENDING" => sw[e] = rows[e] /\ rows[e].attempts < MaxAttempts
             /\ sw[e].state = "EXHAUSTED" => rows[e].state \in {"PENDING", "EXHAUSTED"}
             /\ sw[e].state = "ACCEPTED" => sw[e] = rows[e]
  <2>1. sw[e] = Swept(rows[e], t)
    BY DEF SweptAll, Queued
  <2>2. PICK r, s : r = rows[e] /\ s = sw[e]
    OBVIOUS
  <2>3. RowOk(r) /\ s = Swept(r, t)
    BY <2>1, <2>2, Columns
  <2>4. /\ RowOk(s) /\ s.version >= r.version
        /\ s.version = r.version => s.state = r.state /\ s.claim = r.claim
        /\ r.state = "IN_FLIGHT" /\ r.lease > t => s = r
        /\ s.state = "IN_FLIGHT" => s = r
        /\ s.state = "PENDING" => s = r /\ r.attempts < MaxAttempts
        /\ s.state = "EXHAUSTED" => r.state \in {"PENDING", "EXHAUSTED"}
        /\ s.state \in {"ACCEPTED", "PAUSED"} => s = r
    BY <2>3, SweptRow
  <2>5. r.state = "IN_FLIGHT" /\ r.lease > now => r.lease > t
    BY <2>3, Columns DEF RowOk
  <2>6. Follows(r, s, p)
    BY <2>4, <2>5 DEF Follows
  <2> QED
    BY <2>1, <2>2, <2>4, <2>6
<1>2. \A e \in Queued : sw[e] \in Row /\ sw[e] # None
  BY <1>1, NoneIsNoRow DEF RowOk
<1>3. \A e \in Deliveries : e \notin Queued => sw[e] = None
  BY DEF SweptAll, Queued
<1>4. sw = [e \in Deliveries |-> sw[e]]
  BY DEF SweptAll
<1>5. sw \in [Deliveries -> Row \cup {None}]
  BY <1>2, <1>3, <1>4
<1> QED
  BY <1>1, <1>2, <1>3, <1>5 DEF Queued

\* The sweep alone: the call finds nothing to claim.
LEMMA SweepKept ==
  ASSUME IInv, NEW p \in Workers, NEW t \in Nat, t <= now, rows' = SweptAll(t),
         Return(p), UNCHANGED <<now, accepted, crashes>>
  PROVE  IInv'
<1>1. DispatchInv
  BY DEF IInv
<1>2. PICK sw : sw = SweptAll(t)
  OBVIOUS
<1>3. /\ sw \in [Deliveries -> Row \cup {None}]
      /\ Queued = {e \in Deliveries : sw[e] # None}
      /\ \A e \in Queued :
           /\ RowOk(sw[e]) /\ Follows(rows[e], sw[e], p)
           /\ sw[e].state = "IN_FLIGHT" => sw[e] = rows[e]
           /\ sw[e].state = "PENDING" => sw[e] = rows[e]
           /\ sw[e].state = "EXHAUSTED" => rows[e].state \in {"PENDING", "EXHAUSTED"}
           /\ sw[e].state = "ACCEPTED" => sw[e] = rows[e]
  BY <1>1, <1>2, SweptRows
<1>4. Queued' = Queued /\ rows' = sw
  BY <1>2, <1>3 DEF Queued
<1>5. /\ Idle \in Process /\ proc' = [proc EXCEPT ![p] = Idle] /\ ProcOk(p)' /\ CallOk(p)'
  BY <1>1, Returned
<1>6. WorkerStep(p)
  BY <1>1, <1>3, <1>4, <1>5 DEF DispatchInv, TypeOK, WorkerStep
<1>7. AcceptedIsTrue'
  BY <1>1, <1>3, <1>4 DEF DispatchInv, AcceptedIsTrue
<1>8. InFlightFits'
  <2>1. InFlight' \subseteq InFlight
    BY <1>3, <1>4 DEF InFlight
  <2> QED
    BY <1>1, <2>1, NoMoreInFlight DEF DispatchInv
<1>9. CallInv => RetryableNotAccepted'
  BY <1>3, <1>4 DEF CallInv, RetryableNotAccepted
<1> QED
  BY <1>5, <1>6, <1>7, <1>8, <1>9, StepKept

\* The sweep, and then one PENDING delivery is given up or put in flight.
LEMMA SweepAndChange ==
  ASSUME IInv, NEW p \in Workers, NEW t \in Nat, t <= now,
         NEW d \in Queued, SweptAll(t)[d].state = "PENDING",
         NEW s, rows' = [SweptAll(t) EXCEPT ![d] = s],
         RowOk(s), s.version = rows[d].version + 1, s.state \in {"EXHAUSTED", "IN_FLIGHT"},
         s.state = "IN_FLIGHT" =>
           Cardinality({e \in Queued : SweptAll(t)[e].state = "IN_FLIGHT"}) < InFlightLimit,
         UNCHANGED <<now, accepted, crashes>>,
         NEW b \in Process, proc' = [proc EXCEPT ![p] = b],
         ProcOk(p)', Prompt /\ CallInv => CallOk(p)'
  PROVE  IInv'
<1>1. DispatchInv /\ d \in Deliveries
  BY DEF IInv, Queued
<1>2. PICK sw : sw = SweptAll(t)
  OBVIOUS
<1>3. /\ sw \in [Deliveries -> Row \cup {None}]
      /\ Queued = {e \in Deliveries : sw[e] # None}
      /\ \A e \in Queued :
           /\ RowOk(sw[e]) /\ Follows(rows[e], sw[e], p)
           /\ sw[e].state = "IN_FLIGHT" => sw[e] = rows[e]
           /\ sw[e].state = "PENDING" => sw[e] = rows[e]
           /\ sw[e].state = "EXHAUSTED" => rows[e].state \in {"PENDING", "EXHAUSTED"}
           /\ sw[e].state = "ACCEPTED" => sw[e] = rows[e]
  BY <1>1, <1>2, SweptRows
<1>4. s \in Row /\ s # None
  BY NoneIsNoRow DEF RowOk
<1>5. /\ rows' \in [Deliveries -> Row \cup {None}] /\ rows'[d] = s
      /\ \A e \in Deliveries : e # d => rows'[e] = sw[e]
  BY <1>1, <1>2, <1>3, <1>4
<1>6. Queued' = Queued
  BY <1>1, <1>3, <1>4, <1>5 DEF Queued
<1>7. rows[d].state = "PENDING" /\ rows[d].version \in Nat
  BY <1>1, <1>2, <1>3, Columns
<1>8. Follows(rows[d], s, p)
  BY <1>7 DEF Follows
<1>9. WorkerStep(p)
  <2>1. proc' \in [Workers -> Process] /\ \A q \in Workers : q # p => proc'[q] = proc[q]
    BY <1>1 DEF DispatchInv, TypeOK
  <2>2. \A e \in Queued : e \in Deliveries
    BY DEF Queued
  <2>3. \A e \in Queued : RowOk(rows'[e]) /\ Follows(rows[e], rows'[e], p)
    BY <1>3, <1>5, <1>8, <2>2
  <2> QED
    BY <1>1, <1>5, <1>6, <2>1, <2>3 DEF DispatchInv, TypeOK, WorkerStep
<1>10. AcceptedIsTrue'
  BY <1>1, <1>3, <1>5, <1>6 DEF DispatchInv, AcceptedIsTrue, Queued
<1>11. InFlightFits'
  <2>1. CASE s.state = "EXHAUSTED"
    <3>1. InFlight' \subseteq InFlight
      BY <1>3, <1>5, <1>6, <2>1 DEF InFlight, Queued
    <3> QED
      BY <1>1, <3>1, NoMoreInFlight DEF DispatchInv
  <2>2. CASE s.state = "IN_FLIGHT"
    <3>1. PICK F : F = {e \in Queued : sw[e].state = "IN_FLIGHT"}
      OBVIOUS
    <3>2. F \subseteq InFlight /\ IsFiniteSet(InFlight)
      BY <1>1, <1>3, <3>1 DEF InFlight, DispatchInv, InFlightFits
    <3>3. IsFiniteSet(F)
      BY <3>2, FS_Subset
    <3>4. Cardinality(F) < InFlightLimit /\ Cardinality(F) \in Nat /\ InFlightLimit \in Nat
      BY <1>2, <2>2, <3>1, <3>3, FS_CardinalityType, BoundsAssumption
    <3>5. InFlight' = F \cup {d}
      BY <1>5, <1>6, <2>2, <3>1 DEF InFlight, Queued
    <3>6. /\ IsFiniteSet(F \cup {d})
          /\ Cardinality(F \cup {d}) = IF d \in F THEN Cardinality(F) ELSE Cardinality(F) + 1
      BY <3>3, FS_AddElement
    <3> QED
      BY <3>4, <3>5, <3>6 DEF InFlightFits
  <2> QED
    BY <2>1, <2>2
<1>12. CallInv => RetryableNotAccepted'
  BY <1>1, <1>3, <1>5, <1>6, <1>7 DEF CallInv, RetryableNotAccepted, Queued
<1> QED
  BY <1>9, <1>10, <1>11, <1>12, StepKept

\* The transaction of send_once, with the clock reading it began with.
LEMMA ClaimStep ==
  ASSUME IInv, NEW p \in Workers, Claim(p)
  PROVE  IInv'
<1>1. /\ DispatchInv /\ proc[p].at = "authorizing" /\ UNCHANGED <<now, accepted, crashes>>
      /\ proc[p] \in Process /\ now \in Nat
  BY Columns DEF IInv, Claim
<1>2. PICK t, d : t = proc[p].since /\ d = proc[p].delivery
  OBVIOUS
<1>3. t \in Nat /\ t <= now /\ d \in Deliveries \cup {None}
  BY <1>1, <1>2, Columns DEF DispatchInv, ProcOk
<1>4. PICK sw : sw = SweptAll(t)
  OBVIOUS
<1>5. \/ rows' = sw /\ Return(p)
      \/ /\ d # None /\ sw[d].state = "PENDING" /\ TooLate(sw[d], t)
         /\ rows' = [sw EXCEPT ![d] = GivenUp(sw[d])]
         /\ Return(p)
      \/ /\ d # None /\ sw[d].state = "PENDING" /\ ~TooLate(sw[d], t)
         /\ Cardinality({e \in Queued : sw[e].state = "IN_FLIGHT"}) < InFlightLimit
         /\ rows' = [sw EXCEPT ![d] = Claimed(sw[d], p, t)]
         /\ proc' = [proc EXCEPT ![p] = [@ EXCEPT !.at = "calling",
              !.version = sw[d].version + 1, !.since = now]]
  BY <1>2, <1>4 DEF Claim, SweptAll
<1>6. CASE rows' = sw /\ Return(p)
  BY <1>1, <1>3, <1>4, <1>6, SweepKept
<1>7. ASSUME d # None, sw[d].state = "PENDING"
      PROVE  /\ d \in Queued /\ sw[d] = rows[d] /\ rows[d].attempts < MaxAttempts
             /\ rows[d].state = "PENDING" /\ rows[d] \in Row /\ RowOk(rows[d])
             /\ rows[d].version \in Nat /\ rows[d].version + 1 \in Nat
             /\ rows[d].attempts + 1 \in 0..MaxAttempts /\ rows[d].attempts + 1 > 0
             /\ rows[d].deadline \in Nat /\ rows[d].budget = "ACTIVE"
  <2>1. d \in Queued
    BY <1>1, <1>2, <1>7 DEF DispatchInv, ProcOk
  <2>2. sw[d] = rows[d] /\ rows[d].attempts < MaxAttempts /\ RowOk(rows[d])
    BY <1>1, <1>3, <1>4, <1>7, <2>1, SweptRows, Columns
  <2>3. /\ rows[d] \in Row /\ rows[d].version \in Nat /\ rows[d].attempts \in 0..MaxAttempts
        /\ MaxAttempts \in Nat /\ rows[d].deadline \in Nat
    BY <2>2, BoundsAssumption DEF RowOk, Row
  <2>4. rows[d].budget = "ACTIVE"
    BY <1>7, <2>2 DEF RowOk, SessionFits
  <2> QED
    BY <1>7, <2>1, <2>2, <2>3, <2>4
<1>8. CASE /\ d # None /\ sw[d].state = "PENDING"
           /\ rows' = [sw EXCEPT ![d] = GivenUp(sw[d])]
           /\ Return(p)
  <2>1. PICK s : s = GivenUp(rows[d])
    OBVIOUS
  <2>3. RowOk(s) /\ s.state = "EXHAUSTED" /\ s.version = rows[d].version + 1
    BY <1>7, <1>8, <2>1, GivenUpRow
  <2>5. rows' = [SweptAll(t) EXCEPT ![d] = s] /\ d \in Queued
    BY <1>4, <1>7, <1>8, <2>1
  <2>6. /\ Idle \in Process /\ proc' = [proc EXCEPT ![p] = Idle] /\ ProcOk(p)' /\ CallOk(p)'
    BY <1>1, <1>8, Returned
  <2> QED
    BY <1>1, <1>3, <1>4, <1>8, <2>3, <2>5, <2>6, SweepAndChange
<1>9. CASE /\ d # None /\ sw[d].state = "PENDING" /\ ~TooLate(sw[d], t)
           /\ Cardinality({e \in Queued : sw[e].state = "IN_FLIGHT"}) < InFlightLimit
           /\ rows' = [sw EXCEPT ![d] = Claimed(sw[d], p, t)]
           /\ proc' = [proc EXCEPT ![p] = [@ EXCEPT !.at = "calling",
                !.version = sw[d].version + 1, !.since = now]]
  <2>1. PICK s : s = Claimed(rows[d], p, t)
    OBVIOUS
  <2>2. ~TooLate(rows[d], t)
    BY <1>7, <1>9
  <2>6. /\ RowOk(s) /\ s \in Row /\ s.state = "IN_FLIGHT" /\ s.claim = p
        /\ s.version = rows[d].version + 1
        /\ t + SendLimit <= s.lease /\ t + SendLimit <= s.deadline
    <3>1. /\ RowOk(s) /\ s.state = "IN_FLIGHT" /\ s.claim = p
          /\ s.version = rows[d].version + 1
          /\ t + SendLimit <= s.lease /\ t + SendLimit <= s.deadline
      BY <1>3, <1>7, <1>9, <2>1, <2>2, ClaimedRow
    <3> QED
      BY <3>1 DEF RowOk
  <2>8. rows' = [SweptAll(t) EXCEPT ![d] = s] /\ d \in Queued
    BY <1>4, <1>7, <1>9, <2>1
  <2>9. PICK b : b = [proc[p] EXCEPT !.at = "calling", !.version = rows[d].version + 1,
                                     !.since = now]
    OBVIOUS
  <2>10. now \in 0..MaxTime
    BY <1>1, Columns
  <2>11. /\ b \in Process /\ b.at = "calling" /\ b.version = rows[d].version + 1
         /\ b.since = now /\ b.delivery = d
    BY <1>1, <1>2, <1>7, <1>9, <2>9, <2>10 DEF Process, Labels
  <2>12. proc' = [proc EXCEPT ![p] = b] /\ proc'[p] = b
    BY <1>1, <1>7, <1>9, <2>9 DEF DispatchInv, TypeOK
  <2>13. rows'[d] = s /\ d \in Queued'
    <3>1. d \in Deliveries /\ DOMAIN SweptAll(t) = Deliveries
      BY <2>8 DEF Queued, SweptAll
    <3>2. rows'[d] = s /\ s # None
      BY <2>6, <2>8, <3>1, NoneIsNoRow
    <3> QED
      BY <3>1, <3>2 DEF Queued
  <2>14. ProcOk(p)'
    <3>1. /\ proc'[p].at = "calling" /\ proc'[p].since = now' /\ proc'[p].delivery = d
          /\ proc'[p].version = rows'[d].version /\ rows'[d].version \in Nat
          /\ now' \in Nat
      <4>1. rows[d].version + 1 \in Nat
        BY <1>7, <1>9
      <4>2. s.version = rows[d].version + 1 /\ b.version = rows[d].version + 1
        BY <2>6, <2>11
      <4> QED
        BY <1>1, <2>11, <2>12, <2>13, <4>1, <4>2
    <3> QED
      BY <2>13, <3>1 DEF ProcOk
  <2>15. Prompt /\ CallInv => CallOk(p)'
    <3> SUFFICES ASSUME Prompt, CallInv PROVE CallOk(p)'
      OBVIOUS
    <3>1. t = now
      BY <1>1, <1>2 DEF CallInv, CallOk
    <3>2. d \notin accepted
      BY <1>7, <1>9 DEF CallInv, RetryableNotAccepted
    <3>3. now < now + SendLimit
      BY <1>1 DEF SendLimit
    <3>4. OwnsRow(p)'
      BY <1>1, <2>6, <2>11, <2>12, <2>13, <3>1, <3>3 DEF OwnsRow, Current
    <3> QED
      BY <1>1, <2>11, <2>12, <3>2, <3>4 DEF CallOk, Refused
  <2>16. /\ SweptAll(t)[d].state = "PENDING"
         /\ Cardinality({e \in Queued : SweptAll(t)[e].state = "IN_FLIGHT"}) < InFlightLimit
    BY <1>4, <1>9
  <2>17. b \in Process /\ proc' = [proc EXCEPT ![p] = b]
    BY <2>11, <2>12
  <2>18. s.version = rows[d].version + 1 /\ s.state \in {"EXHAUSTED", "IN_FLIGHT"}
    BY <2>6
  <2> QED
    BY <1>1, <1>3, <2>6, <2>8, <2>14, <2>15, <2>16, <2>17, <2>18, SweepAndChange
<1> QED
  BY <1>5, <1>6, <1>8, <1>9

(***************************************************************************)
(* What no process does.                                                   *)
(***************************************************************************)

\* A delivery is queued.
LEMMA EnqueueStep ==
  ASSUME IInv, NEW d \in Deliveries, Enqueue(d)
  PROVE  IInv'
<1>1. DispatchInv /\ d \notin Queued /\ UNCHANGED <<now, proc, accepted, crashes>>
  BY DEF IInv, Enqueue, Queued
<1>2. PICK s : s = [state |-> "PENDING", version |-> 0, due |-> now, lease |-> None,
                    claim |-> None, queries |-> 0, session |-> 1,
                    deadline |-> now + Lifetime, attempts |-> 0, budget |-> "ACTIVE"]
  OBVIOUS
<1>3. RowOk(s) /\ s # None /\ s.state = "PENDING"
  <2>1. /\ now \in Nat /\ now + Lifetime \in Nat /\ 0 \in 0..MaxAttempts /\ 0 \in 0..MaxQueries
        /\ 1 \in 1..MaxSessions
    <3>1. /\ Lifetime \in Nat /\ MaxAttempts \in Nat /\ MaxQueries \in Nat
          /\ MaxSessions \in Nat \ {0}
      BY BoundsAssumption
    <3> QED
      BY <1>1, <3>1, Columns
  <2>2. s \in Row
    BY <1>2, <2>1 DEF Row, States
  <2> QED
    BY <1>2, <2>2, NoneIsNoRow DEF RowOk, SessionFits
<1>4. /\ rows' \in [Deliveries -> Row \cup {None}] /\ rows'[d] = s
      /\ \A e \in Deliveries : e # d => rows'[e] = rows[e]
  BY <1>1, <1>2, <1>3 DEF Enqueue, DispatchInv, TypeOK, RowOk
<1>5. /\ Queued' = Queued \cup {d}
      /\ \A e \in Queued : e \in Deliveries /\ e # d /\ rows'[e] = rows[e]
  BY <1>1, <1>3, <1>4 DEF Queued
<1>6. d \notin accepted
  BY <1>1 DEF DispatchInv
<1>7. TypeOK'
  BY <1>1, <1>4 DEF DispatchInv, TypeOK
<1>8. \A e \in Queued' : RowOk(rows[e])'
  BY <1>1, <1>3, <1>4, <1>5 DEF DispatchInv
<1>9. \A p \in Workers : ProcOk(p)'
  BY <1>1, <1>5 DEF DispatchInv, ProcOk
<1>10. accepted' \subseteq Queued' /\ AcceptedIsTrue'
  BY <1>1, <1>3, <1>4, <1>5 DEF DispatchInv, AcceptedIsTrue
<1>11. InFlightFits'
  <2>1. InFlight' \subseteq InFlight
    BY <1>3, <1>4, <1>5 DEF InFlight
  <2> QED
    BY <1>1, <2>1, NoMoreInFlight DEF DispatchInv
<1>12. CallInv => CallInv'
  <2>1. CallInv => RetryableNotAccepted'
    BY <1>1, <1>4, <1>5, <1>6 DEF CallInv, RetryableNotAccepted
  <2>2. ASSUME NEW p \in Workers, CallOk(p)
        PROVE  CallOk(p)'
    <3>1. proc[p].at \in Engaged => rows'[proc[p].delivery] = rows[proc[p].delivery]
      BY <1>1, <1>5 DEF DispatchInv, ProcOk
    <3> QED
      BY <1>1, <2>2, <3>1 DEF CallOk, OwnsRow, Refused, Current, Engaged
  <2> QED
    BY <2>1, <2>2 DEF CallInv
<1> QED
  BY <1>7, <1>8, <1>9, <1>10, <1>11, <1>12 DEF IInv, DispatchInv, Prompt

\* Time passes: never within a prompt authorization, nor beyond the end of a call.
LEMMA TickStep ==
  ASSUME IInv, Tick
  PROVE  IInv'
<1>1. /\ DispatchInv /\ now < MaxTime /\ now' = now + 1
      /\ UNCHANGED <<rows, proc, accepted, crashes>> /\ Queued' = Queued
  BY DEF IInv, Tick, Queued
<1>2. now \in Nat /\ MaxTime \in Nat
  BY <1>1, Columns
<1>3. TypeOK'
  BY <1>1, <1>2 DEF DispatchInv, TypeOK
<1>4. (\A d \in Queued : RowOk(rows[d]))' /\ (accepted \subseteq Queued)'
        /\ AcceptedIsTrue' /\ InFlightFits'
  BY <1>1 DEF DispatchInv, RowOk, AcceptedIsTrue, InFlightFits, InFlight
<1>5. \A p \in Workers : ProcOk(p)'
  <2> SUFFICES ASSUME NEW p \in Workers PROVE ProcOk(p)'
    OBVIOUS
  <2>1. ProcOk(p) /\ proc[p].since \in Nat
    BY <1>1, Columns DEF DispatchInv
  <2>2. proc[p].since <= now + 1
    BY <1>2, <2>1 DEF ProcOk
  <2> QED
    BY <1>1, <2>1, <2>2 DEF ProcOk
<1>6. Prompt /\ CallInv => CallInv'
  <2> SUFFICES ASSUME Prompt, CallInv PROVE CallInv'
    OBVIOUS
  <2>1. RetryableNotAccepted'
    BY <1>1 DEF CallInv, RetryableNotAccepted
  <2>2. ASSUME NEW p \in Workers
        PROVE  CallOk(p)'
    <3>1. CallOk(p) /\ proc[p].since \in Nat
      BY <1>1, Columns DEF CallInv
    <3>2. proc[p].at # "authorizing"
      <4>1. proc[p].at = "authorizing" => now < proc[p].since + 0
        BY DEF Tick, Prompt
      <4> QED
        BY <1>2, <3>1, <4>1 DEF CallOk
    <3>3. proc[p].at = "calling" => now' < proc[p].since + SendLimit
      BY <1>1 DEF Tick
    <3>4. proc[p].at = "calling" => OwnsRow(p)'
      BY <1>1, <3>1, <3>3 DEF CallOk, OwnsRow, Current
    <3> QED
      BY <1>1, <3>1, <3>2, <3>4 DEF CallOk, Refused, Current
  <2> QED
    BY <2>1, <2>2 DEF CallInv
<1> QED
  BY <1>1, <1>3, <1>4, <1>5, <1>6 DEF IInv, DispatchInv, Prompt

\* Nothing happens.
LEMMA Stutter ==
  ASSUME IInv, UNCHANGED vars
  PROVE  IInv'
<1>1. UNCHANGED <<now, rows, proc, accepted, crashes>> /\ Queued' = Queued
  BY DEF vars, Queued
<1>2. DispatchInv'
  BY <1>1 DEF IInv, DispatchInv, TypeOK, RowOk, ProcOk, AcceptedIsTrue, InFlightFits, InFlight
<1>3. CallInv => CallInv'
  BY <1>1 DEF CallInv, RetryableNotAccepted, CallOk, OwnsRow, Refused, Current
<1> QED
  BY <1>2, <1>3 DEF IInv, Prompt

\* At first nothing is queued.
LEMMA InitIInv == Init => IInv
<1> SUFFICES ASSUME Init PROVE IInv
  OBVIOUS
<1>1. Queued = {} /\ accepted = {} /\ now = 0 /\ \A p \in Workers : proc[p] = Idle
  BY DEF Init, Queued
<1>2. Idle \in Process /\ Idle.at = "idle" /\ Idle.since = 0
  BY BoundsAssumption DEF Idle, Process, Labels
<1>3. TypeOK
  BY <1>2, BoundsAssumption DEF Init, TypeOK
<1>4. \A p \in Workers : ProcOk(p) /\ CallOk(p)
  BY <1>1, <1>2 DEF ProcOk, CallOk, Refused, Engaged
<1>5. InFlight = {} /\ InFlightFits
  BY <1>1, FS_EmptySet, BoundsAssumption DEF InFlight, InFlightFits
<1> QED
  BY <1>1, <1>3, <1>4, <1>5 DEF IInv, DispatchInv, CallInv, AcceptedIsTrue,
     RetryableNotAccepted

\* Every step keeps the invariant.
LEMMA NextIInv == IInv /\ [Next]_vars => IInv'
<1> SUFFICES ASSUME IInv, [Next]_vars PROVE IInv'
  OBVIOUS
<1>1. ASSUME NEW p \in Workers, Preview(p) \/ Step(p) \/ Crash(p)
      PROVE  IInv'
  BY <1>1, PreviewStep, DeniedStep, ClaimStep, AnswerStep, FinishStep, QueryStep, ResolveStep,
     RenewStep, CrashStep DEF Step
<1>2. ASSUME NEW p \in Workers, NEW d \in Deliveries, Reconcile(p, d) \/ AskRenewal(p, d)
      PROVE  IInv'
  BY <1>2, ReconcileStep, AskRenewalStep
<1> QED
  BY <1>1, <1>2, EnqueueStep, TickStep, Stutter DEF Next

(***************************************************************************)
(* The theorems.                                                           *)
(***************************************************************************)

\* The invariant holds in every state of every run.
THEOREM Invariance == Spec => []IInv
BY InitIInv, NextIInv, PTL DEF Spec

\* The tables and the processes hold what they range over: no session pays for
\* more attempts, no delivery for more queries, than it may (lines 166, 232).
THEOREM TypeCorrect == Spec => []TypeOK
<1>1. IInv => TypeOK
  BY DEF IInv, DispatchInv
<1> QED
  BY <1>1, Invariance, PTL

\* What is recorded as accepted was accepted (_finish and
\* reconcile_ambiguous_delivery), however long authorization takes.
THEOREM AcceptedWasAccepted == Spec => []AcceptedIsTrue
<1>1. IInv => AcceptedIsTrue
  BY DEF IInv, DispatchInv
<1> QED
  BY <1>1, Invariance, PTL

\* The active session of a delivery tells its state (lines 167-168, 201, 247).
THEOREM SessionsTell == Spec => []SessionTellsState
<1>1. IInv => SessionTellsState
  BY DEF IInv, DispatchInv, RowOk, SessionFits, SessionTellsState
<1> QED
  BY <1>1, Invariance, PTL

\* Nothing the provider may have accepted is sent again, by itself or after a
\* renewal, where the clock reading of send_once is current when it is used.
THEOREM NothingAcceptedIsSentAgain ==
  ASSUME Prompt
  PROVE  Spec => []RetryableNotAccepted
<1>1. IInv => RetryableNotAccepted
  BY DEF IInv, CallInv
<1> QED
  BY <1>1, Invariance, PTL

\* Under the same condition no call ends after the deadline of its session
\* (send_once, line 174).
THEOREM CallsEndBeforeTheDeadline ==
  ASSUME Prompt
  PROVE  Spec => []CallsEndInTime
<1>1. IInv => CallsEndInTime
  BY DEF IInv, CallInv, CallOk, OwnsRow, CallsEndInTime
<1> QED
  BY <1>1, Invariance, PTL

\* Under the same condition the provider is never called more often at once than
\* rows may be in flight, since a call owns a row (send_once, line 169).
THEOREM CallsAreLimited ==
  ASSUME Prompt
  PROVE  Spec => []CallsWithinLimit
<1>1. IInv => CallsWithinLimit
  <2> SUFFICES ASSUME IInv PROVE CallsWithinLimit
    OBVIOUS
  <2>1. PICK C, F, f : /\ C = {p \in Workers : proc[p].at = "calling"}
                       /\ F = InFlight
                       /\ f = [p \in C |-> proc[p].delivery]
    OBVIOUS
  <2>2. \A p \in C : /\ proc[p].delivery \in F
                     /\ rows[proc[p].delivery].claim = p
    BY <2>1 DEF IInv, DispatchInv, ProcOk, Engaged, CallInv, CallOk, OwnsRow, InFlight
  <2>3. f \in Injection(C, F)
    BY <2>1, <2>2 DEF Injection, IsInjective
  <2>4. IsFiniteSet(F) /\ Cardinality(F) <= InFlightLimit
    BY <2>1 DEF IInv, DispatchInv, InFlightFits
  <2>5. IsFiniteSet(C) /\ Cardinality(C) <= Cardinality(F)
    BY <2>3, <2>4, FS_Injection
  <2>6. Cardinality(C) \in Nat /\ Cardinality(F) \in Nat /\ InFlightLimit \in Nat
    BY <2>4, <2>5, FS_CardinalityType, BoundsAssumption
  <2> QED
    BY <2>1, <2>4, <2>5, <2>6 DEF CallsWithinLimit
<1> QED
  BY <1>1, Invariance, PTL

\* Neither a late outcome, nor an old answer, a renewal or the sweep takes a
\* settled delivery back (_finish, line 191).
THEOREM SettledStays == Spec => SettledIsFinal
<1>1. ASSUME IInv, [Next]_vars, NEW d \in Queued, rows[d].state \in {"ACCEPTED", "PAUSED"}
      PROVE  rows'[d] = rows[d]
  <2>1. DispatchInv /\ d \in Deliveries /\ DOMAIN rows = Deliveries /\ RowOk(rows[d])
    BY <1>1, Columns DEF IInv, DispatchInv, TypeOK, Queued
  <2>2. ASSUME NEW e, NEW s, rows' = [rows EXCEPT ![e] = s], e # d
        PROVE  rows'[d] = rows[d]
    BY <2>1, <2>2
  <2>3. ASSUME NEW e \in Deliveries, Enqueue(e)
        PROVE  rows'[d] = rows[d]
    <3>1. e # d
      BY <2>3 DEF Enqueue, Queued
    <3> QED
      BY <2>1, <2>3, <3>1 DEF Enqueue
  <2>4. ASSUME NEW p \in Workers, Claim(p)
        PROVE  rows'[d] = rows[d]
    <3>1. PICK t, e : t = proc[p].since /\ e = proc[p].delivery
      OBVIOUS
    <3>2. PICK sw : sw = SweptAll(t)
      OBVIOUS
    <3>3. \/ rows' = sw
          \/ /\ sw[e].state = "PENDING"
             /\ rows' = [sw EXCEPT ![e] = GivenUp(sw[e])]
          \/ /\ sw[e].state = "PENDING"
             /\ rows' = [sw EXCEPT ![e] = Claimed(sw[e], p, t)]
      BY <2>4, <3>1, <3>2 DEF Claim, SweptAll
    <3>4. t \in Nat
      BY <2>1, <3>1, Columns
    <3>5. sw[d] = Swept(rows[d], t) /\ DOMAIN sw = Deliveries
      BY <2>1, <3>2 DEF SweptAll, Queued
    <3>6. sw[d] = rows[d]
      BY <1>1, <2>1, <3>4, <3>5, SweptRow
    <3>7. sw[e].state = "PENDING" => e # d
      BY <1>1, <3>6
    <3> QED
      BY <2>1, <3>3, <3>5, <3>6, <3>7
  <2>5. ASSUME NEW p \in Workers, Finish(p)
        PROVE  rows'[d] = rows[d]
    BY <1>1, <2>1, <2>5 DEF Finish, Fresh
  <2>6. ASSUME NEW p \in Workers, Resolve(p)
        PROVE  rows'[d] = rows[d]
    BY <1>1, <2>1, <2>6 DEF Resolve
  <2>7. ASSUME NEW p \in Workers, Renew(p)
        PROVE  rows'[d] = rows[d]
    BY <1>1, <2>1, <2>7 DEF Renew
  <2>8. ASSUME NEW p \in Workers, NEW e \in Deliveries, Reconcile(p, e)
        PROVE  rows'[d] = rows[d]
    <3>1. e # d /\ rows' = [rows EXCEPT ![e].queries = @ + 1]
      BY <1>1, <2>8 DEF Reconcile
    <3> QED
      BY <2>1, <3>1
  <2>9. ASSUME NEW p \in Workers, NEW e \in Deliveries, NEW kind \in Kinds,
               \/ Preview(p) \/ Denied(p) \/ Answer(p, kind) \/ Query(p) \/ Crash(p)
               \/ AskRenewal(p, e)
        PROVE  rows'[d] = rows[d]
    BY <2>9 DEF Preview, Denied, Answer, Query, Crash, AskRenewal
  <2>10. ASSUME NEW p \in Workers, Preview(p) \/ Step(p) \/ Crash(p)
         PROVE  rows'[d] = rows[d]
    <3>1. \E e \in Deliveries, kind \in Kinds : TRUE
      BY <2>1 DEF Kinds
    <3> QED
      BY <2>4, <2>5, <2>6, <2>7, <2>9, <2>10, <3>1 DEF Step
  <2>11. Tick \/ UNCHANGED vars => rows'[d] = rows[d]
    BY DEF Tick, vars
  <2> QED
    BY <1>1, <2>3, <2>8, <2>9, <2>10, <2>11 DEF Next, Kinds
<1>2. IInv /\ [Next]_vars =>
        [\A d \in Queued :
           rows[d].state \in {"ACCEPTED", "PAUSED"} => rows'[d] = rows[d]]_vars
  BY <1>1
<1> QED
  BY <1>2, Invariance, PTL DEF Spec, SettledIsFinal

(***************************************************************************)
(* The refinement: every step is a step of AlertPromise or leaves stages   *)
(* and acceptances alone.                                                  *)
(***************************************************************************)
PromiseStep == [Promise!Next]_(Promise!promiseVars)

\* The stage of a queued delivery is the state of its row.
LEMMA StageOfQueued ==
  ASSUME DispatchInv
  PROVE  /\ StageOf \in [Deliveries -> Promise!Stages]
         /\ \A d \in Queued : d \in Deliveries /\ StageOf[d] = rows[d].state
<1>1. ASSUME NEW d \in Queued
      PROVE  d \in Deliveries /\ StageOf[d] = rows[d].state /\ rows[d].state \in States
  BY DEF DispatchInv, Queued, StageOf, RowOk, Row
<1>2. \A d \in Deliveries : d \notin Queued => StageOf[d] = "NONE"
  BY DEF StageOf, Queued
<1>3. \A d \in Deliveries : StageOf[d] \in Promise!Stages
  BY <1>1, <1>2 DEF Promise!Stages, States
<1>4. StageOf = [d \in Deliveries |-> StageOf[d]]
  BY DEF StageOf
<1> QED
  BY <1>1, <1>3, <1>4

\* A step of the outbox in which every delivery stays where it is or moves as it may.
LEMMA Recorded ==
  ASSUME DispatchInv', accepted' = accepted,
         \A d \in Deliveries : StageOf'[d] = StageOf[d] \/ Promise!Moves(d)
  PROVE  PromiseStep
<1>1. ASSUME NEW d \in Deliveries
      PROVE  StageOf'[d] \in Promise!Stages
  <2>1. rows'[d] \in Row \cup {None}
    BY DEF DispatchInv, TypeOK
  <2>2. rows'[d] # None => rows'[d].state \in States
    BY <2>1 DEF Row
  <2> QED
    BY <2>2 DEF StageOf, Promise!Stages, States
<1>2. StageOf' = [d \in Deliveries |-> StageOf'[d]]
  BY DEF StageOf
<1>3. StageOf' \in [Deliveries -> Promise!Stages]
  BY <1>1, <1>2
<1> QED
  BY <1>3 DEF PromiseStep, Promise!Next, Promise!Record

\* A step that changes no row.
LEMMA RowsStay ==
  ASSUME DispatchInv, DispatchInv', rows' = rows, accepted' = accepted
  PROVE  PromiseStep
<1>1. StageOf' = StageOf
  BY DEF StageOf
<1> QED
  BY <1>1 DEF PromiseStep, Promise!promiseVars

\* A step that changes one row, which goes from one state to another.
LEMMA OneRowMoves ==
  ASSUME DispatchInv, DispatchInv', accepted' = accepted, NEW d \in Deliveries,
         NEW s, s # None, rows' = [rows EXCEPT ![d] = s],
         NEW from, from = StageOf[d],
         \/ from = s.state
         \/ from = "NONE" /\ s.state = "PENDING"
         \/ from = "EXHAUSTED" /\ s.state = "PENDING" /\ d \notin accepted
         \/ from \in {"IN_FLIGHT", "UNKNOWN"} /\ s.state = "ACCEPTED" /\ d \in accepted
         \/ /\ from \in {"IN_FLIGHT", "UNKNOWN"} /\ s.state \in {"PENDING", "EXHAUSTED"}
            /\ d \notin accepted
         \/ from = "IN_FLIGHT" /\ s.state = "UNKNOWN"
         \/ from = "IN_FLIGHT" /\ s.state = "PAUSED" /\ d \notin accepted
  PROVE  PromiseStep
<1>1. rows'[d] = s /\ \A e \in Deliveries : e # d => rows'[e] = rows[e]
  BY DEF DispatchInv, TypeOK
<1>2. StageOf'[d] = s.state /\ \A e \in Deliveries : e # d => StageOf'[e] = StageOf[e]
  BY <1>1 DEF StageOf
<1>3. StageOf'[d] = StageOf[d] \/ Promise!Moves(d)
  BY <1>2 DEF Promise!Moves, Promise!Goes, Promise!Queue, Promise!Offer, Promise!GiveUp,
     Promise!Renew, Promise!LoseSight, Promise!Confirm, Promise!TakeBack, Promise!Refuse
<1> QED
  BY <1>2, <1>3, Recorded

\* The provider accepts the delivery of a call that owns its row.
LEMMA Reached ==
  ASSUME DispatchInv, CallInv, rows' = rows, NEW p \in Workers, proc[p].at = "calling",
         accepted' = accepted \cup {proc[p].delivery}
  PROVE  PromiseStep
<1>1. PICK d \in Queued : d = proc[p].delivery
  BY DEF DispatchInv, ProcOk, Engaged
<1>2. d \notin accepted /\ rows[d].state = "IN_FLIGHT"
  BY <1>1 DEF CallInv, CallOk, OwnsRow
<1>3. d \in Deliveries /\ StageOf[d] = "IN_FLIGHT" /\ StageOf' = StageOf
  BY <1>2, StageOfQueued DEF StageOf
<1>4. Promise!Accept(d)
  BY <1>1, <1>2, <1>3 DEF Promise!Accept
<1> QED
  BY <1>3, <1>4 DEF PromiseStep, Promise!Next

\* An outcome is recorded only if it is so.
LEMMA FinishKeepsPromise ==
  ASSUME DispatchInv, DispatchInv', CallInv, NEW p \in Workers, Finish(p)
  PROVE  PromiseStep
<1>1. UNCHANGED <<now, accepted>> /\ proc[p].at = "answered"
  BY DEF Finish
<1>2. CASE UNCHANGED rows
  BY <1>1, <1>2, RowsStay
<1>3. ASSUME Fresh(p), NEW after \in Nat,
             rows' = [rows EXCEPT ![proc[p].delivery] =
                        Finished(rows[proc[p].delivery], proc[p].answer, after)]
      PROVE  PromiseStep
  <2>1. PICK d \in Queued : d = proc[p].delivery
    BY <1>1 DEF DispatchInv, ProcOk, Engaged
  <2>2. PICK s : s = Finished(rows[d], proc[p].answer, after)
    OBVIOUS
  <2>3. /\ rows[d].state = "IN_FLIGHT" /\ rows[d].claim = p
        /\ rows[d].version = proc[p].version
    BY <1>3, <2>1 DEF Fresh
  <2>4. RowOk(rows[d]) /\ now \in Nat /\ proc[p].answer \in Kinds
    BY <1>1, Columns DEF DispatchInv, ProcOk
  <2>5. /\ RowOk(s) /\ s.state # "IN_FLIGHT"
        /\ s.state = "ACCEPTED" => proc[p].answer = "ACCEPTED"
        /\ s.state = "PAUSED" => proc[p].answer = "PERMANENT"
        /\ s.state \in {"PENDING", "EXHAUSTED"} => proc[p].answer = "TRANSIENT_NOT_ACCEPTED"
    BY <2>2, <2>3, <2>4, FinishedRow
  <2>6. s.state = "ACCEPTED" => d \in accepted
    BY <1>1, <2>1, <2>5 DEF DispatchInv, ProcOk
  <2>7. s.state \in {"PENDING", "EXHAUSTED", "PAUSED"} => d \notin accepted
    BY <1>1, <2>1, <2>3, <2>5 DEF CallInv, CallOk, Refused, Current
  <2>8. s \in Row /\ s.state \in States /\ s # None
    BY <2>5, NoneIsNoRow DEF RowOk, Row
  <2>9. rows' = [rows EXCEPT ![d] = s]
    BY <1>3, <2>1, <2>2
  <2>10. d \in Deliveries /\ StageOf[d] = "IN_FLIGHT"
    BY <2>3, StageOfQueued
  <2> QED
    BY <1>1, <2>5, <2>6, <2>7, <2>8, <2>9, <2>10, OneRowMoves DEF States
<1>4. RetryAfters \subseteq Nat
  BY BoundsAssumption
<1> QED
  BY <1>2, <1>3, <1>4 DEF Finish

\* A delivery leaves UNKNOWN by an answer that is so.
LEMMA ResolveKeepsPromise ==
  ASSUME DispatchInv, DispatchInv', CallInv, NEW p \in Workers, Resolve(p)
  PROVE  PromiseStep
<1>1. UNCHANGED <<now, accepted>> /\ proc[p].at = "resolved"
  BY DEF Resolve
<1>2. CASE UNCHANGED rows
  BY <1>1, <1>2, RowsStay
<1>3. CASE /\ rows[proc[p].delivery].state = "UNKNOWN" /\ Current(p)
           /\ rows' = [rows EXCEPT ![proc[p].delivery] =
                         Resolved(rows[proc[p].delivery], proc[p].answer)]
  <2>1. PICK d \in Queued : d = proc[p].delivery
    BY <1>1 DEF DispatchInv, ProcOk, Engaged
  <2>2. PICK s : s = Resolved(rows[d], proc[p].answer)
    OBVIOUS
  <2>3. rows[d].state = "UNKNOWN" /\ RowOk(rows[d]) /\ now \in Nat
    BY <1>3, <2>1, Columns
  <2>4. RowOk(s) /\ (s.state = "ACCEPTED" <=> proc[p].answer = "ACCEPTED")
    BY <2>2, <2>3, ResolvedRow
  <2>5. s.state \in {"ACCEPTED", "PENDING", "EXHAUSTED"}
    <3>1. rows[d] \in Row
      BY <2>3 DEF RowOk
    <3> QED
      BY <2>2, <3>1 DEF Resolved, Row
  <2>6. proc[p].answer \in {"ACCEPTED", "TRANSIENT_NOT_ACCEPTED"}
    BY <1>1 DEF DispatchInv, ProcOk
  <2>7. s.state = "ACCEPTED" => d \in accepted
    BY <1>1, <2>1, <2>4 DEF DispatchInv, ProcOk
  <2>8. s.state \in {"PENDING", "EXHAUSTED"} => d \notin accepted
    BY <1>1, <1>3, <2>1, <2>4, <2>6 DEF CallInv, CallOk, Refused
  <2>9. rows' = [rows EXCEPT ![d] = s] /\ s # None
    BY <1>3, <2>1, <2>2, <2>4, NoneIsNoRow DEF RowOk
  <2>10. d \in Deliveries /\ StageOf[d] = "UNKNOWN"
    BY <2>3, StageOfQueued
  <2> QED
    BY <1>1, <2>5, <2>7, <2>8, <2>9, <2>10, OneRowMoves
<1> QED
  BY <1>2, <1>3 DEF Resolve, Current

\* A renewal offers again only what was not accepted.
LEMMA RenewKeepsPromise ==
  ASSUME DispatchInv, DispatchInv', CallInv, NEW p \in Workers, Renew(p)
  PROVE  PromiseStep
<1>1. UNCHANGED <<now, accepted>> /\ proc[p].at = "renewing"
  BY DEF Renew
<1>2. CASE UNCHANGED rows
  BY <1>1, <1>2, RowsStay
<1>3. PICK d \in Queued : d = proc[p].delivery
  BY <1>1 DEF DispatchInv, ProcOk, Engaged
<1>4. PICK s : s = Renewed(rows[d])
  OBVIOUS
<1>5. CASE /\ rows[d].state = "EXHAUSTED" /\ rows[d].session < MaxSessions
           /\ rows' = [rows EXCEPT ![d] = s]
  <2>1. /\ RowOk(rows[d]) /\ now \in Nat
        /\ d \in Deliveries /\ StageOf[d] = "EXHAUSTED"
    BY <1>5, Columns, StageOfQueued
  <2>2. RowOk(s) /\ s.state = "PENDING"
    BY <1>4, <1>5, <2>1, RenewedRow
  <2>3. s # None
    BY <2>2, NoneIsNoRow DEF RowOk
  <2>4. d \notin accepted
    BY <1>5 DEF CallInv, RetryableNotAccepted
  <2> QED
    BY <1>1, <1>5, <2>1, <2>2, <2>3, <2>4, OneRowMoves
<1>6. \/ UNCHANGED rows
      \/ /\ rows[d].state = "EXHAUSTED" /\ rows[d].session < MaxSessions
         /\ rows' = [rows EXCEPT ![d] = s]
  BY <1>3, <1>4 DEF Renew
<1> QED
  BY <1>2, <1>5, <1>6

\* A delivery that was not queued has not been accepted.
LEMMA EnqueueKeepsPromise ==
  ASSUME DispatchInv, DispatchInv', NEW d \in Deliveries, Enqueue(d)
  PROVE  PromiseStep
<1>1. PICK s : /\ s = [state |-> "PENDING", version |-> 0, due |-> now, lease |-> None,
                       claim |-> None, queries |-> 0, session |-> 1,
                       deadline |-> now + Lifetime, attempts |-> 0, budget |-> "ACTIVE"]
               /\ rows' = [rows EXCEPT ![d] = s]
  BY DEF Enqueue
<1>2. rows[d] = None /\ accepted' = accepted /\ s.state = "PENDING"
  BY <1>1 DEF Enqueue
<1>3. StageOf[d] = "NONE"
  BY <1>2 DEF StageOf
<1>4. s # None
  <2>1. now \in Nat /\ now + Lifetime \in Nat /\ 0 \in 0..MaxAttempts /\ 0 \in 0..MaxQueries
        /\ 1 \in 1..MaxSessions
    <3>1. /\ Lifetime \in Nat /\ MaxAttempts \in Nat /\ MaxQueries \in Nat
          /\ MaxSessions \in Nat \ {0}
      BY BoundsAssumption
    <3> QED
      BY <3>1, Columns
  <2>2. s \in Row
    BY <1>1, <2>1 DEF Row, States
  <2> QED
    BY <2>2, NoneIsNoRow
<1> QED
  BY <1>1, <1>2, <1>3, <1>4, OneRowMoves

\* The sweep loses sight of calls and gives up deliveries, none but PENDING ones.
LEMMA SweptMoves ==
  ASSUME NEW r, RowOk(r), NEW t \in Nat, NEW s, s = Swept(r, t)
  PROVE  \/ s.state = r.state
         \/ r.state = "IN_FLIGHT" /\ s.state = "UNKNOWN"
         \/ r.state = "PENDING" /\ s.state = "EXHAUSTED"
<1>1. r \in Row
  BY DEF RowOk
<1> QED
  BY <1>1 DEF Swept, Row

\* A claim offers a delivery that was PENDING, hence not accepted.
LEMMA ClaimKeepsPromise ==
  ASSUME DispatchInv, DispatchInv', CallInv, NEW p \in Workers, Claim(p)
  PROVE  PromiseStep
<1>1. accepted' = accepted /\ proc[p].at = "authorizing"
  BY DEF Claim
<1>2. PICK t, d : t = proc[p].since /\ d = proc[p].delivery
  OBVIOUS
<1>3. t \in Nat /\ (d # None => d \in Queued)
  BY <1>1, <1>2, Columns DEF DispatchInv, ProcOk
<1>4. PICK sw : sw = SweptAll(t)
  OBVIOUS
<1>5. \/ rows' = sw
      \/ /\ d # None /\ sw[d].state = "PENDING"
         /\ \/ rows' = [sw EXCEPT ![d] = GivenUp(sw[d])]
            \/ /\ rows' = [sw EXCEPT ![d] = Claimed(sw[d], p, t)]
               /\ ~TooLate(sw[d], t)
  BY <1>2, <1>4 DEF Claim, SweptAll
<1>6. ASSUME NEW e \in Queued
      PROVE  /\ e \in Deliveries /\ StageOf[e] = rows[e].state /\ sw[e] \in Row
             /\ \/ sw[e].state = StageOf[e]
                \/ StageOf[e] = "IN_FLIGHT" /\ sw[e].state = "UNKNOWN"
                \/ StageOf[e] = "PENDING" /\ sw[e].state = "EXHAUSTED"
  <2>1. e \in Deliveries /\ StageOf[e] = rows[e].state /\ RowOk(rows[e])
    BY Columns, StageOfQueued
  <2>2. sw[e] = Swept(rows[e], t)
    BY <1>4, <2>1 DEF SweptAll, Queued
  <2>3. RowOk(sw[e])
    BY <1>3, <2>1, <2>2, SweptRow
  <2> QED
    BY <1>3, <2>1, <2>2, <2>3, SweptMoves DEF RowOk
<1>7. \A e \in Deliveries : e \notin Queued => sw[e] = None /\ StageOf[e] = "NONE"
  BY <1>4 DEF SweptAll, Queued, StageOf
<1>8. DOMAIN sw = Deliveries
  BY <1>4 DEF SweptAll
<1>9. ASSUME NEW e \in Deliveries, rows'[e] = sw[e]
      PROVE  StageOf'[e] = StageOf[e] \/ Promise!Moves(e)
  <2>1. CASE e \in Queued
    <3>1. StageOf'[e] = sw[e].state
      BY <1>6, <1>9, <2>1, NoneIsNoRow DEF StageOf
    <3> QED
      BY <1>6, <2>1, <3>1 DEF Promise!Moves, Promise!LoseSight, Promise!GiveUp, Promise!Goes
  <2>2. CASE e \notin Queued
    BY <1>7, <1>9, <2>2 DEF StageOf
  <2> QED
    BY <2>1, <2>2
<1>10. CASE rows' = sw
  BY <1>1, <1>9, <1>10, Recorded
<1>11. ASSUME d # None, sw[d].state = "PENDING", NEW s, RowOk(s),
              s.state \in {"EXHAUSTED", "IN_FLIGHT"}, rows' = [sw EXCEPT ![d] = s]
       PROVE  PromiseStep
  <2>1. d \in Queued /\ d \in Deliveries /\ StageOf[d] = "PENDING" /\ rows[d].state = "PENDING"
    BY <1>3, <1>6, <1>11
  <2>2. d \notin accepted
    BY <2>1 DEF CallInv, RetryableNotAccepted
  <2>3. rows'[d] = s /\ s # None /\ \A e \in Deliveries : e # d => rows'[e] = sw[e]
    BY <1>8, <1>11, <2>1, NoneIsNoRow DEF RowOk
  <2>4. StageOf'[d] = s.state
    BY <2>1, <2>3 DEF StageOf
  <2>5. Promise!Moves(d)
    BY <1>11, <2>1, <2>2, <2>4 DEF Promise!Moves, Promise!Offer, Promise!GiveUp, Promise!Goes
  <2>6. \A e \in Deliveries : StageOf'[e] = StageOf[e] \/ Promise!Moves(e)
    BY <1>9, <2>3, <2>5
  <2> QED
    BY <1>1, <2>6, Recorded
<1>12. ASSUME d # None, sw[d].state = "PENDING"
       PROVE  RowOk(sw[d]) /\ sw[d].attempts < MaxAttempts
  <2>1. d \in Queued /\ d \in Deliveries /\ RowOk(rows[d])
    BY <1>3, <1>12, Columns
  <2>2. sw[d] = Swept(rows[d], t)
    BY <1>4, <2>1 DEF SweptAll, Queued
  <2> QED
    BY <1>3, <1>12, <2>1, <2>2, SweptRow
<1>13. CASE /\ d # None /\ sw[d].state = "PENDING"
            /\ rows' = [sw EXCEPT ![d] = GivenUp(sw[d])]
  <2>1. PICK s : s = GivenUp(sw[d])
    OBVIOUS
  <2>2. RowOk(s) /\ s.state = "EXHAUSTED"
    BY <1>12, <1>13, <2>1, GivenUpRow
  <2> QED
    BY <1>11, <1>13, <2>1, <2>2
<1>14. CASE /\ d # None /\ sw[d].state = "PENDING" /\ ~TooLate(sw[d], t)
            /\ rows' = [sw EXCEPT ![d] = Claimed(sw[d], p, t)]
  <2>1. PICK s : s = Claimed(sw[d], p, t)
    OBVIOUS
  <2>2. RowOk(s) /\ s.state = "IN_FLIGHT"
    BY <1>3, <1>12, <1>14, <2>1, ClaimedRow
  <2> QED
    BY <1>11, <1>14, <2>1, <2>2
<1> QED
  BY <1>5, <1>10, <1>13, <1>14

\* A query is counted, the delivery stays UNKNOWN.
LEMMA ReconcileKeepsPromise ==
  ASSUME DispatchInv, DispatchInv', NEW p \in Workers, NEW d \in Deliveries, Reconcile(p, d)
  PROVE  PromiseStep
<1>1. d \in Queued /\ accepted' = accepted /\ rows' = [rows EXCEPT ![d].queries = @ + 1]
  BY DEF Reconcile
<1>2. PICK s : s = [rows[d] EXCEPT !.queries = @ + 1]
  OBVIOUS
<1>3. rows' = [rows EXCEPT ![d] = s]
  BY <1>1, <1>2
<1>4. rows[d] \in Row
  BY <1>1, Columns DEF RowOk
<1>5. DOMAIN rows = Deliveries /\ rows'[d] = s /\ rows'[d] \in Row \cup {None}
  BY <1>3 DEF DispatchInv, TypeOK
<1>6. s.state = rows[d].state
  BY <1>2, <1>4 DEF Row
<1>7. s # None
  <2>1. rows[d].queries < MaxQueries
    BY DEF Reconcile
  <2>2. rows[d].queries \in 0..MaxQueries /\ MaxQueries \in Nat
    BY <1>4, BoundsAssumption DEF Row
  <2>3. rows[d].queries + 1 \in 0..MaxQueries
    BY <2>1, <2>2
  <2>4. s \in Row
    BY <1>2, <1>4, <2>3 DEF Row
  <2> QED
    BY <2>4, NoneIsNoRow
<1>8. StageOf[d] = rows[d].state
  BY <1>1, StageOfQueued
<1> QED
  BY <1>1, <1>3, <1>6, <1>7, <1>8, OneRowMoves

\* Every step keeps the promise.
LEMMA StepKeepsPromise ==
  ASSUME Prompt, IInv, IInv', [Next]_vars
  PROVE  PromiseStep
<1>1. DispatchInv /\ DispatchInv' /\ CallInv
  BY DEF IInv
<1>2. ASSUME NEW p \in Workers, Preview(p) \/ Denied(p) \/ Query(p)
      PROVE  PromiseStep
  <2>1. rows' = rows /\ accepted' = accepted
    BY <1>2 DEF Preview, Denied, Query
  <2> QED
    BY <1>1, <2>1, RowsStay
<1>3. ASSUME NEW p \in Workers, NEW kind \in Kinds, Answer(p, kind)
      PROVE  PromiseStep
  <2>1. /\ rows' = rows /\ proc[p].at = "calling"
        /\ accepted' = accepted \/ accepted' = accepted \cup {proc[p].delivery}
    BY <1>3 DEF Answer
  <2> QED
    BY <1>1, <2>1, RowsStay, Reached
<1>4. ASSUME NEW p \in Workers, Crash(p)
      PROVE  PromiseStep
  <2>1. /\ rows' = rows
        /\ \/ accepted' = accepted
           \/ proc[p].at = "calling" /\ accepted' = accepted \cup {proc[p].delivery}
    BY <1>4 DEF Crash
  <2> QED
    BY <1>1, <2>1, RowsStay, Reached
<1>5. ASSUME NEW p \in Workers, NEW d \in Deliveries, Reconcile(p, d) \/ AskRenewal(p, d)
      PROVE  PromiseStep
  <2>1. CASE Reconcile(p, d)
    BY <1>1, <2>1, ReconcileKeepsPromise
  <2>2. CASE AskRenewal(p, d)
    <3>1. rows' = rows /\ accepted' = accepted
      BY <2>2 DEF AskRenewal
    <3> QED
      BY <1>1, <3>1, RowsStay
  <2> QED
    BY <1>5, <2>1, <2>2
<1>6. CASE Tick \/ UNCHANGED vars
  <2>1. rows' = rows /\ accepted' = accepted
    BY <1>6 DEF Tick, vars
  <2> QED
    BY <1>1, <2>1, RowsStay
<1>7. ASSUME NEW p \in Workers, Step(p)
      PROVE  PromiseStep
  BY <1>1, <1>2, <1>3, <1>7, ClaimKeepsPromise, FinishKeepsPromise, ResolveKeepsPromise,
     RenewKeepsPromise DEF Step
<1>8. ASSUME NEW d \in Deliveries, Enqueue(d)
      PROVE  PromiseStep
  BY <1>1, <1>8, EnqueueKeepsPromise
<1> QED
  BY <1>2, <1>4, <1>5, <1>6, <1>7, <1>8 DEF Next

\* Where the clock reading of send_once is current when it is used, any number of
\* processes, whatever dies when, keep the promise made of alerts (lines 3-4 and
\* docs/OPERATIONAL_ALERT_OUTBOX_REFERENCE.md): the detailed outbox implements it.
THEOREM KeepsThePromise ==
  ASSUME Prompt
  PROVE  Spec => PromiseKept
<1>1. Init => Promise!Init
  BY DEF Init, Promise!Init, StageOf
<1>2. IInv /\ IInv' /\ [Next]_vars => [Promise!Next]_(Promise!promiseVars)
  BY StepKeepsPromise DEF PromiseStep
<1> QED
  BY <1>1, <1>2, Invariance, PTL DEF Spec, PromiseKept, Promise!Spec

=============================================================================
