-------------------------- MODULE OwnerAlertsProofs --------------------------
(***************************************************************************)
(* Theorems about OwnerAlerts and OperationalSummary, for any incidents,   *)
(* destinations, batches and capacities.  Episodes are counted by          *)
(* cardinalities of revisions, so the argument is about what one more      *)
(* transition does to the counts: the closures of an incident exceed its   *)
(* reopenings by one exactly while it is resolved.  What is said of the    *)
(* incidents in a summary follows from the same counts.                    *)
(***************************************************************************)
EXTENDS OperationalSummary, FiniteSetTheorems, WellFoundedInduction, TLAPS

\* The revisions counted by Closures and by Reopenings.
ClosedBy(i) ==
  {k \in Revisions(i) :
    /\ history[k].state = "RESOLVED"
    /\ \A j \in Revisions(i) : Adjacent(i, j, k) => history[j].state # "RESOLVED"}
ReopenedBy(i) ==
  {k \in Revisions(i) :
    /\ history[k].state # "RESOLVED"
    /\ \E j \in Revisions(i) : Adjacent(i, j, k) /\ history[j].state = "RESOLVED"}

IsLast(i, k) == k \in Revisions(i) /\ \A m \in Revisions(i) : m <= k

\* The store agrees with its history.
HistoryTells ==
  \A i \in Incidents :
    /\ i \notin Known => Revisions(i) = {}
    /\ i \in Known => \E k \in DOMAIN history :
                        IsLast(i, k) /\ history[k].state = incident[i].state

\* Every episode that is over was closed once, every one but the first opened once.
Balanced ==
  \A i \in Known :
    Closures(i) = IF Resolved(i) THEN Reopenings(i) + 1 ELSE Reopenings(i)

ReceiptsOfConfigured == \A r \in receipts : r[1] \in configured

IInv ==
  /\ TypeOK /\ HistoryTells /\ Balanced /\ ReceiptsOfConfigured
  /\ CaughtUpIsCurrent /\ RecoveryIsProved /\ EpisodesAreReopenings

(***************************************************************************)
(* What one more transition does.                                          *)
(***************************************************************************)

\* Counts are numbers, within the history.
LEMMA CountsAreNumbers ==
  ASSUME TypeOK, NEW i \in Incidents
  PROVE  /\ IsFiniteSet(ClosedBy(i)) /\ IsFiniteSet(ReopenedBy(i))
         /\ Closures(i) = Cardinality(ClosedBy(i)) /\ Closures(i) \in Nat
         /\ Reopenings(i) = Cardinality(ReopenedBy(i)) /\ Reopenings(i) \in Nat
         /\ Closures(i) <= Len(history)
         /\ \A k \in DOMAIN history : k \notin ClosedBy(i) => Closures(i) < Len(history)
<1>1. DOMAIN history = 1..Len(history) /\ Len(history) \in Nat
  BY DEF TypeOK
<1>2. IsFiniteSet(DOMAIN history) /\ Cardinality(DOMAIN history) = Len(history)
  <2>1. PICK n \in Nat : n = Len(history)
    BY <1>1
  <2>2. IsFiniteSet(1..n) /\ Cardinality(1..n) = n
    BY FS_Interval
  <2> QED
    BY <1>1, <2>1, <2>2
<1>3. ClosedBy(i) \subseteq DOMAIN history /\ ReopenedBy(i) \subseteq DOMAIN history
  BY DEF ClosedBy, ReopenedBy, Revisions
<1>4. Closures(i) = Cardinality(ClosedBy(i)) /\ Reopenings(i) = Cardinality(ReopenedBy(i))
  BY DEF Closures, Reopenings, ClosedBy, ReopenedBy
<1>5. /\ IsFiniteSet(ClosedBy(i)) /\ IsFiniteSet(ReopenedBy(i))
      /\ Cardinality(ClosedBy(i)) <= Cardinality(DOMAIN history)
      /\ Cardinality(ClosedBy(i)) = Cardinality(DOMAIN history)
           => ClosedBy(i) = DOMAIN history
  BY <1>2, <1>3, FS_Subset
<1>6. Closures(i) \in Nat /\ Reopenings(i) \in Nat
  BY <1>4, <1>5, FS_CardinalityType
<1> QED
  BY <1>1, <1>2, <1>4, <1>5, <1>6

\* One more transition is one more revision of its incident.
LEMMA OneMoreRevision ==
  ASSUME TypeOK, NEW i \in Incidents, NEW state \in States, NEW n, n = Len(history) + 1,
         history' = Append(history, [incident |-> i, state |-> state])
  PROVE  /\ n \in Nat /\ n \notin DOMAIN history /\ DOMAIN history' = DOMAIN history \cup {n}
         /\ history' \in Seq([incident : Incidents, state : States]) /\ Len(history') = n
         /\ \A k \in DOMAIN history : k \in Nat /\ k < n /\ history'[k] = history[k]
         /\ history'[n] = [incident |-> i, state |-> state]
         /\ Revisions(i)' = Revisions(i) \cup {n}
         /\ \A j \in Incidents : j # i => Revisions(j)' = Revisions(j)
<1>1. [incident |-> i, state |-> state] \in [incident : Incidents, state : States]
  OBVIOUS
<1>2. /\ n \in Nat /\ n \notin DOMAIN history /\ DOMAIN history' = DOMAIN history \cup {n}
      /\ history' \in Seq([incident : Incidents, state : States]) /\ Len(history') = n
      /\ \A k \in DOMAIN history : k \in Nat /\ k < n /\ history'[k] = history[k]
      /\ history'[n] = [incident |-> i, state |-> state]
  BY <1>1 DEF TypeOK
<1>3. history'[n].incident = i
  BY <1>2
<1>4. \A j : Revisions(j)' = {k \in DOMAIN history' : history'[k].incident = j}
  BY DEF Revisions
<1>5. \A j : {k \in DOMAIN history' : history'[k].incident = j}
               = Revisions(j) \cup (IF j = i THEN {n} ELSE {})
  BY <1>2, <1>3 DEF Revisions
<1> QED
  BY <1>2, <1>4, <1>5

\* The counts of the other incidents are as they were.
LEMMA OtherCounts ==
  ASSUME TypeOK, NEW j \in Incidents, Revisions(j)' = Revisions(j),
         \A k \in DOMAIN history : history'[k] = history[k]
  PROVE  Closures(j)' = Closures(j) /\ Reopenings(j)' = Reopenings(j)
<1>1. \A k \in Revisions(j) : history'[k] = history[k]
  BY DEF Revisions
<1>2. \A k, m \in Revisions(j) : Adjacent(j, k, m)' <=> Adjacent(j, k, m)
  BY DEF Adjacent
<1>3. {k \in Revisions(j)' :
         /\ history'[k].state = "RESOLVED"
         /\ \A m \in Revisions(j)' : Adjacent(j, m, k)' => history'[m].state # "RESOLVED"}
      = {k \in Revisions(j) :
         /\ history[k].state = "RESOLVED"
         /\ \A m \in Revisions(j) : Adjacent(j, m, k) => history[m].state # "RESOLVED"}
  BY <1>1, <1>2
<1>4. {k \in Revisions(j)' :
         /\ history'[k].state # "RESOLVED"
         /\ \E m \in Revisions(j)' : Adjacent(j, m, k)' /\ history'[m].state = "RESOLVED"}
      = {k \in Revisions(j) :
         /\ history[k].state # "RESOLVED"
         /\ \E m \in Revisions(j) : Adjacent(j, m, k) /\ history[m].state = "RESOLVED"}
  BY <1>1, <1>2
<1> QED
  BY <1>3, <1>4 DEF Closures, Reopenings

\* The counts of the incident itself: the new revision is judged by the last one
\* before it, the judgement on the others stands.
LEMMA OwnCounts ==
  ASSUME TypeOK, HistoryTells, NEW i \in Incidents, NEW state \in States,
         i \notin Known => state = "OPEN",
         history' = Append(history, [incident |-> i, state |-> state])
  PROVE  /\ Closures(i)' = IF state = "RESOLVED" /\ ~Resolved(i) THEN Closures(i) + 1
                           ELSE Closures(i)
         /\ Reopenings(i)' = IF state # "RESOLVED" /\ i \in Known /\ Resolved(i)
                             THEN Reopenings(i) + 1 ELSE Reopenings(i)
<1>1. PICK n : n = Len(history) + 1
  OBVIOUS
<1>2. /\ n \in Nat /\ n \notin DOMAIN history /\ DOMAIN history' = DOMAIN history \cup {n}
      /\ \A k \in DOMAIN history : k \in Nat /\ k < n /\ history'[k] = history[k]
      /\ history'[n].state = state
      /\ Revisions(i)' = Revisions(i) \cup {n}
  BY <1>1, OneMoreRevision
<1>3. \A k \in Revisions(i) : k \in DOMAIN history /\ k \in Nat /\ k < n
                                /\ history'[k] = history[k]
  BY <1>2 DEF Revisions
<1>4. n \notin Revisions(i)
  BY <1>2 DEF Revisions
<1>5. \A j, k \in Revisions(i) : Adjacent(i, j, k)' <=> Adjacent(i, j, k)
  <2>1. \A k \in Revisions(i) : ~(n < k)
    BY <1>2, <1>3
  <2> QED
    BY <1>2, <2>1 DEF Adjacent
<1>6. \A k \in Revisions(i) : ~Adjacent(i, n, k)'
  BY <1>2, <1>3 DEF Adjacent
<1>7. \A j \in Revisions(i) : Adjacent(i, j, n)' <=> IsLast(i, j)
  BY <1>2, <1>3 DEF Adjacent, IsLast
<1>8. ~Adjacent(i, n, n)'
  BY <1>2 DEF Adjacent
<1>9. \A k \in Revisions(i) :
        /\ k \in ClosedBy(i)' <=> k \in ClosedBy(i)
        /\ k \in ReopenedBy(i)' <=> k \in ReopenedBy(i)
  BY <1>2, <1>3, <1>5, <1>6 DEF ClosedBy, ReopenedBy
<1>10. /\ n \in ClosedBy(i)' <=>
            state = "RESOLVED" /\ \A j \in Revisions(i) :
                                    IsLast(i, j) => history[j].state # "RESOLVED"
       /\ n \in ReopenedBy(i)' <=>
            state # "RESOLVED" /\ \E j \in Revisions(i) :
                                    IsLast(i, j) /\ history[j].state = "RESOLVED"
  BY <1>2, <1>3, <1>7, <1>8 DEF ClosedBy, ReopenedBy
<1>11. /\ n \in ClosedBy(i)' <=> state = "RESOLVED" /\ ~Resolved(i)
       /\ n \in ReopenedBy(i)' <=> state # "RESOLVED" /\ i \in Known /\ Resolved(i)
  <2>1. CASE i \notin Known
    <3>1. Revisions(i) = {} /\ state = "OPEN"
      BY <2>1 DEF HistoryTells
    <3> QED
      BY <1>10, <2>1, <3>1
  <2>2. CASE i \in Known
    <3>1. PICK k \in DOMAIN history : IsLast(i, k) /\ history[k].state = incident[i].state
      BY <2>2 DEF HistoryTells
    <3>2. \A j \in Revisions(i) : IsLast(i, j) => j = k
      BY <1>3, <3>1 DEF IsLast
    <3> QED
      BY <1>10, <2>2, <3>1, <3>2 DEF IsLast, Resolved
  <2> QED
    BY <2>1, <2>2
<1>12. ClosedBy(i)' \subseteq Revisions(i) \cup {n} /\ ReopenedBy(i)' \subseteq Revisions(i) \cup {n}
         /\ ClosedBy(i) \subseteq Revisions(i) /\ ReopenedBy(i) \subseteq Revisions(i)
  BY <1>2 DEF ClosedBy, ReopenedBy
<1>13. /\ ClosedBy(i)' = IF state = "RESOLVED" /\ ~Resolved(i) THEN ClosedBy(i) \cup {n}
                         ELSE ClosedBy(i)
       /\ ReopenedBy(i)' = IF state # "RESOLVED" /\ i \in Known /\ Resolved(i)
                           THEN ReopenedBy(i) \cup {n} ELSE ReopenedBy(i)
  <2>1. ASSUME NEW A, NEW B, NEW R, A \subseteq R \cup {n}, B \subseteq R, n \notin R,
               \A k \in R : k \in A <=> k \in B
        PROVE  A = IF n \in A THEN B \cup {n} ELSE B
    <3>1. CASE n \in A
      <4>1. \A x : x \in A <=> x \in B \cup {n}
        BY <2>1, <3>1
      <4> QED
        BY <3>1, <4>1
    <3>2. CASE n \notin A
      <4>1. \A x : x \in A <=> x \in B
        BY <2>1, <3>2
      <4> QED
        BY <3>2, <4>1
    <3> QED
      BY <3>1, <3>2
  <2>2. /\ ClosedBy(i)' = IF n \in ClosedBy(i)' THEN ClosedBy(i) \cup {n} ELSE ClosedBy(i)
        /\ ReopenedBy(i)' = IF n \in ReopenedBy(i)' THEN ReopenedBy(i) \cup {n}
                            ELSE ReopenedBy(i)
    <3>1. PICK A, B, C, D, R : /\ A = ClosedBy(i)' /\ B = ClosedBy(i) /\ C = ReopenedBy(i)'
                               /\ D = ReopenedBy(i) /\ R = Revisions(i)
      OBVIOUS
    <3>2. A = IF n \in A THEN B \cup {n} ELSE B
      BY <1>4, <1>9, <1>12, <2>1, <3>1
    <3>3. C = IF n \in C THEN D \cup {n} ELSE D
      BY <1>4, <1>9, <1>12, <2>1, <3>1
    <3> QED
      BY <3>1, <3>2, <3>3
  <2> QED
    BY <1>11, <2>2
<1>14. /\ IsFiniteSet(ClosedBy(i)) /\ IsFiniteSet(ReopenedBy(i))
       /\ Closures(i) = Cardinality(ClosedBy(i)) /\ Reopenings(i) = Cardinality(ReopenedBy(i))
  BY CountsAreNumbers
<1>15. /\ Cardinality(ClosedBy(i) \cup {n}) = Closures(i) + 1
       /\ Cardinality(ReopenedBy(i) \cup {n}) = Reopenings(i) + 1
  BY <1>4, <1>12, <1>14, FS_AddElement
<1>16. Closures(i)' = Cardinality(ClosedBy(i)') /\ Reopenings(i)' = Cardinality(ReopenedBy(i)')
  BY DEF Closures, Reopenings, ClosedBy, ReopenedBy
<1> QED
  BY <1>13, <1>14, <1>15, <1>16

(***************************************************************************)
(* Steps that keep the invariant.                                          *)
(***************************************************************************)

\* The owner writes an incident and the trigger its transition.
LEMMA WriteStep ==
  ASSUME IInv, NEW i \in Incidents, NEW state \in States, NEW severity \in Severities,
         i \notin Known => state = "OPEN", SetIncident(i, state, severity)
  PROVE  IInv'
<1>1. PICK n : n = Len(history) + 1
  OBVIOUS
<1>0. PICK size \in Sizes :
        incident' = [incident EXCEPT ![i] = [state |-> state, severity |-> severity,
                                             size |-> size]]
  BY DEF SetIncident
<1>2. /\ incident' = [incident EXCEPT ![i] = [state |-> state, severity |-> severity,
                                              size |-> size]]
      /\ history' = Append(history, [incident |-> i, state |-> state])
      /\ Len(history) < MaxHistory
      /\ UNCHANGED <<configured, receipts, deliveries, accepted>>
  BY <1>0 DEF SetIncident
<1>3. TypeOK /\ HistoryTells /\ Balanced
  BY DEF IInv
<1>4. /\ n \in Nat /\ n \notin DOMAIN history /\ DOMAIN history' = DOMAIN history \cup {n}
      /\ history' \in Seq([incident : Incidents, state : States]) /\ Len(history') = n
      /\ \A k \in DOMAIN history : k \in Nat /\ k < n /\ history'[k] = history[k]
      /\ history'[n] = [incident |-> i, state |-> state]
      /\ Revisions(i)' = Revisions(i) \cup {n}
      /\ \A j \in Incidents : j # i => Revisions(j)' = Revisions(j)
  BY <1>1, <1>2, <1>3, OneMoreRevision
<1>5. /\ incident'[i] = [state |-> state, severity |-> severity, size |-> size]
      /\ \A j \in Incidents : j # i => incident'[j] = incident[j]
      /\ incident' \in [Incidents -> Row \cup {None}]
  BY <1>2, <1>3 DEF TypeOK, Row
<1>6. Known' = Known \cup {i}
  <2>1. incident'[i] # None
    BY <1>5, NoneIsNoIncident DEF States
  <2> QED
    BY <1>5, <2>1 DEF Known
<1>7. TypeOK'
  <2>1. Len(history') <= MaxHistory
    BY <1>1, <1>2, <1>3, <1>4, LimitsAssumption DEF TypeOK
  <2>2. receipts' \subseteq Destinations \X (1..Len(history'))
    BY <1>1, <1>2, <1>3, <1>4 DEF TypeOK
  <2> QED
    BY <1>2, <1>3, <1>4, <1>5, <2>1, <2>2 DEF TypeOK
<1>8. HistoryTells'
  <2> SUFFICES ASSUME NEW j \in Incidents
               PROVE  /\ j \notin Known' => Revisions(j)' = {}
                      /\ j \in Known' => \E k \in DOMAIN history' :
                           IsLast(j, k)' /\ history'[k].state = incident'[j].state
    BY DEF HistoryTells
  <2>1. CASE j = i
    <3>1. n \in Revisions(i)' /\ \A m \in Revisions(i)' : m <= n
      <4>1. \A m \in Revisions(i) : m \in DOMAIN history
        BY DEF Revisions
      <4> QED
        BY <1>4, <4>1
    <3>2. history'[n].state = incident'[i].state
      BY <1>4, <1>5
    <3> QED
      BY <1>4, <1>6, <2>1, <3>1, <3>2 DEF IsLast
  <2>2. CASE j # i
    <3>1. /\ j \notin Known => Revisions(j) = {}
          /\ j \in Known => \E k \in DOMAIN history :
                              IsLast(j, k) /\ history[k].state = incident[j].state
      BY <1>3 DEF HistoryTells
    <3> QED
      BY <1>4, <1>5, <1>6, <2>2, <3>1 DEF IsLast
  <2> QED
    BY <2>1, <2>2
<1>9. \A j \in Incidents : j # i => Closures(j)' = Closures(j) /\ Reopenings(j)' = Reopenings(j)
  BY <1>3, <1>4, OtherCounts
<1>10. /\ Closures(i)' = IF state = "RESOLVED" /\ ~Resolved(i) THEN Closures(i) + 1
                         ELSE Closures(i)
       /\ Reopenings(i)' = IF state # "RESOLVED" /\ i \in Known /\ Resolved(i)
                           THEN Reopenings(i) + 1 ELSE Reopenings(i)
  BY <1>2, <1>3, OwnCounts
<1>11. \A j \in Incidents : Closures(j) \in Nat /\ Reopenings(j) \in Nat
  BY <1>3, CountsAreNumbers
<1>12. Resolved(i)' <=> state = "RESOLVED"
  BY <1>5 DEF Resolved
<1>13. \A j \in Incidents : j # i => Resolved(j)' = Resolved(j)
  BY <1>5 DEF Resolved
<1>14. Balanced'
  <2> SUFFICES ASSUME NEW j \in Known'
               PROVE  Closures(j)' = IF Resolved(j)' THEN Reopenings(j)' + 1 ELSE Reopenings(j)'
    BY DEF Balanced
  <2>1. CASE j # i
    BY <1>3, <1>6, <1>9, <1>13, <2>1 DEF Balanced, Known
  <2>2. CASE j = i /\ i \in Known
    <3>1. Closures(i) = IF Resolved(i) THEN Reopenings(i) + 1 ELSE Reopenings(i)
      BY <1>3, <2>2 DEF Balanced
    <3> QED
      BY <1>10, <1>11, <1>12, <2>2, <3>1
  <2>3. CASE j = i /\ i \notin Known
    <3>1. ClosedBy(i) = {} /\ ReopenedBy(i) = {}
      BY <1>3, <2>3 DEF HistoryTells, ClosedBy, ReopenedBy
    <3>2. Closures(i) = 0 /\ Reopenings(i) = 0
      BY <1>3, <3>1, CountsAreNumbers, FS_EmptySet
    <3>3. state = "OPEN"
      BY <2>3
    <3> QED
      BY <1>10, <1>12, <2>3, <3>2, <3>3
  <2> QED
    BY <2>1, <2>2, <2>3
<1>15. ReceiptsOfConfigured'
  BY <1>2 DEF IInv, ReceiptsOfConfigured
<1>16. CaughtUpIsCurrent'
  <2> SUFFICES ASSUME NEW dest \in configured', NEW j \in Known',
                      Unreceipted(j, dest)' = {}, Due(j, dest)'
               PROVE  Current(j, dest)' \in deliveries'
    BY DEF CaughtUpIsCurrent
  <2>1. CASE j = i
    <3>1. <<dest, n>> \notin receipts
      BY <1>1, <1>3, <1>4 DEF TypeOK
    <3>2. n \in Unreceipted(i, dest)'
      BY <1>2, <1>4, <3>1 DEF Unreceipted
    <3> QED
      BY <2>1, <3>2
  <2>2. CASE j # i
    <3>1. j \in Known /\ j \in Incidents /\ dest \in configured
      BY <1>2, <1>6, <2>2 DEF Known
    <3>2. Unreceipted(j, dest) = {}
      BY <1>2, <1>4, <2>2, <3>1 DEF Unreceipted
    <3>3. Episode(j)' = Episode(j) /\ Phase(j)' = Phase(j)
      BY <1>5, <1>9, <1>13, <2>2, <3>1 DEF Episode, Phase
    <3>4. Due(j, dest)
      BY <1>2, <1>5, <1>13, <2>2, <3>1, <3>3 DEF Due, ProblemTold
    <3>5. Current(j, dest) \in deliveries
      BY <3>1, <3>2, <3>4 DEF IInv, CaughtUpIsCurrent
    <3> QED
      BY <1>2, <3>3, <3>5 DEF Current
  <2> QED
    BY <2>1, <2>2
<1>17. \A j \in Incidents : Closures(j) <= Closures(j)' /\ Reopenings(j) <= Reopenings(j)'
                              /\ Closures(j)' \in Nat /\ Reopenings(j)' \in Nat
  BY <1>9, <1>10, <1>11
<1>18. \A d \in deliveries : d.incident \in Incidents /\ d.episode \in Nat
  BY <1>3 DEF TypeOK, Delivery
<1>19. RecoveryIsProved'
  <2> SUFFICES ASSUME NEW d \in deliveries', d.phase = "RECOVERY"
               PROVE  /\ ProblemTold(d.incident, d.destination, d.episode)'
                      /\ d.episode <= Closures(d.incident)'
    BY DEF RecoveryIsProved
  <2>1. d \in deliveries /\ ProblemTold(d.incident, d.destination, d.episode)
          /\ d.episode <= Closures(d.incident)
    BY <1>2 DEF IInv, RecoveryIsProved
  <2>2. d.episode <= Closures(d.incident)'
    BY <1>11, <1>17, <1>18, <2>1
  <2> QED
    BY <1>2, <2>1, <2>2 DEF ProblemTold
<1>20. EpisodesAreReopenings'
  <2> SUFFICES ASSUME NEW d \in deliveries PROVE d.episode <= Reopenings(d.incident)' + 1
    BY <1>2 DEF EpisodesAreReopenings
  <2>1. d.episode <= Reopenings(d.incident) + 1
    BY DEF IInv, EpisodesAreReopenings
  <2> QED
    BY <1>11, <1>17, <1>18, <2>1
<1> QED
  BY <1>7, <1>8, <1>14, <1>15, <1>16, <1>19, <1>20 DEF IInv

\* A destination is configured: it has no receipt yet, so no incident is caught up.
LEMMA ConfigureStep ==
  ASSUME IInv, NEW dest \in Destinations, Configure(dest)
  PROVE  IInv'
<1>1. /\ dest \notin configured /\ configured' = configured \cup {dest}
      /\ UNCHANGED <<incident, history, receipts, deliveries, accepted>>
  BY DEF Configure
<1>2. TypeOK'
  BY <1>1 DEF IInv, TypeOK
<1>3. /\ \A i : Revisions(i)' = Revisions(i) /\ Resolved(i)' = Resolved(i)
      /\ \A i : Closures(i)' = Closures(i) /\ Reopenings(i)' = Reopenings(i)
      /\ Known' = Known
  BY <1>1 DEF Revisions, Resolved, Known, Closures, Reopenings, Adjacent
<1>4. HistoryTells'
  BY <1>1, <1>3 DEF IInv, HistoryTells, IsLast
<1>5. Balanced'
  BY <1>3 DEF IInv, Balanced
<1>6. ReceiptsOfConfigured'
  BY <1>1 DEF IInv, ReceiptsOfConfigured
<1>7. CaughtUpIsCurrent'
  <2> SUFFICES ASSUME NEW other \in configured', NEW i \in Known',
                      Unreceipted(i, other)' = {}, Due(i, other)'
               PROVE  Current(i, other)' \in deliveries'
    BY DEF CaughtUpIsCurrent
  <2>1. CASE other \in configured
    <3>1. Unreceipted(i, other) = {} /\ Due(i, other)
      BY <1>1, <1>3 DEF Unreceipted, Due, ProblemTold, Episode
    <3>2. Current(i, other)' = Current(i, other)
      BY <1>1, <1>3 DEF Current, Episode, Phase
    <3> QED
      BY <1>1, <1>3, <2>1, <3>1, <3>2 DEF IInv, CaughtUpIsCurrent
  <2>2. CASE other = dest
    <3>1. i \in Incidents /\ i \in Known
      BY <1>3 DEF Known
    <3>2. PICK k \in DOMAIN history : IsLast(i, k)
      BY <3>1 DEF IInv, HistoryTells
    <3>3. k \in Revisions(i)
      BY <3>2 DEF IsLast
    <3>4. <<dest, k>> \notin receipts
      BY <1>1 DEF IInv, ReceiptsOfConfigured
    <3>5. k \in Unreceipted(i, dest)'
      BY <1>1, <1>3, <3>3, <3>4 DEF Unreceipted
    <3> QED
      BY <2>2, <3>5
  <2> QED
    BY <1>1, <2>1, <2>2
<1>8. RecoveryIsProved'
  BY <1>1, <1>3 DEF IInv, RecoveryIsProved, ProblemTold
<1>9. EpisodesAreReopenings'
  BY <1>1, <1>3 DEF IInv, EpisodesAreReopenings
<1> QED
  BY <1>2, <1>4, <1>5, <1>6, <1>7, <1>8, <1>9 DEF IInv

\* Nothing the invariant speaks of, but for the accepted ones, has moved.
LEMMA Elsewhere ==
  ASSUME IInv, UNCHANGED <<incident, history, configured, receipts, deliveries>>,
         accepted' \subseteq deliveries'
  PROVE  IInv'
<1>1. TypeOK'
  BY DEF IInv, TypeOK
<1>2. /\ \A i : Revisions(i)' = Revisions(i) /\ Resolved(i)' = Resolved(i)
      /\ \A i : Closures(i)' = Closures(i) /\ Reopenings(i)' = Reopenings(i)
      /\ Known' = Known
  BY DEF Revisions, Resolved, Known, Closures, Reopenings, Adjacent
<1>3. HistoryTells' /\ Balanced' /\ ReceiptsOfConfigured'
  BY <1>2 DEF IInv, HistoryTells, IsLast, Balanced, ReceiptsOfConfigured
<1>4. CaughtUpIsCurrent'
  <2> SUFFICES ASSUME NEW dest \in configured, NEW i \in Known,
                      Unreceipted(i, dest)' = {}, Due(i, dest)'
               PROVE  Current(i, dest)' \in deliveries
    BY <1>2 DEF CaughtUpIsCurrent
  <2>1. Unreceipted(i, dest) = {} /\ Due(i, dest)
    BY <1>2 DEF Unreceipted, Due, ProblemTold, Episode
  <2>2. Current(i, dest)' = Current(i, dest)
    BY <1>2 DEF Current, Episode, Phase
  <2> QED
    BY <2>1, <2>2 DEF IInv, CaughtUpIsCurrent
<1>5. RecoveryIsProved' /\ EpisodesAreReopenings'
  BY <1>2 DEF IInv, RecoveryIsProved, ProblemTold, EpisodesAreReopenings
<1> QED
  BY <1>1, <1>3, <1>4, <1>5 DEF IInv

\* Numbers have a least one: the oldest transition without a receipt exists.
LEMMA LeastIsOne ==
  ASSUME NEW S \in SUBSET Nat, S # {}
  PROVE  Least(S) \in S
<1> DEFINE R == {ss \in Nat \X Nat : ss[1] < ss[2]}
<1>1. IsWellFoundedOn(R, Nat)
  BY NatLessThanWellFounded DEF OpToRel
<1>2. \E x \in S : \A y \in S : ~ (<<y, x>> \in R)
  BY <1>1, WFMin
<1>3. PICK x \in S : \A y \in S : ~ (<<y, x>> \in R)
  BY <1>2
<1>4. \A y \in S : x \in Nat /\ y \in Nat /\ ~ (y < x)
  BY <1>3
<1>5. \A y \in S : x <= y
  BY <1>4
<1> QED
  BY <1>5 DEF Least

\* The present state of a known incident makes a delivery, of an episode that
\* its history has reached.
LEMMA CurrentIsADelivery ==
  ASSUME IInv, NEW i \in Known, NEW dest \in Destinations
  PROVE  /\ Current(i, dest) \in Delivery
         /\ Episode(i) = IF Resolved(i) THEN Closures(i) ELSE Closures(i) + 1
         /\ Episode(i) <= Reopenings(i) + 1
         /\ Resolved(i) => Episode(i) <= Closures(i)
<1>1. i \in Incidents
  BY DEF Known
<1>2. TypeOK /\ HistoryTells /\ Balanced
  BY DEF IInv
<1>3. /\ Closures(i) \in Nat /\ Reopenings(i) \in Nat /\ Closures(i) <= Len(history)
      /\ \A k \in DOMAIN history : k \notin ClosedBy(i) => Closures(i) < Len(history)
  BY <1>1, <1>2, CountsAreNumbers
<1>4. Closures(i) = IF Resolved(i) THEN Reopenings(i) + 1 ELSE Reopenings(i)
  BY <1>2 DEF Balanced
<1>5. Len(history) \in Nat /\ Len(history) <= MaxHistory /\ MaxHistory \in Nat
  BY <1>2, LimitsAssumption DEF TypeOK
<1>6. ~Resolved(i) => Closures(i) < Len(history)
  <2> SUFFICES ASSUME ~Resolved(i) PROVE Closures(i) < Len(history)
    OBVIOUS
  <2>1. PICK k \in DOMAIN history : IsLast(i, k) /\ history[k].state = incident[i].state
    BY <1>1, <1>2 DEF HistoryTells
  <2>2. k \notin ClosedBy(i)
    BY <2>1 DEF ClosedBy, Resolved
  <2> QED
    BY <1>3, <2>2
<1>7. Episode(i) = IF Resolved(i) THEN Closures(i) ELSE Closures(i) + 1
  BY DEF Episode
<1>8. Episode(i) \in 1..MaxHistory
  <2>1. CASE Resolved(i)
    BY <1>3, <1>4, <1>5, <1>7, <2>1
  <2>2. CASE ~Resolved(i)
    BY <1>3, <1>5, <1>6, <1>7, <2>2
  <2> QED
    BY <2>1, <2>2
<1>9. Episode(i) <= Reopenings(i) + 1 /\ (Resolved(i) => Episode(i) <= Closures(i))
  BY <1>3, <1>4, <1>7
<1>10. Phase(i) \in Phases
  BY DEF Phase, Phases
<1> QED
  BY <1>1, <1>7, <1>8, <1>9, <1>10 DEF Current, Delivery

\* A batch is reconciled: its oldest transitions get their receipts, and what is
\* due of its incidents' present state is queued with them.
LEMMA ReconcileStep ==
  ASSUME IInv, NEW dest \in Destinations, NEW limit \in Limits, Reconcile(dest, limit)
  PROVE  IInv'
<1> PICK B \in Batches(dest, limit) :
      LET due == {Current(i, dest) : i \in {j \in B : Due(j, dest)}} \ deliveries
      IN  /\ deliveries' = deliveries \cup due
          /\ receipts' = receipts \cup {<<dest, Least(Unreceipted(i, dest))>> : i \in B}
  BY DEF Reconcile
<1> DEFINE due == {Current(i, dest) : i \in {j \in B : Due(j, dest)}} \ deliveries
<1>1. /\ deliveries' = deliveries \cup due
      /\ receipts' = receipts \cup {<<dest, Least(Unreceipted(i, dest))>> : i \in B}
      /\ dest \in configured
      /\ UNCHANGED <<incident, history, configured, accepted>>
  BY DEF Reconcile
<1>2. TypeOK /\ HistoryTells /\ Balanced /\ ReceiptsOfConfigured
  BY DEF IInv
<1>3. /\ \A i : Revisions(i)' = Revisions(i) /\ Resolved(i)' = Resolved(i)
      /\ \A i : Closures(i)' = Closures(i) /\ Reopenings(i)' = Reopenings(i)
      /\ \A i : Episode(i)' = Episode(i) /\ Phase(i)' = Phase(i)
      /\ \A i, other : Current(i, other)' = Current(i, other)
      /\ Known' = Known
  <2>1. /\ \A i : Revisions(i)' = Revisions(i) /\ Resolved(i)' = Resolved(i)
        /\ \A i : Closures(i)' = Closures(i) /\ Reopenings(i)' = Reopenings(i)
        /\ Known' = Known
    BY <1>1 DEF Revisions, Resolved, Known, Closures, Reopenings, Adjacent
  <2>2. \A i : Episode(i)' = Episode(i) /\ Phase(i)' = Phase(i)
    BY <1>1, <2>1 DEF Episode, Phase
  <2> QED
    BY <2>1, <2>2 DEF Current
<1>4. \A i \in B : /\ i \in Known /\ i \in Incidents
                   /\ Least(Unreceipted(i, dest)) \in Revisions(i)
  <2> SUFFICES ASSUME NEW i \in B
               PROVE  i \in Known /\ i \in Incidents
                        /\ Least(Unreceipted(i, dest)) \in Revisions(i)
    OBVIOUS
  <2>1. i \in Incidents /\ Unreceipted(i, dest) # {}
    BY DEF Batches, Pending
  <2>2. Unreceipted(i, dest) \subseteq Revisions(i)
    BY DEF Unreceipted
  <2>3. Revisions(i) \subseteq Nat
    BY <1>2 DEF Revisions, TypeOK
  <2>4. Least(Unreceipted(i, dest)) \in Unreceipted(i, dest)
    BY <2>1, <2>2, <2>3, LeastIsOne
  <2>5. i \in Known
    BY <1>2, <2>1, <2>2 DEF HistoryTells
  <2> QED
    BY <2>1, <2>2, <2>4, <2>5
<1>5. \A d \in due : \E i \in B : d = Current(i, dest) /\ Due(i, dest)
  BY <1>1
<1>6. \A d \in due : \E i \in Known :
        /\ d = Current(i, dest) /\ d \in Delivery /\ Due(i, dest)
        /\ d.incident = i /\ d.destination = dest
        /\ d.episode = Episode(i) /\ d.phase = Phase(i)
  BY <1>4, <1>5, CurrentIsADelivery DEF Current
<1>7. TypeOK'
  <2>1. receipts' \subseteq Destinations \X (1..Len(history))
    <3>1. \A i \in B : Least(Unreceipted(i, dest)) \in DOMAIN history
      BY <1>4 DEF Revisions
    <3>2. DOMAIN history = 1..Len(history)
      BY <1>2 DEF TypeOK
    <3> QED
      BY <1>1, <1>2, <3>1, <3>2 DEF TypeOK
  <2>2. deliveries' \subseteq Delivery /\ accepted' \subseteq deliveries'
    BY <1>1, <1>2, <1>6 DEF TypeOK
  <2> QED
    BY <1>1, <1>2, <2>1, <2>2 DEF TypeOK
<1>8. HistoryTells' /\ Balanced'
  BY <1>1, <1>2, <1>3 DEF HistoryTells, IsLast, Balanced
<1>9. ReceiptsOfConfigured'
  BY <1>1, <1>2 DEF ReceiptsOfConfigured
<1>10. ASSUME NEW i \in Known, NEW other, Due(i, other)'
       PROVE  Due(i, other)
  <2>1. CASE ~Resolved(i)
    BY <1>1, <1>3, <1>10, <2>1 DEF Due
  <2>2. CASE Resolved(i)
    <3>1. PICK d \in deliveries' :
            /\ d.incident = i /\ d.destination = other /\ d.episode = Episode(i)
            /\ d.phase # "RECOVERY"
      BY <1>3, <1>10, <2>2 DEF Due, ProblemTold
    <3>2. d \notin due
      BY <1>6, <2>2, <3>1 DEF Phase
    <3> QED
      BY <1>1, <2>2, <3>1, <3>2 DEF Due, ProblemTold
  <2> QED
    BY <2>1, <2>2
<1>11. CaughtUpIsCurrent'
  <2> SUFFICES ASSUME NEW other \in configured, NEW i \in Known,
                      Unreceipted(i, other)' = {}, Due(i, other)'
               PROVE  Current(i, other) \in deliveries'
    BY <1>1, <1>3 DEF CaughtUpIsCurrent
  <2>1. Due(i, other)
    BY <1>10
  <2>2. CASE other = dest /\ i \in B
    BY <1>1, <2>1, <2>2
  <2>3. CASE ~(other = dest /\ i \in B)
    <3>1. \A k \in Revisions(i) : <<other, k>> \in receipts' => <<other, k>> \in receipts
      <4> SUFFICES ASSUME NEW k \in Revisions(i), NEW j \in B,
                          <<other, k>> = <<dest, Least(Unreceipted(j, dest))>>
                   PROVE  FALSE
        BY <1>1
      <4>1. other = dest /\ k \in Revisions(j)
        BY <1>4
      <4>2. i = j
        BY <4>1 DEF Revisions
      <4> QED
        BY <2>3, <4>1, <4>2
    <3>2. Unreceipted(i, other) = {}
      BY <1>3, <3>1 DEF Unreceipted
    <3> QED
      BY <1>1, <2>1, <3>2 DEF IInv, CaughtUpIsCurrent
  <2> QED
    BY <2>2, <2>3
<1>12. RecoveryIsProved'
  <2> SUFFICES ASSUME NEW d \in deliveries', d.phase = "RECOVERY"
               PROVE  /\ ProblemTold(d.incident, d.destination, d.episode)
                      /\ d.episode <= Closures(d.incident)
    BY <1>1, <1>3 DEF RecoveryIsProved, ProblemTold
  <2>1. CASE d \in deliveries
    BY <2>1 DEF IInv, RecoveryIsProved
  <2>2. CASE d \in due
    <3>1. PICK i \in Known :
            /\ Due(i, dest) /\ d.incident = i /\ d.destination = dest
            /\ d.episode = Episode(i) /\ d.phase = Phase(i)
      BY <1>6, <2>2
    <3>2. Resolved(i)
      BY <3>1 DEF Phase
    <3>3. ProblemTold(i, dest, Episode(i))
      BY <3>1, <3>2 DEF Due
    <3>4. Episode(i) <= Closures(i)
      BY <3>2, CurrentIsADelivery
    <3> QED
      BY <3>1, <3>3, <3>4
  <2> QED
    BY <1>1, <2>1, <2>2
<1>13. EpisodesAreReopenings'
  <2> SUFFICES ASSUME NEW d \in deliveries' PROVE d.episode <= Reopenings(d.incident) + 1
    BY <1>3 DEF EpisodesAreReopenings
  <2>1. CASE d \in deliveries
    BY <2>1 DEF IInv, EpisodesAreReopenings
  <2>2. CASE d \in due
    <3>1. PICK i \in Known : d.incident = i /\ d.episode = Episode(i)
      BY <1>6, <2>2
    <3>2. Episode(i) <= Reopenings(i) + 1
      BY CurrentIsADelivery
    <3> QED
      BY <3>1, <3>2
  <2> QED
    BY <1>1, <2>1, <2>2
<1> QED
  BY <1>7, <1>8, <1>9, <1>11, <1>12, <1>13 DEF IInv

(***************************************************************************)
(* The theorems.                                                           *)
(***************************************************************************)

\* Of the incidents older than the history each has one revision, which closes
\* an episode if it found the incident resolved and reopens none.
LEMMA BaselineTells ==
  ASSUME Baseline
  PROVE  /\ history \in Seq([incident : Incidents, state : States]) /\ Len(history) <= MaxHistory
         /\ HistoryTells /\ Balanced
<1>0. PICK n \in 0..MaxFound : \E found \in [1..n -> Known] :
        /\ \A i \in Known : \E k \in 1..n : found[k] = i
        /\ \A j, k \in 1..n : found[j] = found[k] => j = k
        /\ history = [k \in 1..n |-> [incident |-> found[k], state |-> incident[found[k]].state]]
  BY DEF Baseline
<1>1. PICK found \in [1..n -> Known] :
        /\ \A i \in Known : \E k \in 1..n : found[k] = i
        /\ \A j, k \in 1..n : found[j] = found[k] => j = k
        /\ history = [k \in 1..n |-> [incident |-> found[k], state |-> incident[found[k]].state]]
  BY <1>0
<1>2. \A i \in Known : i \in Incidents /\ incident[i] \in Row /\ incident[i].state \in States
  BY DEF Baseline, Known, Row
<1>3. /\ n \in Nat /\ n <= MaxHistory
      /\ \A k \in 1..n : found[k] \in Known
                           /\ [incident |-> found[k], state |-> incident[found[k]].state]
                                \in [incident : Incidents, state : States]
  BY <1>1, <1>2, LimitsAssumption
<1>4. /\ history \in Seq([incident : Incidents, state : States]) /\ Len(history) = n
      /\ DOMAIN history = 1..n
      /\ \A k \in 1..n : history[k].incident = found[k]
                           /\ history[k].state = incident[found[k]].state
  BY <1>1, <1>3
<1>5. \A i \in Incidents : Revisions(i) = {k \in 1..n : found[k] = i}
  BY <1>4 DEF Revisions
<1>6. \A i \in Incidents \ Known : Revisions(i) = {}
  BY <1>3, <1>5
<1>7. \A i \in Known : \E k \in 1..n : Revisions(i) = {k} /\ history[k].state = incident[i].state
  <2> SUFFICES ASSUME NEW i \in Known
               PROVE  \E k \in 1..n : Revisions(i) = {k} /\ history[k].state = incident[i].state
    OBVIOUS
  <2>1. PICK k \in 1..n : found[k] = i
    BY <1>1
  <2>2. Revisions(i) = {k}
    BY <1>1, <1>2, <1>5, <2>1
  <2> QED
    BY <1>4, <2>1, <2>2
<1>8. HistoryTells
  <2> SUFFICES ASSUME NEW i \in Known
               PROVE  \E k \in DOMAIN history :
                        IsLast(i, k) /\ history[k].state = incident[i].state
    BY <1>6 DEF HistoryTells
  <2>1. PICK k \in 1..n : Revisions(i) = {k} /\ history[k].state = incident[i].state
    BY <1>7
  <2>2. k <= k
    BY <2>1
  <2> QED
    BY <1>4, <2>1, <2>2 DEF IsLast
<1>9. Balanced
  <2> SUFFICES ASSUME NEW i \in Known
               PROVE  Closures(i) = IF Resolved(i) THEN Reopenings(i) + 1 ELSE Reopenings(i)
    BY DEF Balanced
  <2>1. PICK k \in 1..n : Revisions(i) = {k} /\ history[k].state = incident[i].state
    BY <1>7
  <2>2. ~Adjacent(i, k, k)
    BY <2>1 DEF Adjacent
  <2>3. ReopenedBy(i) = {} /\ ClosedBy(i) = IF Resolved(i) THEN {k} ELSE {}
    BY <2>1, <2>2 DEF ReopenedBy, ClosedBy, Resolved
  <2>4. Cardinality({}) = 0 /\ Cardinality({k}) = 1
    BY FS_EmptySet, FS_Singleton
  <2>5. Closures(i) = Cardinality(ClosedBy(i)) /\ Reopenings(i) = Cardinality(ReopenedBy(i))
    BY DEF Closures, Reopenings, ClosedBy, ReopenedBy
  <2> QED
    BY <2>3, <2>4, <2>5
<1> QED
  BY <1>3, <1>4, <1>8, <1>9

\* Tables that are empty but for such incidents satisfy the invariant.
LEMMA InitIInv == Init => IInv
<1> SUFFICES ASSUME Init PROVE IInv
  OBVIOUS
<1>1. /\ configured = {} /\ receipts = {} /\ deliveries = {} /\ accepted = {}
      /\ Baseline /\ incident \in [Incidents -> Row \cup {None}]
  BY DEF Init, Baseline
<1>2. TypeOK
  BY <1>1, BaselineTells DEF TypeOK
<1>3. HistoryTells /\ Balanced /\ ReceiptsOfConfigured
  BY <1>1, BaselineTells DEF ReceiptsOfConfigured
<1>4. CaughtUpIsCurrent /\ RecoveryIsProved /\ EpisodesAreReopenings
  BY <1>1 DEF CaughtUpIsCurrent, RecoveryIsProved, EpisodesAreReopenings
<1> QED
  BY <1>2, <1>3, <1>4 DEF IInv

\* Every transaction keeps the invariant.
LEMMA NextIInv == IInv /\ [Next]_vars => IInv'
<1> SUFFICES ASSUME IInv, [Next]_vars PROVE IInv'
  OBVIOUS
<1>1. ASSUME NEW i \in Incidents, NEW severity \in Severities, OpenIncident(i, severity)
      PROVE  IInv'
  BY <1>1, WriteStep DEF OpenIncident, States
<1>2. ASSUME NEW i \in Known,
             \/ SetIncident(i, "RECOVERING", incident[i].severity)
             \/ SetIncident(i, "RESOLVED", incident[i].severity)
      PROVE  IInv'
  <2>1. i \in Incidents /\ incident[i] \in Row
    BY DEF IInv, TypeOK, Known
  <2>2. PICK severity \in Severities : severity = incident[i].severity
    BY <2>1 DEF Row
  <2>3. CASE SetIncident(i, "RECOVERING", severity)
    BY <2>1, <2>3, WriteStep DEF States
  <2>4. CASE SetIncident(i, "RESOLVED", severity)
    BY <2>1, <2>4, WriteStep DEF States
  <2> QED
    BY <1>2, <2>2, <2>3, <2>4
<1>3. ASSUME NEW dest \in Destinations, Configure(dest) \/ ReconcileSome(dest)
      PROVE  IInv'
  BY <1>3, ConfigureStep, ReconcileStep DEF ReconcileSome
<1>4. ASSUME NEW d \in deliveries, Settle(d)
      PROVE  IInv'
  <2>1. accepted' \subseteq deliveries'
    BY <1>4 DEF IInv, TypeOK, Settle, Active
  <2> QED
    BY <1>4, <2>1, Elsewhere DEF Settle
<1>5. CASE UNCHANGED vars
  <2>1. accepted' \subseteq deliveries'
    BY <1>5 DEF IInv, TypeOK, vars
  <2> QED
    BY <1>5, <2>1, Elsewhere DEF vars
<1> QED
  BY <1>1, <1>2, <1>3, <1>4, <1>5 DEF Next, Recovering, ResolveIncident

\* The invariant holds in every state of every run.
THEOREM Invariance == Spec => []IInv
BY InitIInv, NextIInv, PTL DEF Spec

\* The tables hold what they range over.
THEOREM TypeCorrect == Spec => []TypeOK
<1>1. IInv => TypeOK
  BY DEF IInv
<1> QED
  BY <1>1, Invariance, PTL

\* A destination whose receipts are complete has been told the present state of
\* every incident it should know (reconcile_owner_transitions, lines 111-118).
THEOREM CaughtUpIsTold == Spec => []CaughtUpIsCurrent
<1>1. IInv => CaughtUpIsCurrent
  BY DEF IInv
<1> QED
  BY <1>1, Invariance, PTL

\* No recovery is told of a problem that was not told or has not been closed
\* (reconcile_owner_transitions, lines 134-135).
THEOREM RecoveriesFollowProblems == Spec => []RecoveryIsProved
<1>1. IInv => RecoveryIsProved
  BY DEF IInv
<1> QED
  BY <1>1, Invariance, PTL

\* The episodes told of an incident are never more than its reopenings and one.
THEOREM EpisodesAreCounted == Spec => []EpisodesAreReopenings
<1>1. IInv => EpisodesAreReopenings
  BY DEF IInv
<1> QED
  BY <1>1, Invariance, PTL

(***************************************************************************)
(* The summaries made of the incidents.                                    *)
(***************************************************************************)

\* Every incident that is known has a revision, so they are finitely many.
LEMMA KnownIsFinite ==
  ASSUME TypeOK, HistoryTells
  PROVE  IsFiniteSet(Known) /\ Cardinality(Known) \in Nat
<1> DEFINE told == {history[k].incident : k \in DOMAIN history}
           by == [k \in DOMAIN history |-> history[k].incident]
<1>1. IsFiniteSet(DOMAIN history)
  <2>1. PICK n \in Nat : n = Len(history) /\ DOMAIN history = 1..n
    BY DEF TypeOK
  <2> QED
    BY <2>1, FS_Interval
<1>2. by \in Surjection(DOMAIN history, told)
  BY DEF Surjection
<1>3. IsFiniteSet(told)
  BY <1>1, <1>2, FS_Surjection
<1>4. Known \subseteq told
  <2> SUFFICES ASSUME NEW i \in Known PROVE i \in told
    OBVIOUS
  <2>1. i \in Incidents
    BY DEF Known
  <2>2. PICK k \in DOMAIN history : IsLast(i, k)
    BY <2>1 DEF HistoryTells
  <2>3. history[k].incident = i
    BY <2>2 DEF IsLast, Revisions
  <2> QED
    BY <2>3
<1> QED
  BY <1>3, <1>4, FS_Subset, FS_CardinalityType

\* Of finitely many rows, what a query can return is at most as many as its limit,
\* and all there are unless they are as many as that.
LEMMA ListingsFit ==
  ASSUME NEW asked, IsFiniteSet(asked), NEW limit \in Nat, NEW L \in Listings(limit, asked)
  PROVE  /\ L \subseteq asked /\ Cardinality(L) \in Nat /\ Cardinality(asked) \in Nat
         /\ Cardinality(L) <= limit /\ Cardinality(L) <= Cardinality(asked)
         /\ Cardinality(L) < limit => L = asked
         /\ Cardinality(L) = Cardinality(asked) <=> L = asked
<1>1. /\ L \subseteq asked
      /\ Cardinality(L) = limit \/ (L = asked /\ Cardinality(L) < limit)
  BY DEF Listings
<1>2. /\ IsFiniteSet(L) /\ Cardinality(L) <= Cardinality(asked)
      /\ Cardinality(asked) = Cardinality(L) => asked = L
  BY <1>1, FS_Subset
<1>3. Cardinality(L) \in Nat /\ Cardinality(asked) \in Nat
  BY <1>2, FS_CardinalityType
<1> QED
  BY <1>1, <1>2, <1>3

\* Counting rows in the table comes to the status of all of them.
LEMMA CountedIsWorst ==
  ASSUME NEW asked, IsFiniteSet(asked)
  PROVE  CountedStatus(asked) = Worst(asked)
<1>1. ASSUME NEW state
      PROVE  Count(state, asked) > 0 <=> \E i \in asked : incident[i].state = state
  <2> DEFINE those == {i \in asked : incident[i].state = state}
  <2>1. IsFiniteSet(those)
    BY FS_Subset
  <2>2. Cardinality(those) \in Nat /\ (Cardinality(those) = 0 <=> those = {})
    BY <2>1, FS_CardinalityType, FS_EmptySet
  <2>3. Cardinality(those) > 0 <=> those # {}
    BY <2>2
  <2>4. those # {} <=> \E i \in asked : incident[i].state = state
    OBVIOUS
  <2> QED
    BY <2>3, <2>4 DEF Count
<1> QED
  BY <1>1 DEF CountedStatus, Worst

\* Where all that is asked about is resolved, every alert's episode was closed.
LEMMA HealthyIsClosed ==
  ASSUME IInv, NEW asked \in SUBSET Known, IsFiniteSet(asked),
         CountedStatus(asked) = "HEALTHY",
         NEW d \in deliveries, d.incident \in asked
  PROVE  d.episode <= Closures(d.incident)
<1>1. PICK i \in asked : i = d.incident
  OBVIOUS
<1>2. i \in Known /\ i \in Incidents /\ incident[i].state \in States
  BY DEF Known, IInv, TypeOK, Row
<1>3. Resolved(i)
  <2>1. Worst(asked) = "HEALTHY"
    BY CountedIsWorst
  <2>2. incident[i].state # "OPEN" /\ incident[i].state # "RECOVERING"
    BY <2>1 DEF Worst
  <2> QED
    BY <1>2, <2>2 DEF States, Resolved
<1>4. Closures(i) = Reopenings(i) + 1
  BY <1>2, <1>3 DEF IInv, Balanced
<1>5. d.episode <= Reopenings(i) + 1
  BY <1>1 DEF IInv, EpisodesAreReopenings
<1> QED
  BY <1>1, <1>4, <1>5

\* The invariant makes the summaries honest.
LEMMA InvariantIsHonest == IInv => SummaryIsHonest
<1> SUFFICES ASSUME IInv, NEW since \in 0..Len(history)
             PROVE  LET asked == SeenSince(since)
                    IN  /\ \A limit \in 1..(Cardinality(Known) + 1) :
                           \A L \in Listings(limit + 1, asked) :
                             /\ \A visible \in SUBSET Known :
                                  Status(L, limit, visible) \in {"UNKNOWN", CountedStatus(asked)}
                             /\ \A M \in Listings(limit, asked) :
                                  Cut(M, asked) <=> Status(L, limit, Known) = "UNKNOWN"
                        /\ CountedStatus(asked) = "HEALTHY" =>
                             \A d \in deliveries :
                               d.incident \in asked => d.episode <= Closures(d.incident)
  BY DEF SummaryIsHonest
<1> DEFINE asked == SeenSince(since)
<1>1. IsFiniteSet(Known) /\ Cardinality(Known) \in Nat
  BY KnownIsFinite DEF IInv
<1>2. asked \subseteq Known
  BY DEF SeenSince
<1>3. IsFiniteSet(asked)
  BY <1>1, <1>2, FS_Subset
<1> HIDE DEF asked
<1>4. CountedStatus(asked) = Worst(asked) /\ Worst(asked) # "UNKNOWN"
  BY <1>3, CountedIsWorst DEF Worst
<1>5. ASSUME NEW limit \in 1..(Cardinality(Known) + 1), NEW L \in Listings(limit + 1, asked)
      PROVE  /\ \A visible \in SUBSET Known :
                  Status(L, limit, visible) \in {"UNKNOWN", CountedStatus(asked)}
             /\ \A M \in Listings(limit, asked) :
                  Cut(M, asked) <=> Status(L, limit, Known) = "UNKNOWN"
  <2>1. limit \in Nat /\ limit + 1 \in Nat
    BY <1>1
  <2>2. /\ L \subseteq asked /\ Cardinality(L) \in Nat /\ Cardinality(asked) \in Nat
        /\ Cardinality(L) <= Cardinality(asked)
        /\ Cardinality(L) < limit + 1 => L = asked
    BY <1>3, <2>1, ListingsFit
  <2>3. Cardinality(L) <= limit => L = asked
    BY <2>1, <2>2
  <2>4. ASSUME NEW visible \in SUBSET Known
        PROVE  Status(L, limit, visible) \in {"UNKNOWN", CountedStatus(asked)}
    BY <1>4, <2>3 DEF Status
  <2>5. ASSUME NEW M \in Listings(limit, asked)
        PROVE  Cut(M, asked) <=> Status(L, limit, Known) = "UNKNOWN"
    <3>1. /\ Cardinality(M) \in Nat /\ Cardinality(M) <= limit
          /\ Cardinality(M) <= Cardinality(asked) /\ (Cardinality(M) < limit => M = asked)
      BY <1>3, <2>1, ListingsFit
    <3>2. CASE Cardinality(L) <= limit
      <4>1. Cardinality(asked) <= limit /\ L \subseteq Known
        BY <1>2, <2>2, <2>3, <3>2
      <4>2. ~Cut(M, asked)
        BY <2>1, <2>2, <3>1, <4>1 DEF Cut
      <4> QED
        BY <1>4, <2>3, <3>2, <4>1, <4>2 DEF Status
    <3>3. CASE ~(Cardinality(L) <= limit)
      <4>1. Cut(M, asked)
        BY <2>1, <2>2, <3>1, <3>3 DEF Cut
      <4> QED
        BY <3>3, <4>1 DEF Status
    <3> QED
      BY <3>2, <3>3
  <2> QED
    BY <2>4, <2>5
<1>6. CountedStatus(asked) = "HEALTHY" =>
        \A d \in deliveries : d.incident \in asked => d.episode <= Closures(d.incident)
  BY <1>2, <1>3, HealthyIsClosed
<1> QED
  BY <1>5, <1>6 DEF asked

\* Neither summary says of the incidents what they are not, and the two agree
\* with each other and with the alerts (operational_incidents.py, summary;
\* gateway_operational_api.py, the summary route).
THEOREM SummariesAreHonest == Spec => []SummaryIsHonest
BY InvariantIsHonest, Invariance, PTL
=============================================================================
