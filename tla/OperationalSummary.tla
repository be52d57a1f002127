------------------------- MODULE OperationalSummary -------------------------
(***************************************************************************)
(* Two summaries of the incidents as they are.  That of the interface      *)
(* (gateway_operational_api.py) takes one row more than its limit to tell  *)
(* a full answer from a cut one, leaves out the rows the caller may not    *)
(* see and makes a status of the rest.  That of the store (summary of      *)
(* operational_incidents.py) counts in the table beside the rows it lists. *)
(* A query for the incidents seen since some time is one for those whose   *)
(* last transition is after a revision.                                    *)
(***************************************************************************)
EXTENDS OwnerAlerts

LastRevision(i) == CHOOSE k \in Revisions(i) : \A j \in Revisions(i) : j <= k
SeenSince(since) == {i \in Known : LastRevision(i) > since}

\* Unresolved before resolved, then by severity; the action required, the time
\* and the identifier are abstracted to any order.
Precedes(i, j) ==
  \/ ~Resolved(i) /\ Resolved(j)
  \/ Resolved(i) = Resolved(j) /\ incident[i].severity > incident[j].severity

\* What a query with a limit can return of those it asks for.
Listings(limit, asked) ==
  {L \in SUBSET asked :
     /\ Cardinality(L) = limit \/ (L = asked /\ Cardinality(L) < limit)
     /\ \A i \in L, j \in asked \ L : ~Precedes(j, i)}

\* What the incidents of a set amount to.
Worst(I) ==
  IF \E i \in I : incident[i].state = "OPEN" THEN "DEGRADED"
  ELSE IF \E i \in I : incident[i].state = "RECOVERING" THEN "RECOVERING"
  ELSE "HEALTHY"

\* Variant: an answer that is cut is taken for a full one.
StatusUnprobed(L, limit, visible) == IF L \subseteq visible THEN Worst(L) ELSE "UNKNOWN"

\* The status of an answer for which rows L were read, one more than the limit
\* if there are so many.
Status(L, limit, visible) ==
  IF Cardinality(L) <= limit /\ L \subseteq visible THEN Worst(L) ELSE "UNKNOWN"

\* The counts of the store, the status it makes of them, and whether it says
\* that the rows L it lists are not all.
Count(state, asked) == Cardinality({i \in asked : incident[i].state = state})
CountedStatus(asked) ==
  IF Count("OPEN", asked) > 0 THEN "DEGRADED"
  ELSE IF Count("RECOVERING", asked) > 0 THEN "RECOVERING"
  ELSE "HEALTHY"
Cut(L, asked) == Cardinality(asked) > Cardinality(L)

-----------------------------------------------------------------------------
\* A status of the interface other than UNKNOWN is the one the store counts over
\* all the incidents asked about, for every limit and whatever the caller may not
\* see; a caller who sees everything gets UNKNOWN exactly when the store says
\* that its list is cut; and both agree with the alerts: where all is said to be
\* healthy, every problem a destination was alerted of belongs to an episode that
\* the owner has closed.
SummaryIsHonest ==
  \A since \in 0..Len(history) :
    LET asked == SeenSince(since)
    IN  /\ \A limit \in 1..(Cardinality(Known) + 1) : \A L \in Listings(limit + 1, asked) :
             /\ \A visible \in SUBSET Known :
                  Status(L, limit, visible) \in {"UNKNOWN", CountedStatus(asked)}
             /\ \A M \in Listings(limit, asked) :
                  Cut(M, asked) <=> Status(L, limit, Known) = "UNKNOWN"
        /\ CountedStatus(asked) = "HEALTHY" =>
             \A d \in deliveries : d.incident \in asked => d.episode <= Closures(d.incident)
=============================================================================
